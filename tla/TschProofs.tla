------------------------------ MODULE TschProofs ------------------------------
(***************************************************************************)
(* Proofs about Tsch, for every set of packets, neighbors and links: the   *)
(* lock protects the slot in progress, nothing that the interrupt left is  *)
(* forgotten, every packet is in one place, the links of a neighbor are    *)
(* counted right, and packets are given back as MacService promises.       *)
(***************************************************************************)
EXTENDS Tsch, FiniteSetTheorems, WellFoundedInduction, TLAPS

(* Of the calls in s: joining and leaving end it, and a queue is flushed   *)
(* right after the lock was released.                                      *)
Shape(s) ==
    /\ s \in Seq(Calls)
    /\ \A i \in 1..Len(s) :
         /\ s[i][1] \in {"associate_done", "reset_done"} => i = Len(s)
         /\ s[i][1] = "flush" => i = 1 \/ (i = 2 /\ s[1][1] = "release")

Leaving(s) ==
    \E i \in 1..Len(s) : s[i][1] \in {"queue_reset", "reset_done"}
Joining(s) == \E i \in 1..Len(s) : s[i][1] = "associate_done"

NoFlush(s) == \A i \in 1..Len(s) : s[i][1] # "flush"

(* The flushed queues belong to neighbors that are not found any more. *)
FlushesGone(s) ==
    \A i \in 1..Len(s) : s[i][1] = "flush" => s[i][2] \notin nbrs

(* The part of the inductive invariant that is about process context. *)
TodoInv ==
    /\ Shape(todo)
    /\ Leaving(todo) => ~ tsch_is_associated /\ ~ scanning /\ phase # "tx"
    /\ Joining(todo) => scanning
    /\ scanning => ~ tsch_is_associated /\ phase # "tx"
    /\ Leaving(todo) \/ FlushesGone(todo)

Types ==
    /\ links \subseteq Link /\ nbrs \subseteq Addr
    /\ queue \in [Addr -> Seq(Packet)]
    /\ dequeued \in Seq(Packet)
    /\ {current_link, backup_link} \subseteq Link \cup {None}

IInv == Types /\ TodoInv /\ SlotKept

------------------------------------------------------------------------------
(* The calls that remain after one has returned keep their shape. *)
LEMMA TailShape ==
  ASSUME NEW s, Shape(s), s # <<>>
  PROVE  /\ Shape(Tail(s))
         /\ Leaving(Tail(s)) => Leaving(s)
         /\ Joining(Tail(s)) => Joining(s)
         /\ s[1][1] # "release" => NoFlush(Tail(s))
         /\ Leaving(s) /\ s[1][1] = "release" => Leaving(Tail(s))
         /\ FlushesGone(s) => FlushesGone(Tail(s))
  <1>1. s \in Seq(Calls) BY DEF Shape
  <1>2. /\ Tail(s) \in Seq(Calls) /\ Len(Tail(s)) = Len(s) - 1
        /\ \A i \in 1..Len(Tail(s)) : i + 1 \in 1..Len(s) /\ Tail(s)[i] = s[i + 1]
    BY <1>1
  <1>3. Len(s) \in Nat \ {0} BY <1>1
  <1>4. ASSUME NEW i \in 1..Len(Tail(s))
        PROVE  /\ Tail(s)[i][1] \in {"associate_done", "reset_done"}
                    => i = Len(Tail(s))
               /\ Tail(s)[i][1] = "flush" => i = 1 /\ s[1][1] = "release"
    <2> DEFINE j == i + 1
    <2>1. j \in 1..Len(s) /\ Tail(s)[i] = s[j] /\ i \in Nat \ {0} BY <1>2, <1>3
    <2>2. /\ s[j][1] \in {"associate_done", "reset_done"} => j = Len(s)
          /\ s[j][1] = "flush" => j = 1 \/ (j = 2 /\ s[1][1] = "release")
      BY <2>1 DEF Shape
    <2>3. Len(Tail(s)) = Len(s) - 1 BY <1>2
    <2> HIDE DEF j
    <2>4. j = i + 1 BY DEF j
    <2>5. ASSUME Tail(s)[i][1] \in {"associate_done", "reset_done"}
          PROVE  i = Len(Tail(s))
      <3>1. j = Len(s) BY <2>1, <2>2, <2>5
      <3> QED BY <3>1, <2>1, <2>3, <2>4, <1>3
    <2>6. ASSUME Tail(s)[i][1] = "flush" PROVE i = 1 /\ s[1][1] = "release"
      <3>1. j = 1 \/ (j = 2 /\ s[1][1] = "release") BY <2>1, <2>2, <2>6
      <3> QED BY <3>1, <2>1, <2>4
    <2> QED BY <2>5, <2>6
  <1>5. Shape(Tail(s)) BY <1>2, <1>4 DEF Shape
  <1>6. Leaving(Tail(s)) => Leaving(s) BY <1>2 DEF Leaving
  <1>7. Joining(Tail(s)) => Joining(s) BY <1>2 DEF Joining
  <1>8. FlushesGone(s) => FlushesGone(Tail(s)) BY <1>2 DEF FlushesGone
  <1>9. s[1][1] # "release" => NoFlush(Tail(s)) BY <1>4 DEF NoFlush
  <1>10. ASSUME Leaving(s), s[1][1] = "release" PROVE Leaving(Tail(s))
    <2>1. PICK i \in 1..Len(s) : s[i][1] \in {"queue_reset", "reset_done"}
      BY <1>10 DEF Leaving
    <2>2. i - 1 \in 1..Len(Tail(s)) /\ (i - 1) + 1 = i BY <1>2, <1>3, <1>10, <2>1
    <2>3. Tail(s)[i - 1] = s[i] BY <1>2, <2>2
    <2> QED BY <2>1, <2>2, <2>3 DEF Leaving
  <1> QED BY <1>5, <1>6, <1>7, <1>8, <1>9, <1>10

(* A call is replaced by the calls x that it makes. *)
LEMMA PushShape ==
  ASSUME NEW s, Shape(s), s # <<>>, s[1][1] \notin {"flush", "release"},
         NEW x, x \in Seq(Calls),
         \A i \in 1..Len(x) :
            /\ x[i][1] \notin {"associate_done", "reset_done"}
            /\ x[i][1] = "flush" => i = 1 \/ (i = 2 /\ x[1][1] = "release")
  PROVE  /\ Shape(x \o Tail(s))
         /\ Leaving(x \o Tail(s)) => Leaving(s) \/ Leaving(x)
         /\ Joining(x \o Tail(s)) => Joining(s)
         /\ Leaving(x) => Leaving(x \o Tail(s))
         /\ \A i \in 1..Len(x \o Tail(s)) : (x \o Tail(s))[i][1] = "flush" =>
              i \in 1..Len(x) /\ (x \o Tail(s))[i] = x[i]
  <1> DEFINE y == x \o Tail(s)
  <1>1. s \in Seq(Calls) BY DEF Shape
  <1>2. Len(s) \in Nat \ {0} /\ Len(x) \in Nat BY <1>1
  <1>3. y \in Seq(Calls) /\ Len(y) = Len(x) + Len(s) - 1 BY <1>1
  <1>4. \A i \in 1..Len(x) : y[i] = x[i] BY <1>1
  <1>5. \A i \in 1..Len(y) : i > Len(x) =>
           i - Len(x) + 1 \in 2..Len(s) /\ y[i] = s[i - Len(x) + 1]
    BY <1>1, <1>2, <1>3
  <1>6. \A j \in 2..Len(s) : s[j][1] # "flush" BY <1>2 DEF Shape
  <1> HIDE DEF y
  <1>7. ASSUME NEW i \in 1..Len(y)
        PROVE  /\ y[i][1] \in {"associate_done", "reset_done"} => i = Len(y)
               /\ y[i][1] = "flush" => i \in 1..Len(x)
    <2>1. CASE i \in 1..Len(x) BY <1>4, <2>1
    <2>2. CASE i > Len(x)
      <3> DEFINE j == i - Len(x) + 1
      <3>1. j \in 2..Len(s) /\ y[i] = s[j] BY <1>5, <2>2
      <3>2. s[j][1] \in {"associate_done", "reset_done"} => j = Len(s)
        BY <3>1, <1>2 DEF Shape
      <3> QED BY <3>1, <3>2, <1>2, <1>3, <1>6
    <2> QED BY <2>1, <2>2, <1>2, <1>3
  <1>8. Shape(y)
    <2>1. ASSUME NEW i \in 1..Len(y), y[i][1] = "flush"
          PROVE  i = 1 \/ (i = 2 /\ y[1][1] = "release")
      <3>1. i \in 1..Len(x) /\ 1 \in 1..Len(x) BY <1>7, <1>2, <2>1
      <3> QED BY <3>1, <1>4, <2>1
    <2> QED BY <1>3, <1>7, <2>1 DEF Shape
  <1>9. Leaving(y) => Leaving(s) \/ Leaving(x)
    <2> SUFFICES ASSUME NEW i \in 1..Len(y),
                        y[i][1] \in {"queue_reset", "reset_done"}
                 PROVE  Leaving(s) \/ Leaving(x)
      BY DEF Leaving
    <2>1. CASE i \in 1..Len(x) BY <1>4, <2>1 DEF Leaving
    <2>2. CASE i > Len(x)
      <3>1. i - Len(x) + 1 \in 1..Len(s) BY <1>5, <1>2, <2>2
      <3> QED BY <3>1, <1>5, <2>2 DEF Leaving
    <2> QED BY <2>1, <2>2, <1>2, <1>3
  <1>10. Joining(y) => Joining(s)
    <2> SUFFICES ASSUME NEW i \in 1..Len(y), y[i][1] = "associate_done"
                 PROVE  Joining(s)
      BY DEF Joining
    <2>1. i > Len(x) BY <1>2, <1>3, <1>4
    <2>2. i - Len(x) + 1 \in 1..Len(s) BY <1>5, <1>2, <2>1
    <2> QED BY <2>1, <2>2, <1>5 DEF Joining
  <1>11. \A i \in 1..Len(y) : y[i][1] = "flush" => i \in 1..Len(x) /\ y[i] = x[i]
    BY <1>4, <1>7
  <1>12. Leaving(x) => Leaving(y)
    <2>1. \A i \in 1..Len(x) : i \in 1..Len(y) BY <1>2, <1>3
    <2> QED BY <1>4, <2>1 DEF Leaving
  <1> QED BY <1>8, <1>9, <1>10, <1>11, <1>12 DEF y

(* What the calls are about. *)
LEMMA CallArg ==
  ASSUME NEW c \in Calls
  PROVE  /\ c[1] \in {"add_nbr", "remove_nbr", "flush", "count_up", "count_down"}
                => c[2] \in Addr
         /\ c[1] \in {"add_link", "remove_link"} => c[2] \in Link
         /\ c[1] \in {"queue_reset", "free_unused"} => c[2] \subseteq Addr
         /\ c[1] = "add_packet" => c[2] \in Packet
  BY DEF Calls

(* Process context leaves the network, or keeps out of it. *)
NetKeeps ==
    /\ scanning' = scanning
    /\ tsch_is_associated' => tsch_is_associated

(* A step that changes no call; a slot begins in a network only. *)
LEMMA TodoKept ==
  ASSUME TodoInv, NetKeeps, todo' = todo, nbrs' = nbrs,
         phase' = "tx" => phase = "tx" \/ tsch_is_associated
  PROVE  TodoInv'
  <1>1. /\ Shape(todo)' <=> Shape(todo)
        /\ Leaving(todo)' <=> Leaving(todo)
        /\ Joining(todo)' <=> Joining(todo)
    BY DEF Shape, Leaving, Joining
  <1>2. FlushesGone(todo)' <=> FlushesGone(todo) BY DEF FlushesGone
  <1> QED BY <1>1, <1>2 DEF TodoInv, NetKeeps

(* A step after which other calls are to be made. *)
LEMMA TodoStep ==
  ASSUME TodoInv, NetKeeps, phase' = phase, Shape(todo'),
         Leaving(todo') => Leaving(todo), Joining(todo') => Joining(todo),
         Leaving(todo') \/ FlushesGone(todo)'
  PROVE  TodoInv'
  <1>1. /\ Shape(todo)' <=> Shape(todo')
        /\ Leaving(todo)' <=> Leaving(todo')
        /\ Joining(todo)' <=> Joining(todo')
    BY DEF Shape, Leaving, Joining
  <1> QED BY <1>1 DEF TodoInv, NetKeeps

LEMMA Returned ==
  ASSUME TodoInv, NetKeeps, phase' = phase, todo # <<>>, Return,
         Head(todo)[1] # "release"
  PROVE  TodoInv'
  <1>1. Shape(todo) /\ todo' = Tail(todo) BY DEF TodoInv, Return
  <1>2. todo[1][1] # "release" BY <1>1 DEF Shape
  <1>3. NoFlush(todo') BY <1>1, <1>2, TailShape
  <1>4. FlushesGone(todo)' BY <1>3 DEF NoFlush, FlushesGone
  <1>5. /\ Shape(todo')
        /\ Leaving(todo') => Leaving(todo)
        /\ Joining(todo') => Joining(todo)
    BY <1>1, TailShape
  <1> QED BY <1>4, <1>5, TodoStep

LEMMA Pushed ==
  ASSUME TodoInv, NetKeeps, phase' = phase, todo # <<>>,
         Head(todo)[1] \notin {"flush", "release"},
         NEW x \in Seq(Calls), ReturnTo(x),
         \A i \in 1..Len(x) :
            /\ x[i][1] \notin {"associate_done", "reset_done"}
            /\ x[i][1] = "flush" => i = 1 \/ (i = 2 /\ x[1][1] = "release"),
         Leaving(x) => Leaving(todo),
         Leaving(x) \/ \A i \in 1..Len(x) : x[i][1] = "flush" => x[i][2] \notin nbrs'
  PROVE  TodoInv'
  <1>1. Shape(todo) /\ todo' = x \o Tail(todo) BY DEF TodoInv, ReturnTo
  <1>2. todo[1][1] \notin {"flush", "release"} BY <1>1 DEF Shape
  <1>3. /\ Shape(todo')
        /\ Leaving(todo') => Leaving(todo) \/ Leaving(x)
        /\ Joining(todo') => Joining(todo)
        /\ Leaving(x) => Leaving(todo')
    BY <1>1, <1>2, PushShape
  <1>4. ASSUME \A i \in 1..Len(x) : x[i][1] = "flush" => x[i][2] \notin nbrs'
        PROVE  FlushesGone(todo)'
    <2>1. \A i \in 1..Len(todo') : todo'[i][1] = "flush" =>
             i \in 1..Len(x) /\ todo'[i] = x[i]
      BY <1>1, <1>2, PushShape
    <2> QED BY <1>4, <2>1 DEF FlushesGone
  <1> QED BY <1>3, <1>4, TodoStep

------------------------------------------------------------------------------
(* The slot operation. *)

LEMMA NextActiveIn ==
  ASSUME NEW n \in NextActive
  PROVE  n[1] \in links \cup {None} /\ n[2] \in links \cup {None}
  BY DEF NextActive

LEMMA ScheduleKeeps ==
  ASSUME Types, NEW l \in Link \cup {None}, NEW w, NEW b, NEW f,
         ~ f => l \in links \cup {None}, ScheduleNext(l, w, b, f)
  PROVE  /\ {current_link', backup_link'} \subseteq Link \cup {None}
         /\ ~ fallback' => current_link' \in links \cup {None}
         /\ NetKeeps
  <1>1. NetKeeps BY DEF ScheduleNext, netVars, NetKeeps
  <1>2. CASE /\ current_link' = l /\ backup_link' = None
             /\ fallback' = f
    BY <1>1, <1>2 DEF Types
  <1>3. CASE /\ \E n \in NextActive : current_link' = n[1] /\ backup_link' = n[2]
             /\ fallback' = FALSE
    <2>1. {current_link', backup_link'} \subseteq links \cup {None}
      BY <1>3, NextActiveIn
    <2> QED BY <1>1, <2>1 DEF Types
  <1> QED BY <1>2, <1>3 DEF ScheduleNext

LEMMA SlotEndKeeps ==
  ASSUME Types, NEW l \in Link \cup {None}, NEW w, NEW b, NEW f,
         ~ f => l \in links \cup {None}, SlotEnd(l, w, b, f)
  PROVE  /\ {current_link', backup_link'} \subseteq Link \cup {None}
         /\ ~ fallback' => current_link' \in links \cup {None}
         /\ NetKeeps /\ phase' = "idle"
  <1>1. CASE ScheduleNext(l, w, b, f) BY <1>1, ScheduleKeeps DEF SlotEnd
  <1>2. CASE /\ tsch_disassociate
             /\ current_link' = l /\ fallback' = f /\ backup_link' = backup_link
    BY <1>2 DEF SlotEnd, tsch_disassociate, NetKeeps, Types
  <1> QED BY <1>1, <1>2 DEF SlotEnd

(* After the end of a slot the invariant needs only what is left of it. *)
LEMMA SlotOver ==
  ASSUME IInv, NEW l \in Link \cup {None}, NEW w, NEW b, NEW f,
         ~ f => l \in links \cup {None}, SlotEnd(l, w, b, f),
         todo' = todo, nbrs' = nbrs, links' = links,
         queue' \in [Addr -> Seq(Packet)], dequeued' \in Seq(Packet)
  PROVE  IInv'
  <1>1. /\ {current_link', backup_link'} \subseteq Link \cup {None}
        /\ ~ fallback' => current_link' \in links \cup {None}
        /\ NetKeeps /\ phase' = "idle"
    BY SlotEndKeeps DEF IInv
  <1>2. Types' BY <1>1 DEF IInv, Types
  <1>3. TodoInv' BY <1>1, TodoKept DEF IInv
  <1>4. SlotKept' BY <1>1 DEF SlotKept
  <1> QED BY <1>2, <1>3, <1>4 DEF IInv

LEMMA CurrentLink ==
  ASSUME IInv
  PROVE  /\ current_link \in Link \cup {None} /\ backup_link \in Link \cup {None}
         /\ ~ fallback => current_link \in links \cup {None}
         /\ queue \in [Addr -> Seq(Packet)] /\ dequeued \in Seq(Packet)
  BY DEF IInv, Types, SlotKept

LEMMA NeighborForIn ==
  ASSUME NEW l, NEW a \in NeighborFor(l)
  PROVE  ~ tsch_locked /\ a \in nbrs /\ queue[a] # <<>>
  BY DEF NeighborFor, AnyNeighbor, Sendable

LEMMA SlotBeginStep ==
  ASSUME IInv, NEW l \in Link, NEW f, ~ f => l \in links \cup {None},
         tsch_is_associated, phase = "idle", SlotBegin(l, f), None \notin Link,
         UNCHANGED <<lockVars, todo, pending, links, nbrVars, packetVars>>
  PROVE  IInv'
  <1> USE DEF lockVars, nbrVars, packetVars
  <1>1. CASE \E w : SlotEnd(l, w, FALSE, f)
    <2>1. PICK w : SlotEnd(l, w, FALSE, f) BY <1>1
    <2> QED BY <2>1, SlotOver, CurrentLink
  <1>2. CASE /\ phase' \in {"tx", "rx"} /\ current_link' = l /\ fallback' = f
             /\ backup_link' = backup_link /\ UNCHANGED netVars
             /\ phase' = "tx" => \E a \in NeighborFor(l) :
                  /\ current_neighbor' = a /\ current_packet' = Head(queue[a])
                  /\ Len(dequeued) < DequeuedSize - 1
    <2>1. Types' BY <1>2 DEF IInv, Types
    <2>2. NetKeeps BY <1>2 DEF netVars, NetKeeps
    <2>3. TodoInv' BY <2>2, TodoKept DEF IInv
    <2>4. ASSUME phase' = "tx"
          PROVE  /\ ~ tsch_locked' /\ current_link' # None
                 /\ current_neighbor' \in nbrs'
                 /\ queue'[current_neighbor'] # <<>>
                 /\ Head(queue'[current_neighbor']) = current_packet'
                 /\ Len(dequeued') < DequeuedSize - 1
      <3>1. PICK a \in NeighborFor(l) :
                  /\ current_neighbor' = a /\ current_packet' = Head(queue[a])
                  /\ Len(dequeued) < DequeuedSize - 1
        BY <1>2, <2>4
      <3>2. ~ tsch_locked /\ a \in nbrs /\ queue[a] # <<>> BY NeighborForIn
      <3> QED BY <1>2, <3>1, <3>2
    <2>5. SlotKept' BY <1>2, <2>4 DEF SlotKept
    <2> QED BY <2>1, <2>3, <2>5 DEF IInv
  <1> QED BY <1>1, <1>2 DEF SlotBegin

LEMMA TxEndStep == ASSUME IInv, tx_slot_end PROVE IInv'
  <1> DEFINE p == current_packet
             a == current_neighbor
             gone(s) == s = "OK" \/ transmissions[p] + 1 >= MaxTx[p]
             q(s) == IF gone(s) THEN Removed(a) ELSE queue
  <1>1. PICK s \in TxStatus(a) :
          /\ queue' = q(s)
          /\ dequeued' = IF gone(s) THEN Append(dequeued, p) ELSE dequeued
          /\ \E h \in SharedLink(current_link), b \in BOOLEAN :
               \E w \in WindowAfter(a, h, s, q(s)) :
                  SlotEnd(current_link, w, b, fallback)
    BY Zenon DEF tx_slot_end
  <1>2. phase = "tx" /\ UNCHANGED <<todo, links, nbrs>>
    BY DEF tx_slot_end, nbrVars
  <1>3. a \in Addr /\ queue[a] # <<>> /\ p = Head(queue[a])
    BY <1>2 DEF IInv, SlotKept, Types
  <1>4. p \in Packet /\ Tail(queue[a]) \in Seq(Packet) BY <1>3, CurrentLink
  <1>5. Removed(a) \in [Addr -> Seq(Packet)]
    BY <1>3, <1>4, CurrentLink DEF Removed
  <1>6. queue' \in [Addr -> Seq(Packet)] /\ dequeued' \in Seq(Packet)
    BY <1>1, <1>4, <1>5, CurrentLink
  <1>7. PICK w, b : SlotEnd(current_link, w, b, fallback) BY <1>1
  <1> QED BY <1>2, <1>6, <1>7, SlotOver, CurrentLink

(* The interrupt keeps the invariant. *)
LEMMA SlotStep == ASSUME IInv, Slot PROVE IInv'
  <1>0. None \notin Link BY TschAssumption
  <1>1. CASE slot_stop
    <2>1. UNCHANGED <<tsch_locked, todo, scanning, tsch_is_associated, links,
             nbrs, queue, dequeued, phase, current_packet, current_neighbor,
             current_link, backup_link, fallback>>
      BY <1>1 DEF slot_stop, lockVars, netVars, nbrVars, packetVars, linkVars
    <2>2. TodoInv' BY <2>1, TodoKept DEF IInv, NetKeeps
    <2>3. Types' /\ SlotKept' BY <2>1 DEF IInv, Types, SlotKept
    <2> QED BY <2>2, <2>3 DEF IInv
  <1>2. CASE slot_skip
    <2>1. SlotEnd(current_link, backoff_window, burst_link_scheduled, fallback)
      BY <1>2 DEF slot_skip
    <2>2. UNCHANGED <<todo, links, nbrs, queue, dequeued>>
      BY <1>2 DEF slot_skip, nbrVars, packetVars
    <2> QED BY <2>1, <2>2, SlotOver, CurrentLink
  <1>3. CASE slot_missed
    <2>1. ScheduleNext(current_link, backoff_window, burst_link_scheduled, fallback)
      BY <1>3 DEF slot_missed
    <2>2. UNCHANGED <<todo, links, nbrs, queue, dequeued, phase>> /\ phase = "idle"
      BY <1>3 DEF slot_missed, nbrVars, packetVars
    <2>3. /\ {current_link', backup_link'} \subseteq Link \cup {None}
          /\ ~ fallback' => current_link' \in links \cup {None}
          /\ NetKeeps
      BY <2>1, ScheduleKeeps, CurrentLink DEF IInv
    <2>4. TodoInv' BY <2>2, <2>3, TodoKept DEF IInv
    <2>5. Types' /\ SlotKept' BY <2>2, <2>3 DEF IInv, Types, SlotKept
    <2> QED BY <2>4, <2>5 DEF IInv
  <1>4. CASE slot_begin
    <2>1. /\ phase = "idle" /\ tsch_is_associated /\ current_link # None
          /\ UNCHANGED <<lockVars, todo, pending, links, nbrVars, packetVars>>
          /\ \/ backup_link # None /\ SlotBegin(backup_link, TRUE)
             \/ SlotBegin(current_link, fallback)
      BY <1>4 DEF slot_begin
    <2>2. CASE backup_link # None /\ SlotBegin(backup_link, TRUE)
      <3>1. backup_link \in Link BY <2>2, CurrentLink
      <3> QED BY <1>0, <2>1, <2>2, <3>1, SlotBeginStep
    <2>3. CASE SlotBegin(current_link, fallback)
      <3>1. current_link \in Link BY <2>1, CurrentLink
      <3> QED BY <1>0, <2>1, <2>3, <3>1, SlotBeginStep, CurrentLink
    <2> QED BY <2>1, <2>2, <2>3
  <1>5. CASE tx_slot_end BY <1>5, TxEndStep
  <1>6. CASE rx_slot_end
    <2>1. PICK b \in BOOLEAN : SlotEnd(current_link, backoff_window, b, fallback)
      BY <1>6 DEF rx_slot_end
    <2>2. UNCHANGED <<todo, links, nbrs, queue, dequeued>>
      BY <1>6 DEF rx_slot_end, nbrVars, packetVars
    <2> QED BY <2>1, <2>2, SlotOver, CurrentLink
  <1> QED BY <1>1, <1>2, <1>3, <1>4, <1>5, <1>6 DEF Slot

------------------------------------------------------------------------------
(* Process context. *)

(* Calls of which the shape of todo says nothing. *)
Plain ==
    {c \in Calls :
        c[1] \notin {"associate_done", "reset_done", "queue_reset", "flush"}}

LEMMA PlainCalls ==
  /\ \A a \in Addr : /\ <<"add_nbr", a>> \in Plain /\ <<"remove_nbr", a>> \in Plain
                      /\ <<"count_up", a>> \in Plain /\ <<"count_down", a>> \in Plain
  /\ \A l \in Link : <<"add_link", l>> \in Plain /\ <<"remove_link", l>> \in Plain
  /\ \A n \in SUBSET Addr : <<"free_unused", n>> \in Plain
  /\ \A a \in Addr \cup {None} : <<"set_source", a>> \in Plain
  /\ \A q \in Packet : <<"add_packet", q>> \in Plain
  /\ <<"rx_pending", None>> \in Plain /\ <<"tx_pending", None>> \in Plain
  /\ <<"dequeued_get", None>> \in Plain /\ <<"remove_all", None>> \in Plain
  /\ Release \in Plain
  BY DEF Plain, Calls, Release

LEMMA PushPlain ==
  ASSUME TodoInv, NetKeeps, phase' = phase, todo # <<>>,
         Head(todo)[1] \notin {"flush", "release"},
         NEW x \in Seq(Plain), ReturnTo(x)
  PROVE  TodoInv'
  <1>1. x \in Seq(Calls) BY DEF Plain
  <1>2. \A i \in 1..Len(x) : x[i][1] \notin
           {"associate_done", "reset_done", "queue_reset", "flush"}
    BY DEF Plain
  <1>3. ~ Leaving(x) BY <1>2 DEF Leaving
  <1> QED BY <1>1, <1>2, <1>3, Pushed

LEMMA StartPlain ==
  ASSUME TodoInv, NetKeeps, phase' = phase, todo = <<>>, todo' \in Seq(Plain)
  PROVE  TodoInv'
  <1>1. todo' \in Seq(Calls) BY DEF Plain
  <1>2. \A i \in 1..Len(todo') : todo'[i][1] \notin
           {"associate_done", "reset_done", "queue_reset", "flush"}
    BY DEF Plain
  <1>3. Shape(todo') /\ ~ Leaving(todo') /\ ~ Joining(todo')
    BY <1>1, <1>2 DEF Shape, Leaving, Joining
  <1>4. FlushesGone(todo)' BY <1>2 DEF FlushesGone
  <1> QED BY <1>3, <1>4, TodoStep

(* A step that leaves alone what the slot needs. *)
LEMMA Quiet ==
  ASSUME IInv, TodoInv',
         UNCHANGED <<tsch_locked, links, nbrs, queue, dequeued, phase,
                     current_packet, current_neighbor, current_link,
                     backup_link, fallback>>
  PROVE  IInv'
  BY DEF IInv, Types, SlotKept

(* While the lock is held no slot sends. *)
LEMMA LockedSafe ==
  ASSUME IInv, tsch_locked PROVE phase # "tx"
  BY DEF IInv, SlotKept

LEMMA HeadCall ==
  ASSUME IInv, todo # <<>>
  PROVE  Head(todo) \in Calls /\ Head(todo) = todo[1]
  BY DEF IInv, TodoInv, Shape

LEMMA LockStep == ASSUME IInv, Lock PROVE IInv'
  <1>1. CASE get_lock_request \/ get_lock_return
    <2>1. UNCHANGED <<tsch_locked, todo, scanning, tsch_is_associated, links,
             nbrs, queue, dequeued, phase, current_packet, current_neighbor,
             current_link, backup_link, fallback>>
      BY <1>1 DEF get_lock_request, get_lock_return, netVars, nbrVars,
                  packetVars, slotVars, linkVars
    <2>2. TodoInv' BY <2>1, TodoKept DEF IInv, NetKeeps
    <2> QED BY <2>1, <2>2, Quiet
  <1>2. CASE get_lock_take
    <2>1. UNCHANGED <<todo, scanning, tsch_is_associated, links,
             nbrs, queue, dequeued, phase, current_packet, current_neighbor,
             current_link, backup_link, fallback>>
          /\ phase = "idle"
      BY <1>2 DEF get_lock_take, tsch_in_slot_operation, netVars, nbrVars,
                  packetVars, slotVars, linkVars
    <2>2. TodoInv' BY <2>1, TodoKept DEF IInv, NetKeeps
    <2>3. Types' /\ SlotKept' BY <2>1 DEF IInv, Types, SlotKept
    <2> QED BY <2>2, <2>3 DEF IInv
  <1>3. CASE tsch_release_lock
    <2>1. /\ UNCHANGED <<scanning, tsch_is_associated, links, nbrs, queue,
                dequeued, phase, current_packet, current_neighbor,
                current_link, backup_link, fallback>>
          /\ todo # <<>> /\ Head(todo)[1] = "release" /\ todo' = Tail(todo)
          /\ tsch_locked' = FALSE
      BY <1>3 DEF tsch_release_lock, Doing, Return, netVars, nbrVars,
                  packetVars, slotVars, linkVars
    <2>2. todo[1][1] = "release" /\ Shape(todo)
      BY <2>1, HeadCall DEF IInv, TodoInv
    <2>3. /\ Shape(todo')
          /\ Leaving(todo') => Leaving(todo)
          /\ Joining(todo') => Joining(todo)
          /\ Leaving(todo) => Leaving(todo')
          /\ FlushesGone(todo) => FlushesGone(todo')
      BY <2>1, <2>2, TailShape
    <2>4. FlushesGone(todo') => FlushesGone(todo)' BY <2>1 DEF FlushesGone
    <2>5. Leaving(todo') \/ FlushesGone(todo)'
      BY <2>3, <2>4 DEF IInv, TodoInv
    <2>6. TodoInv' BY <2>1, <2>3, <2>5, TodoStep DEF IInv, NetKeeps
    <2>7. Types' /\ SlotKept' BY <2>1 DEF IInv, Types, SlotKept
    <2> QED BY <2>6, <2>7 DEF IInv
  <1> QED BY <1>1, <1>2, <1>3 DEF Lock

(* Neighbors come and go under the lock. *)
LEMMA NeighborStep ==
  ASSUME IInv, add_nbr_known \/ tsch_queue_add_nbr \/ tsch_queue_remove_nbr
               \/ tsch_queue_free_unused_neighbors
  PROVE  IInv'
  <1>1. CASE add_nbr_known
    <2>1. /\ UNCHANGED <<scanning, tsch_is_associated, links, nbrs, queue,
                dequeued, phase, current_packet, current_neighbor, tsch_locked,
                current_link, backup_link, fallback>>
          /\ todo # <<>> /\ Head(todo)[1] = "add_nbr" /\ Return
      BY <1>1 DEF add_nbr_known, Doing, lockVars, netVars, nbrVars,
                  packetVars, slotVars, linkVars
    <2>2. TodoInv' BY <2>1, Returned DEF IInv, NetKeeps
    <2> QED BY <2>1, <2>2, Quiet
  <1>2. CASE tsch_queue_add_nbr
    <2>1. /\ UNCHANGED <<scanning, tsch_is_associated, links, queue,
                dequeued, phase, current_packet, current_neighbor,
                current_link, backup_link, fallback>>
          /\ todo # <<>> /\ Head(todo)[1] = "add_nbr" /\ ReturnTo(<<Release>>)
          /\ tsch_locked /\ nbrs' \in {nbrs, nbrs \cup {Arg}}
      BY <1>2 DEF tsch_queue_add_nbr, Doing, Inside, lockVars, netVars,
                  nbrVars, packetVars, slotVars, linkVars
    <2>2. <<Release>> \in Seq(Plain) BY PlainCalls
    <2>3. TodoInv' BY <2>1, <2>2, PushPlain DEF IInv, NetKeeps
    <2>4. Arg \in Addr BY <2>1, HeadCall, CallArg DEF Arg
    <2>5. phase # "tx" BY <2>1, LockedSafe
    <2>6. Types' /\ SlotKept' BY <2>1, <2>4, <2>5 DEF IInv, Types, SlotKept
    <2> QED BY <2>3, <2>6 DEF IInv
  <1>3. CASE tsch_queue_remove_nbr
    <2> DEFINE x == <<Release, <<"flush", Arg>>>>
    <2>1. /\ UNCHANGED <<scanning, tsch_is_associated, links, queue,
                dequeued, phase, current_packet, current_neighbor,
                current_link, backup_link, fallback>>
          /\ todo # <<>> /\ Head(todo)[1] = "remove_nbr" /\ ReturnTo(x)
          /\ tsch_locked /\ nbrs' = nbrs \ {Arg}
      BY <1>3 DEF tsch_queue_remove_nbr, Doing, Inside, lockVars, netVars,
                  nbrVars, packetVars, slotVars, linkVars
    <2>2. Arg \in Addr BY <2>1, HeadCall, CallArg DEF Arg
    <2>3. <<"flush", Arg>> \in Calls /\ Release \in Calls
      BY <2>2 DEF Calls, Release
    <2>4. x \in Seq(Calls) /\ Len(x) = 2
          /\ x[1][1] = "release" /\ x[2] = <<"flush", Arg>>
      BY <2>3 DEF Release
    <2> HIDE DEF x
    <2>5. \A i \in 1..Len(x) : i = 1 \/ i = 2 BY <2>4
    <2>6. ~ Leaving(x) BY <2>4, <2>5 DEF Leaving
    <2>7. \A i \in 1..Len(x) :
            /\ x[i][1] \notin {"associate_done", "reset_done"}
            /\ x[i][1] = "flush" => i = 1 \/ (i = 2 /\ x[1][1] = "release")
            /\ x[i][1] = "flush" => x[i][2] \notin nbrs'
      BY <2>1, <2>4, <2>5
    <2>8. TodoInv' BY <2>1, <2>4, <2>6, <2>7, Pushed DEF IInv, NetKeeps
    <2>9. phase # "tx" BY <2>1, LockedSafe
    <2>10. Types' /\ SlotKept' BY <2>1, <2>9 DEF IInv, Types, SlotKept
    <2> QED BY <2>8, <2>10 DEF IInv
  <1>4. CASE tsch_queue_free_unused_neighbors
    <2>1. /\ UNCHANGED <<scanning, tsch_is_associated, links, nbrs, queue,
                dequeued, phase, current_packet, current_neighbor, tsch_locked,
                current_link, backup_link, fallback>>
          /\ todo # <<>> /\ Head(todo)[1] = "free_unused"
          /\ \/ \E a \in Arg :
                 ReturnTo(<<<<"remove_nbr", a>>, <<"free_unused", Arg \ {a}>>>>)
             \/ Return
      BY <1>4 DEF tsch_queue_free_unused_neighbors, Doing, lockVars, netVars,
                  nbrVars, packetVars, slotVars, linkVars
    <2>2. Arg \subseteq Addr BY <2>1, HeadCall, CallArg DEF Arg
    <2>3. NetKeeps BY <2>1 DEF NetKeeps
    <2>4. ASSUME NEW a \in Arg,
                 ReturnTo(<<<<"remove_nbr", a>>, <<"free_unused", Arg \ {a}>>>>)
          PROVE  TodoInv'
      <3>1. <<"remove_nbr", a>> \in Plain /\ <<"free_unused", Arg \ {a}>> \in Plain
        BY <2>2, PlainCalls
      <3>2. <<<<"remove_nbr", a>>, <<"free_unused", Arg \ {a}>>>> \in Seq(Plain)
        BY <3>1
      <3> QED BY <2>1, <2>3, <2>4, <3>2, PushPlain DEF IInv
    <2>5. ASSUME Return PROVE TodoInv' BY <2>1, <2>3, <2>5, Returned DEF IInv
    <2> QED BY <2>1, <2>4, <2>5, Quiet
  <1> QED BY <1>1, <1>2, <1>3, <1>4

(* Queues are flushed when no slot can be sending from them. *)
LEMMA FlushStep ==
  ASSUME IInv, tsch_queue_flush_nbr_queue PROVE IInv'
  <1>1. /\ UNCHANGED <<scanning, tsch_is_associated, links, nbrs, phase,
              current_packet, current_neighbor, tsch_locked,
              current_link, backup_link, fallback, dequeued>>
        /\ todo # <<>> /\ Head(todo)[1] = "flush"
        /\ \/ Return /\ queue' = queue
           \/ /\ queue[Arg] # <<>> /\ todo' = todo
              /\ queue' = [queue EXCEPT ![Arg] = Tail(@)]
    BY DEF tsch_queue_flush_nbr_queue, Doing, lockVars, netVars, nbrVars,
           packetVars, slotVars, linkVars
  <1>2. NetKeeps BY <1>1 DEF NetKeeps
  <1>3. CASE Return /\ queue' = queue
    <2>1. TodoInv' BY <1>1, <1>2, <1>3, Returned DEF IInv
    <2> QED BY <1>1, <1>3, <2>1, Quiet
  <1>4. CASE /\ queue[Arg] # <<>> /\ todo' = todo
             /\ queue' = [queue EXCEPT ![Arg] = Tail(@)]
    <2>1. TodoInv' BY <1>1, <1>2, <1>4, TodoKept DEF IInv
    <2>2. Arg \in Addr /\ todo[1] = Head(todo) /\ 1 \in 1..Len(todo)
      BY <1>1, HeadCall, CallArg DEF Arg, IInv, TodoInv, Shape
    <2>3. Tail(queue[Arg]) \in Seq(Packet) BY <1>4, <2>2, CurrentLink
    <2>4. queue' \in [Addr -> Seq(Packet)] BY <1>4, <2>2, <2>3, CurrentLink
    <2>5. Types' BY <1>1, <2>4 DEF IInv, Types
    <2>6. phase = "tx" => Arg \notin nbrs
      BY <1>1, <2>2 DEF IInv, TodoInv, FlushesGone, Arg
    <2>7. phase = "tx" => queue'[current_neighbor] = queue[current_neighbor]
      BY <1>4, <2>6, CurrentLink DEF IInv, SlotKept, Types
    <2>8. SlotKept' BY <1>1, <2>7 DEF IInv, SlotKept
    <2> QED BY <2>1, <2>5, <2>8 DEF IInv
  <1> QED BY <1>1, <1>3, <1>4

LEMMA ResetStep == ASSUME IInv, tsch_queue_reset PROVE IInv'
  <1>1. /\ UNCHANGED <<scanning, tsch_is_associated, links, nbrs, queue,
              dequeued, phase, current_packet, current_neighbor, tsch_locked,
              current_link, backup_link, fallback>>
        /\ todo # <<>> /\ Head(todo)[1] = "queue_reset"
        /\ \/ \E a \in Arg :
               ReturnTo(<<<<"flush", a>>, <<"queue_reset", Arg \ {a}>>>>)
           \/ Return
    BY DEF tsch_queue_reset, Doing, lockVars, netVars, nbrVars, packetVars,
           slotVars, linkVars
  <1>2. Arg \subseteq Addr BY <1>1, HeadCall, CallArg DEF Arg
  <1>3. NetKeeps BY <1>1 DEF NetKeeps
  <1>4. Leaving(todo)
    <2>1. 1 \in 1..Len(todo) /\ todo[1] = Head(todo)
      BY <1>1, HeadCall DEF IInv, TodoInv, Shape
    <2> QED BY <1>1, <2>1 DEF Leaving
  <1>5. ASSUME NEW a \in Arg,
               ReturnTo(<<<<"flush", a>>, <<"queue_reset", Arg \ {a}>>>>)
        PROVE  TodoInv'
    <2> DEFINE x == <<<<"flush", a>>, <<"queue_reset", Arg \ {a}>>>>
    <2>1. <<"flush", a>> \in Calls /\ <<"queue_reset", Arg \ {a}>> \in Calls
      BY <1>2 DEF Calls
    <2>2. x \in Seq(Calls) /\ Len(x) = 2
          /\ x[1][1] = "flush" /\ x[2][1] = "queue_reset"
      BY <2>1
    <2>3. ReturnTo(x) BY <1>5
    <2> HIDE DEF x
    <2>4. \A i \in 1..Len(x) : i = 1 \/ i = 2 BY <2>2
    <2>5. Leaving(x) BY <2>2 DEF Leaving
    <2>6. \A i \in 1..Len(x) :
            /\ x[i][1] \notin {"associate_done", "reset_done"}
            /\ x[i][1] = "flush" => i = 1 \/ (i = 2 /\ x[1][1] = "release")
      BY <2>2, <2>4
    <2> QED BY <1>1, <1>3, <1>4, <2>2, <2>3, <2>5, <2>6, Pushed DEF IInv
  <1>6. ASSUME Return PROVE TodoInv' BY <1>1, <1>3, <1>6, Returned DEF IInv
  <1> QED BY <1>1, <1>5, <1>6, Quiet

(* A packet that is added does not come first. *)
LEMMA AddPacketStep == ASSUME IInv, tsch_queue_add_packet PROVE IInv'
  <1>1. /\ UNCHANGED <<scanning, tsch_is_associated, links, nbrs, phase,
              current_packet, current_neighbor, tsch_locked,
              current_link, backup_link, fallback, dequeued>>
        /\ todo # <<>> /\ Head(todo)[1] = "add_packet" /\ Return
        /\ \/ queue' = [queue EXCEPT ![Dest[Arg]] = Append(@, Arg)]
           \/ queue' = queue
    BY DEF tsch_queue_add_packet, Doing, lockVars, netVars, nbrVars,
           packetVars, slotVars, linkVars
  <1>2. TodoInv' BY <1>1, Returned DEF IInv, NetKeeps
  <1>3. CASE queue' = queue BY <1>1, <1>2, <1>3, Quiet
  <1>4. CASE queue' = [queue EXCEPT ![Dest[Arg]] = Append(@, Arg)]
    <2>1. Arg \in Packet BY <1>1, HeadCall, CallArg DEF Arg
    <2>2. Dest[Arg] \in Addr BY <2>1, TschAssumption
    <2>3. queue' \in [Addr -> Seq(Packet)] BY <1>4, <2>1, <2>2, CurrentLink
    <2>4. Types' BY <1>1, <2>3 DEF IInv, Types
    <2>5. ASSUME phase = "tx"
          PROVE  /\ queue'[current_neighbor] # <<>>
                 /\ Head(queue'[current_neighbor]) = current_packet
      <3>1. /\ current_neighbor \in Addr /\ queue[current_neighbor] # <<>>
            /\ Head(queue[current_neighbor]) = current_packet
            /\ queue[current_neighbor] \in Seq(Packet)
        BY <2>5, CurrentLink DEF IInv, SlotKept, Types
      <3>2. CASE current_neighbor = Dest[Arg]
        <4>1. queue'[current_neighbor] = Append(queue[current_neighbor], Arg)
          BY <1>4, <2>2, <3>2, CurrentLink
        <4> QED BY <2>1, <3>1, <4>1
      <3>3. CASE current_neighbor # Dest[Arg]
        BY <1>4, <3>1, <3>3, CurrentLink
      <3> QED BY <3>2, <3>3
    <2>6. SlotKept' BY <1>1, <2>5 DEF IInv, SlotKept
    <2> QED BY <1>2, <2>4, <2>6 DEF IInv
  <1> QED BY <1>1, <1>3, <1>4

(* The schedule changes under the lock. *)
LEMMA ScheduleStep ==
  ASSUME IInv, tsch_schedule_add_link \/ tsch_schedule_remove_link
               \/ tsch_schedule_remove_all
  PROVE  IInv'
  <1>1. \A l \in Link, op \in {"count_up", "count_down"} :
           <<Release>> \o Counted(l, op) \in Seq(Plain)
    <2> SUFFICES ASSUME NEW l \in Link, NEW op \in {"count_up", "count_down"}
                 PROVE  <<Release>> \o Counted(l, op) \in Seq(Plain)
      OBVIOUS
    <2>1. LinkAddr[l] \in Addr BY TschAssumption
    <2>2. <<"add_nbr", LinkAddr[l]>> \in Plain /\ <<op, LinkAddr[l]>> \in Plain
      BY <2>1, PlainCalls
    <2>3. Counted(l, op) \in Seq(Plain) BY <2>2 DEF Counted
    <2>4. <<Release>> \in Seq(Plain) BY PlainCalls
    <2> QED BY <2>3, <2>4
  <1>2. CASE tsch_schedule_add_link
    <2>1. /\ UNCHANGED <<scanning, tsch_is_associated, nbrs, queue,
                dequeued, phase, current_packet, current_neighbor, tsch_locked,
                current_link, backup_link, fallback>>
          /\ todo # <<>> /\ Head(todo)[1] = "add_link"
          /\ links' \in {links, links \cup {Arg}}
          /\ \/ ReturnTo(<<Release>>)
             \/ ReturnTo(<<Release>> \o Counted(Arg, "count_up"))
      BY <1>2 DEF tsch_schedule_add_link, Doing, lockVars, netVars, nbrVars,
                  packetVars, slotVars, linkVars
    <2>2. Arg \in Link BY <2>1, HeadCall, CallArg DEF Arg
    <2>3. PICK x \in Seq(Plain) : ReturnTo(x)
      <3>1. <<Release>> \in Seq(Plain) BY PlainCalls
      <3> QED BY <1>1, <2>1, <2>2, <3>1
    <2>4. TodoInv' BY <2>1, <2>3, PushPlain DEF IInv, NetKeeps
    <2>5. Types' /\ SlotKept' BY <2>1, <2>2 DEF IInv, Types, SlotKept
    <2> QED BY <2>4, <2>5 DEF IInv
  <1>3. CASE tsch_schedule_remove_link
    <2>1. /\ UNCHANGED <<scanning, tsch_is_associated, nbrs, queue,
                dequeued, phase, current_packet, current_neighbor, tsch_locked,
                backup_link, fallback>>
          /\ todo # <<>> /\ Head(todo)[1] = "remove_link" /\ tsch_locked
          /\ links' = links \ {Arg}
          /\ current_link' = IF current_link = Arg THEN None ELSE current_link
          /\ ReturnTo(<<Release>> \o Counted(Arg, "count_down"))
      BY <1>3 DEF tsch_schedule_remove_link, Doing, Inside, lockVars, netVars,
                  nbrVars, packetVars, slotVars
    <2>2. Arg \in Link BY <2>1, HeadCall, CallArg DEF Arg
    <2>3. <<Release>> \o Counted(Arg, "count_down") \in Seq(Plain)
      BY <1>1, <2>2
    <2>4. TodoInv' BY <2>1, <2>3, PushPlain DEF IInv, NetKeeps
    <2>5. phase # "tx" BY <2>1, LockedSafe
    <2>6. Types' /\ SlotKept' BY <2>1, <2>5 DEF IInv, Types, SlotKept
    <2> QED BY <2>4, <2>6 DEF IInv
  <1>4. CASE tsch_schedule_remove_all
    <2>1. /\ UNCHANGED <<scanning, tsch_is_associated, links, nbrs, queue,
                dequeued, phase, current_packet, current_neighbor, tsch_locked,
                current_link, backup_link, fallback>>
          /\ todo # <<>> /\ Head(todo)[1] = "remove_all"
          /\ \/ \E l \in links : ReturnTo(<<<<"remove_link", l>>, Head(todo)>>)
             \/ Return
      BY <1>4 DEF tsch_schedule_remove_all, Doing, lockVars, netVars, nbrVars,
                  packetVars, slotVars, linkVars
    <2>2. NetKeeps BY <2>1 DEF NetKeeps
    <2>3. ASSUME NEW l \in links, ReturnTo(<<<<"remove_link", l>>, Head(todo)>>)
          PROVE  TodoInv'
      <3>1. <<"remove_link", l>> \in Plain BY PlainCalls DEF IInv, Types
      <3>2. Head(todo) \in Plain BY <2>1, HeadCall DEF Plain
      <3>3. <<<<"remove_link", l>>, Head(todo)>> \in Seq(Plain) BY <3>1, <3>2
      <3> QED BY <2>1, <2>2, <2>3, <3>3, PushPlain DEF IInv
    <2>4. ASSUME Return PROVE TodoInv' BY <2>1, <2>2, <2>4, Returned DEF IInv
    <2> QED BY <2>1, <2>3, <2>4, Quiet
  <1> QED BY <1>2, <1>3, <1>4

(* The calls that give packets back, and the counters. *)
LEMMA PendingStep ==
  ASSUME IInv, count_links \/ tsch_queue_update_time_source
               \/ tsch_rx_process_pending \/ tsch_tx_process_pending
               \/ dequeued_get
  PROVE  IInv'
  <1>1. CASE count_links \/ tsch_queue_update_time_source
    <2>1. /\ UNCHANGED <<scanning, tsch_is_associated, links, nbrs, queue,
                dequeued, phase, current_packet, current_neighbor, tsch_locked,
                current_link, backup_link, fallback>>
          /\ todo # <<>> /\ Head(todo)[1] # "release" /\ Return
      BY <1>1 DEF count_links, tsch_queue_update_time_source, Doing, lockVars,
                  netVars, nbrVars, packetVars, slotVars, linkVars
    <2>2. TodoInv' BY <2>1, Returned DEF IInv, NetKeeps
    <2> QED BY <2>1, <2>2, Quiet
  <1>2. CASE tsch_rx_process_pending
    <2>1. /\ UNCHANGED <<links, nbrs, queue,
                dequeued, phase, current_packet, current_neighbor, tsch_locked,
                current_link, backup_link, fallback>>
          /\ todo # <<>> /\ Head(todo)[1] = "rx_pending"
          /\ Return \/ todo' = todo
          /\ tsch_disassociate \/ UNCHANGED netVars
      BY <1>2 DEF tsch_rx_process_pending, Doing, lockVars,
                  nbrVars, packetVars, slotVars, linkVars
    <2>2. NetKeeps BY <2>1 DEF NetKeeps, tsch_disassociate, netVars
    <2>3. CASE Return
      <3>1. TodoInv' BY <2>1, <2>2, <2>3, Returned DEF IInv
      <3> QED BY <2>1, <3>1, Quiet
    <2>4. CASE todo' = todo
      <3>1. TodoInv' BY <2>1, <2>2, <2>4, TodoKept DEF IInv
      <3> QED BY <2>1, <3>1, Quiet
    <2> QED BY <2>1, <2>3, <2>4
  <1>3. CASE tsch_tx_process_pending
    <2> DEFINE x == <<<<"free_unused", nbrs \cap Unicast>>,
                      <<"dequeued_get", None>>, Head(todo)>>
    <2>1. /\ UNCHANGED <<links, nbrs, queue,
                dequeued, phase, current_packet, current_neighbor, tsch_locked,
                current_link, backup_link, fallback>>
          /\ todo # <<>> /\ Head(todo)[1] = "tx_pending"
          /\ Return \/ ReturnTo(x)
          /\ tsch_disassociate \/ UNCHANGED netVars
      BY <1>3 DEF tsch_tx_process_pending, Doing, lockVars,
                  nbrVars, packetVars, slotVars, linkVars
    <2>2. NetKeeps BY <2>1 DEF NetKeeps, tsch_disassociate, netVars
    <2>3. CASE Return
      <3>1. TodoInv' BY <2>1, <2>2, <2>3, Returned DEF IInv
      <3> QED BY <2>1, <3>1, Quiet
    <2>4. CASE ReturnTo(x)
      <3>1. <<"free_unused", nbrs \cap Unicast>> \in Plain
            /\ <<"dequeued_get", None>> \in Plain
        BY PlainCalls DEF IInv, Types
      <3>2. Head(todo) \in Plain BY <2>1, HeadCall DEF Plain
      <3>3. x \in Seq(Plain) BY <3>1, <3>2
      <3>4. TodoInv' BY <2>1, <2>2, <2>4, <3>3, PushPlain DEF IInv
      <3> QED BY <2>1, <3>4, Quiet
    <2> QED BY <2>1, <2>3, <2>4
  <1>4. CASE dequeued_get
    <2>1. /\ UNCHANGED <<scanning, tsch_is_associated, links, nbrs, queue,
                phase, current_packet, current_neighbor, tsch_locked,
                current_link, backup_link, fallback>>
          /\ todo # <<>> /\ Head(todo)[1] # "release" /\ Return
          /\ dequeued' = IF dequeued = <<>> THEN dequeued ELSE Tail(dequeued)
      BY <1>4 DEF dequeued_get, Doing, lockVars,
                  netVars, nbrVars, slotVars, linkVars
    <2>2. TodoInv' BY <2>1, Returned DEF IInv, NetKeeps
    <2>3. dequeued' \in Seq(Packet) /\ Len(dequeued') <= Len(dequeued)
          /\ Len(dequeued) \in Nat /\ Len(dequeued') \in Nat
      BY <2>1, CurrentLink
    <2>4. DequeuedSize \in Nat BY TschAssumption
    <2>5. Types' /\ SlotKept' BY <2>1, <2>3, <2>4 DEF IInv, Types, SlotKept
    <2> QED BY <2>2, <2>5 DEF IInv
  <1> QED BY <1>1, <1>2, <1>3, <1>4
(* The last call of tsch_reset() and of tsch_associate(). *)
LEMMA LastStep == ASSUME IInv, reset_done \/ associate_done PROVE IInv'
  <1>1. /\ todo # <<>> /\ Head(todo)[1] \in {"reset_done", "associate_done"}
        /\ todo' = Tail(todo)
        /\ UNCHANGED <<tsch_locked, links, nbrs, queue, dequeued, phase,
                       current_packet, current_neighbor>>
    BY DEF reset_done, associate_done, Doing, Return, lockVars, nbrVars,
           packetVars, slotVars
  <1>2. todo \in Seq(Calls) /\ Len(todo) = 1 /\ Head(todo) = todo[1]
    <2>1. todo \in Seq(Calls) BY DEF IInv, TodoInv, Shape
    <2>2. 1 \in 1..Len(todo) /\ Head(todo) = todo[1] BY <1>1, <2>1
    <2>3. 1 = Len(todo) BY <1>1, <2>2 DEF IInv, TodoInv, Shape
    <2> QED BY <2>1, <2>2, <2>3
  <1>3. todo' = <<>> /\ Len(todo') = 0 BY <1>1, <1>2
  <1>4. Shape(todo)' /\ ~ Leaving(todo)' /\ ~ Joining(todo)' /\ FlushesGone(todo)'
    BY <1>3 DEF Shape, Leaving, Joining, FlushesGone
  <1>5. CASE reset_done
    <2>1. /\ scanning' = TRUE /\ tsch_is_associated' = tsch_is_associated
          /\ current_link' = None /\ backup_link' = backup_link
          /\ Head(todo)[1] = "reset_done"
      BY <1>5 DEF reset_done, Doing
    <2>2. Leaving(todo) BY <1>2, <2>1 DEF Leaving
    <2>3. ~ tsch_is_associated /\ phase # "tx" BY <2>2 DEF IInv, TodoInv
    <2>4. TodoInv' BY <1>1, <1>4, <2>1, <2>3 DEF TodoInv
    <2>5. Types' /\ SlotKept' BY <1>1, <2>1, <2>3 DEF IInv, Types, SlotKept
    <2> QED BY <2>4, <2>5 DEF IInv
  <1>6. CASE associate_done
    <2>1. Head(todo)[1] = "associate_done" BY <1>6 DEF associate_done, Doing
    <2>2. Joining(todo) BY <1>2, <2>1 DEF Joining
    <2>3. scanning /\ phase # "tx" BY <2>2 DEF IInv, TodoInv
    <2>4. CASE Arg \in nbrs
      <3>1. /\ tsch_is_associated' = TRUE /\ scanning' = FALSE
            /\ \E n \in NextActive :
                 current_link' = n[1] /\ backup_link' = n[2]
        BY <1>6, <2>4 DEF associate_done
      <3>2. {current_link', backup_link'} \subseteq links \cup {None}
        BY <3>1, NextActiveIn
      <3>3. TodoInv' BY <1>4, <3>1 DEF TodoInv
      <3>4. Types' /\ SlotKept' BY <1>1, <2>3, <3>2 DEF IInv, Types, SlotKept
      <3> QED BY <3>3, <3>4 DEF IInv
    <2>5. CASE Arg \notin nbrs
      <3>1. UNCHANGED <<tsch_is_associated, scanning, current_link,
                        backup_link, fallback>>
        BY <1>6, <2>5 DEF associate_done
      <3>2. TodoInv' BY <1>1, <1>4, <3>1 DEF IInv, TodoInv
      <3> QED BY <1>1, <3>1, <3>2, Quiet
    <2> QED BY <2>4, <2>5
  <1> QED BY <1>5, <1>6

LEMMA CallStep == ASSUME IInv, Call PROVE IInv'
  <1>1. CASE Lock BY <1>1, LockStep
  <1>2. CASE add_nbr_known \/ tsch_queue_add_nbr \/ tsch_queue_remove_nbr
             \/ tsch_queue_free_unused_neighbors
    BY <1>2, NeighborStep
  <1>3. CASE tsch_queue_flush_nbr_queue BY <1>3, FlushStep
  <1>4. CASE tsch_queue_reset BY <1>4, ResetStep
  <1>5. CASE tsch_queue_add_packet BY <1>5, AddPacketStep
  <1>6. CASE tsch_schedule_add_link \/ tsch_schedule_remove_link
             \/ tsch_schedule_remove_all
    BY <1>6, ScheduleStep
  <1>7. CASE count_links \/ tsch_queue_update_time_source
             \/ tsch_rx_process_pending \/ tsch_tx_process_pending
             \/ dequeued_get
    BY <1>7, PendingStep
  <1>8. CASE reset_done \/ associate_done BY <1>8, LastStep
  <1> QED BY <1>1, <1>2, <1>3, <1>4, <1>5, <1>6, <1>7, <1>8 DEF Call

------------------------------------------------------------------------------
(* A new call leaves alone what the slot needs. *)
LEMMA Started ==
  ASSUME IInv, NEW s, Start(s), queue' = queue, dequeued' = dequeued
  PROVE  /\ todo = <<>> /\ todo' = s /\ phase' = phase
         /\ TodoInv' => IInv'
  <1>1. /\ todo = <<>> /\ todo' = s
        /\ UNCHANGED <<tsch_locked, links, nbrs, phase, current_packet,
                       current_neighbor, current_link, backup_link, fallback>>
    BY DEF Start, Idle, lockVars, nbrVars, slotVars, linkVars
  <1> QED BY <1>1, Quiet

LEMMA StartedPlain ==
  ASSUME IInv, NEW s \in Seq(Plain), Start(s), queue' = queue,
         dequeued' = dequeued, UNCHANGED netVars
  PROVE  IInv'
  <1>1. NetKeeps BY DEF NetKeeps, netVars
  <1>2. /\ todo = <<>> /\ todo' = s /\ phase' = phase
        /\ TodoInv' => IInv'
    BY Started
  <1>3. TodoInv' BY <1>1, <1>2, StartPlain DEF IInv
  <1> QED BY <1>2, <1>3

LEMMA CallsStart ==
  ASSUME IInv,
         \/ tsch_pending_events
         \/ \E p \in Packet : send_packet(p)
         \/ \E l \in Dynamic : add_link(l) \/ remove_link(l)
         \/ \E a \in Sources : update_time_source(a)
  PROVE  IInv'
  <1> USE DEF packetVars
  <1>1. CASE tsch_pending_events
    <2>1. <<<<"rx_pending", None>>, <<"tx_pending", None>>>> \in Seq(Plain)
      BY PlainCalls
    <2> QED BY <1>1, <2>1, StartedPlain DEF tsch_pending_events
  <1>2. ASSUME NEW p \in Packet, send_packet(p) PROVE IInv'
    <2>1. Dest[p] \in Addr BY TschAssumption
    <2>2. <<<<"add_nbr", Dest[p]>>, <<"add_packet", p>>>> \in Seq(Plain)
          /\ <<>> \in Seq(Plain)
      <3>1. <<"add_nbr", Dest[p]>> \in Plain /\ <<"add_packet", p>> \in Plain
        BY <2>1, PlainCalls
      <3> QED BY <3>1
    <2>3. UNCHANGED netVars /\ queue' = queue /\ dequeued' = dequeued
      BY <1>2 DEF send_packet
    <2>4. \/ Start(<<<<"add_nbr", Dest[p]>>, <<"add_packet", p>>>>)
          \/ Start(<<>>)
      BY <1>2 DEF send_packet
    <2> QED BY <2>2, <2>3, <2>4, StartedPlain
  <1>3. ASSUME NEW l \in Dynamic, add_link(l) PROVE IInv'
    <2>1. l \in Link BY TschAssumption
    <2>2. UNCHANGED netVars /\ queue' = queue /\ dequeued' = dequeued
      BY <1>3 DEF add_link
    <2>3. \/ Start(<<<<"add_link", l>>>>)
          \/ \E m \in links : Start(<<<<"remove_link", m>>, <<"add_link", l>>>>)
      BY <1>3 DEF add_link
    <2>4. CASE Start(<<<<"add_link", l>>>>)
      <3>1. <<<<"add_link", l>>>> \in Seq(Plain)
        <4>1. <<"add_link", l>> \in Plain BY <2>1, PlainCalls
        <4> QED BY <4>1
      <3> QED BY <2>2, <2>4, <3>1, StartedPlain
    <2>5. ASSUME NEW m \in links,
                 Start(<<<<"remove_link", m>>, <<"add_link", l>>>>)
          PROVE  IInv'
      <3>1. m \in Link BY DEF IInv, Types
      <3>2. <<<<"remove_link", m>>, <<"add_link", l>>>> \in Seq(Plain)
        <4>1. <<"remove_link", m>> \in Plain /\ <<"add_link", l>> \in Plain
          BY <2>1, <3>1, PlainCalls
        <4> QED BY <4>1
      <3> QED BY <2>2, <2>5, <3>2, StartedPlain
    <2> QED BY <2>3, <2>4, <2>5
  <1>4. ASSUME NEW l \in Dynamic, remove_link(l) PROVE IInv'
    <2>1. l \in Link BY TschAssumption
    <2>2. <<<<"remove_link", l>>>> \in Seq(Plain)
      <3>1. <<"remove_link", l>> \in Plain BY <2>1, PlainCalls
      <3> QED BY <3>1
    <2> QED BY <1>4, <2>2, StartedPlain DEF remove_link
  <1>5. ASSUME NEW a \in Sources, update_time_source(a) PROVE IInv'
    <2>1. a \in Addr BY TschAssumption
    <2>2. <<<<"add_nbr", a>>, <<"set_source", a>>>> \in Seq(Plain)
      <3>1. <<"add_nbr", a>> \in Plain /\ <<"set_source", a>> \in Plain
        BY <2>1, PlainCalls
      <3> QED BY <3>1
    <2> QED BY <1>5, <2>2, StartedPlain DEF update_time_source
  <1> QED BY <1>1, <1>2, <1>3, <1>4, <1>5

(* tsch_reset() begins, in no slot that sends. *)
LEMMA ResetStart ==
  ASSUME IInv, tsch_reset, ~ cut' PROVE IInv'
  <1> DEFINE s == <<<<"rx_pending", None>>, <<"tx_pending", None>>,
                    <<"queue_reset", nbrs>>, <<"free_unused", nbrs \cap Unicast>>,
                    <<"set_source", None>>, <<"reset_done", None>>>>
  <1>1. /\ ~ tsch_is_associated /\ ~ scanning /\ phase # "tx"
        /\ UNCHANGED <<scanning, tsch_is_associated, queue, dequeued>>
        /\ Start(s)
    BY DEF tsch_reset, packetVars, netVars
  <1>2. /\ todo = <<>> /\ todo' = s /\ phase' = phase
        /\ TodoInv' => IInv'
    BY <1>1, Started
  <1>3. nbrs \subseteq Addr BY DEF IInv, Types
  <1>4. /\ <<"rx_pending", None>> \in Calls /\ <<"tx_pending", None>> \in Calls
        /\ <<"queue_reset", nbrs>> \in Calls
        /\ <<"free_unused", nbrs \cap Unicast>> \in Calls
        /\ <<"set_source", None>> \in Calls /\ <<"reset_done", None>> \in Calls
    BY <1>3 DEF Calls
  <1>5. s \in Seq(Calls) /\ Len(s) = 6 BY <1>4
  <1>6. /\ s[1][1] = "rx_pending" /\ s[2][1] = "tx_pending"
        /\ s[3][1] = "queue_reset" /\ s[4][1] = "free_unused"
        /\ s[5][1] = "set_source" /\ s[6][1] = "reset_done"
    OBVIOUS
  <1> HIDE DEF s
  <1>7. \A i \in 1..Len(s) : i = 1 \/ i = 2 \/ i = 3 \/ i = 4 \/ i = 5 \/ i = 6
    BY <1>5
  <1>8. \A i \in 1..Len(s) :
           /\ s[i][1] # "flush" /\ s[i][1] # "associate_done"
           /\ s[i][1] = "reset_done" => i = Len(s)
    BY <1>5, <1>6, <1>7
  <1>9. Shape(s) /\ ~ Joining(s) BY <1>5, <1>8 DEF Shape, Joining
  <1>10. Shape(todo)' /\ ~ Joining(todo)' /\ FlushesGone(todo)'
    BY <1>2, <1>8, <1>9 DEF Shape, Joining, FlushesGone
  <1>11. TodoInv' BY <1>1, <1>2, <1>10 DEF TodoInv
  <1> QED BY <1>2, <1>11

LEMMA Joined ==
  ASSUME NEW S, NEW x \in Seq(S), NEW y \in Seq(S)
  PROVE  /\ x \o y \in Seq(S) /\ Len(x \o y) = Len(x) + Len(y)
         /\ \A i \in 1..Len(x) : (x \o y)[i] = x[i]
         /\ \A i \in 1..Len(x \o y) : i > Len(x) =>
              i - Len(x) \in 1..Len(y) /\ (x \o y)[i] = y[i - Len(x)]
  OBVIOUS

(* tsch_associate() begins while the node scans. *)
LEMMA AssociateStart ==
  ASSUME IInv, NEW a \in Sources, tsch_associate(a) PROVE IInv'
  <1> DEFINE A == <<<<"remove_all", None>>>>
             B == [i \in DOMAIN FromBeacon |-> <<"add_link", FromBeacon[i]>>]
             C == <<<<"add_nbr", a>>, <<"set_source", a>>, <<"associate_done", a>>>>
             D == A \o B
             s == D \o C
  <1>1. /\ scanning /\ UNCHANGED <<scanning, tsch_is_associated, queue, dequeued>>
        /\ Start(s)
    BY DEF tsch_associate, packetVars, netVars
  <1>2. /\ todo = <<>> /\ todo' = s /\ phase' = phase
        /\ TodoInv' => IInv'
    BY <1>1, Started
  <1>3. a \in Addr BY TschAssumption
  <1>4. A \in Seq(Plain) BY PlainCalls
  <1>5. B \in Seq(Plain)
    <2>1. FromBeacon \in Seq(Link) BY TschAssumption
    <2>2. DOMAIN FromBeacon = 1..Len(FromBeacon) /\ Len(FromBeacon) \in Nat
      BY <2>1
    <2>3. \A i \in DOMAIN FromBeacon : <<"add_link", FromBeacon[i]>> \in Plain
      <3>1. \A i \in DOMAIN FromBeacon : FromBeacon[i] \in Link BY <2>1
      <3> QED BY <3>1, PlainCalls
    <2> QED BY <2>2, <2>3
  <1> HIDE DEF A, B
  <1>6. D \in Seq(Plain) BY <1>4, <1>5
  <1> HIDE DEF D
  <1>7. /\ C \in Seq(Calls) /\ Len(C) = 3
        /\ C[1][1] = "add_nbr" /\ C[2][1] = "set_source"
        /\ C[3][1] = "associate_done"
    <2>1. /\ <<"add_nbr", a>> \in Calls /\ <<"set_source", a>> \in Calls
          /\ <<"associate_done", a>> \in Calls
      BY <1>3 DEF Calls
    <2> QED BY <2>1
  <1> HIDE DEF C
  <1>8. D \in Seq(Calls) /\ Len(D) \in Nat BY <1>6 DEF Plain
  <1>9. /\ s \in Seq(Calls) /\ Len(s) = Len(D) + 3
        /\ \A i \in 1..Len(D) : s[i] = D[i]
        /\ \A i \in 1..Len(s) : i > Len(D) =>
              i - Len(D) \in 1..3 /\ s[i] = C[i - Len(D)]
    <2>1. C \in Seq(Calls) /\ Len(C) = 3 BY <1>7
    <2>2. D \in Seq(Calls) BY <1>8
    <2>3. /\ D \o C \in Seq(Calls) /\ Len(D \o C) = Len(D) + Len(C)
          /\ \A i \in 1..Len(D) : (D \o C)[i] = D[i]
          /\ \A i \in 1..Len(D \o C) : i > Len(D) =>
                i - Len(D) \in 1..Len(C) /\ (D \o C)[i] = C[i - Len(D)]
      BY <2>1, <2>2, Joined
    <2> QED BY <2>1, <2>3
  <1> HIDE DEF s
  <1>10. \A i \in 1..Len(D) : D[i][1] \notin
            {"associate_done", "reset_done", "queue_reset", "flush"}
    BY <1>6 DEF Plain
  <1>11. ASSUME NEW i \in 1..Len(s)
         PROVE  /\ s[i][1] \notin {"flush", "reset_done", "queue_reset"}
                /\ s[i][1] = "associate_done" => i = Len(s)
    <2>1. CASE i \in 1..Len(D) BY <2>1, <1>9, <1>10
    <2>2. CASE i > Len(D)
      <3>1. i - Len(D) \in 1..3 /\ s[i] = C[i - Len(D)] BY <1>9, <2>2
      <3>2. i - Len(D) = 1 \/ i - Len(D) = 2 \/ i - Len(D) = 3 BY <3>1
      <3>3. i - Len(D) = 3 => i = Len(s) BY <1>8, <1>9
      <3> QED BY <3>1, <3>2, <3>3, <1>7
    <2> QED BY <2>1, <2>2, <1>8, <1>9
  <1>12. Shape(todo)' /\ ~ Leaving(todo)' /\ FlushesGone(todo)'
    BY <1>2, <1>9, <1>11 DEF Shape, Leaving, FlushesGone
  <1>13. TodoInv' BY <1>1, <1>2, <1>12 DEF IInv, TodoInv
  <1> QED BY <1>2, <1>13

(* The initial state: a node that scans. *)
LEMMA InitInv == Init => IInv
  <1> SUFFICES ASSUME Init PROVE IInv OBVIOUS
  <1>1. Types BY TschAssumption DEF Init, Types
  <1>2. todo = <<>> /\ Len(todo) = 0 BY DEF Init
  <1>3. Shape(todo) /\ ~ Leaving(todo) /\ ~ Joining(todo) /\ FlushesGone(todo)
    BY <1>2 DEF Shape, Leaving, Joining, FlushesGone
  <1>4. TodoInv BY <1>3 DEF Init, TodoInv
  <1>5. SlotKept BY DEF Init, SlotKept
  <1> QED BY <1>1, <1>4, <1>5 DEF IInv

(* What is lost when tsch_reset() begins in a slot stays lost. *)
LEMMA CutStays == ASSUME [Next]_vars PROVE cut' = cut \/ tsch_reset
  <1>1. CASE Slot
    BY <1>1 DEF Slot, slot_stop, slot_skip, slot_missed, slot_begin,
                tx_slot_end, rx_slot_end
  <1>2. CASE Lock
    BY <1>2 DEF Lock, get_lock_request, get_lock_take, get_lock_return,
                tsch_release_lock
  <1>3. CASE \/ add_nbr_known \/ tsch_queue_add_nbr
             \/ tsch_queue_remove_nbr \/ tsch_queue_flush_nbr_queue
             \/ tsch_queue_reset \/ tsch_queue_free_unused_neighbors
             \/ tsch_queue_add_packet
    BY <1>3 DEF add_nbr_known, tsch_queue_add_nbr, tsch_queue_remove_nbr,
                tsch_queue_flush_nbr_queue, tsch_queue_reset,
                tsch_queue_free_unused_neighbors, tsch_queue_add_packet
  <1>4. CASE \/ count_links \/ tsch_schedule_add_link
             \/ tsch_schedule_remove_link \/ tsch_schedule_remove_all
             \/ tsch_queue_update_time_source
    BY <1>4 DEF count_links, tsch_schedule_add_link, tsch_schedule_remove_link,
                tsch_schedule_remove_all, tsch_queue_update_time_source
  <1>5. CASE \/ tsch_rx_process_pending \/ tsch_tx_process_pending
             \/ dequeued_get \/ reset_done \/ associate_done
    BY <1>5 DEF tsch_rx_process_pending, tsch_tx_process_pending, dequeued_get,
                reset_done, associate_done
  <1>6. CASE tsch_pending_events BY <1>6 DEF tsch_pending_events
  <1>7. ASSUME NEW p \in Packet, send_packet(p) PROVE cut' = cut
    BY <1>7 DEF send_packet
  <1>8. ASSUME NEW l \in Dynamic, add_link(l) \/ remove_link(l)
        PROVE  cut' = cut
    BY <1>8 DEF add_link, remove_link, Change
  <1>9. ASSUME NEW a \in Sources, update_time_source(a) \/ tsch_associate(a)
        PROVE  cut' = cut
    BY <1>9 DEF update_time_source, tsch_associate, Change
  <1>10. CASE UNCHANGED vars BY <1>10 DEF vars
  <1> QED BY <1>1, <1>2, <1>3, <1>4, <1>5, <1>6, <1>7, <1>8, <1>9, <1>10
       DEF Next, Call

LEMMA CutGrows == ASSUME [Next]_vars, cut PROVE cut'
  BY CutStays DEF tsch_reset

LEMMA CutTyped == ASSUME [Next]_vars, cut \in BOOLEAN PROVE cut' \in BOOLEAN
  BY CutStays, Zenon DEF tsch_reset

LEMMA StepInv ==
  ASSUME ~ cut', IInv, [Next]_vars PROVE IInv'
  <1>1. CASE Slot BY <1>1, SlotStep
  <1>2. CASE Call BY <1>2, CallStep
  <1>3. CASE tsch_reset BY <1>3, ResetStart
  <1>4. ASSUME NEW a \in Sources, tsch_associate(a) PROVE IInv'
    BY <1>4, AssociateStart
  <1>5. CASE \/ tsch_pending_events
             \/ \E p \in Packet : send_packet(p)
             \/ \E l \in Dynamic : add_link(l) \/ remove_link(l)
             \/ \E a \in Sources : update_time_source(a)
    BY <1>5, CallsStart
  <1>6. CASE UNCHANGED vars
    <2>1. UNCHANGED <<tsch_locked, todo, scanning, tsch_is_associated, links,
             nbrs, queue, dequeued, phase, current_packet, current_neighbor,
             current_link, backup_link, fallback>>
      BY <1>6 DEF vars, lockVars, netVars, nbrVars, packetVars, slotVars,
                  linkVars
    <2>2. TodoInv' BY <2>1, TodoKept DEF IInv, NetKeeps
    <2> QED BY <2>1, <2>2, Quiet
  <1> QED BY <1>1, <1>2, <1>3, <1>4, <1>5, <1>6 DEF Next

(* The lock of tsch-slot-operation.c protects a slot that sends: its link, *)
(* neighbor and packet stay until it ends, whatever the processes do, as   *)
(* long as tsch_reset(), which takes no lock, has not begun in such a slot. *)
THEOREM SlotProtected == Spec => []SlotSafe
  <1> DEFINE Inv == cut \/ IInv
  <1>1. Init => Inv BY InitInv
  <1>2. Inv /\ [Next]_vars => Inv' BY StepInv, CutGrows
  <1>3. Inv => SlotSafe BY DEF IInv, SlotSafe
  <1> HIDE DEF Inv
  <1> QED BY <1>1, <1>2, <1>3, PTL DEF Spec
------------------------------------------------------------------------------
(* Nothing is forgotten: the timer, the packets received and those sent.   *)

Sequence(s) == \E S : s \in Seq(S)

(* A call of op is in progress or is to be made. *)
Waits(s, op) == \E i \in DOMAIN s : s[i][1] = op

AliveInv == Sequence(todo) /\ KeptAlive

LEMMA SequenceTail ==
  ASSUME NEW s, Sequence(s), s # <<>>
  PROVE  /\ Sequence(Tail(s))
         /\ \A op : Head(s)[1] # op /\ Waits(s, op) => Waits(Tail(s), op)
  <1>1. PICK S : s \in Seq(S) BY DEF Sequence
  <1>2. /\ Tail(s) \in Seq(S) /\ Len(Tail(s)) = Len(s) - 1 /\ Head(s) = s[1]
        /\ \A i \in 1..Len(Tail(s)) : Tail(s)[i] = s[i + 1]
        /\ DOMAIN s = 1..Len(s) /\ DOMAIN Tail(s) = 1..Len(Tail(s))
        /\ Len(s) \in Nat
    BY <1>1
  <1>3. ASSUME NEW op, Head(s)[1] # op, NEW i \in DOMAIN s, s[i][1] = op
        PROVE  Waits(Tail(s), op)
    <2>1. i # 1 BY <1>2, <1>3
    <2>2. i - 1 \in 1..Len(Tail(s)) /\ (i - 1) + 1 = i BY <1>2, <2>1
    <2>3. Tail(s)[i - 1] = s[i] BY <1>2, <2>2
    <2> QED BY <1>2, <1>3, <2>2, <2>3 DEF Waits
  <1> QED BY <1>2, <1>3 DEF Sequence, Waits

LEMMA SequenceConcat ==
  ASSUME NEW x, NEW y, Sequence(x), Sequence(y)
  PROVE  /\ Sequence(x \o y)
         /\ \A op : Waits(y, op) => Waits(x \o y, op)
         /\ \A op : Waits(x, op) => Waits(x \o y, op)
  <1>1. PICK S : x \in Seq(S) BY DEF Sequence
  <1>2. PICK T : y \in Seq(T) BY DEF Sequence
  <1>3. PICK U : U = S \cup T OBVIOUS
  <1>4. x \in Seq(U) BY <1>1, <1>3
  <1>5. y \in Seq(U) BY <1>2, <1>3
  <1>6. /\ x \o y \in Seq(U) /\ Len(x \o y) = Len(x) + Len(y)
        /\ Len(x) \in Nat /\ Len(y) \in Nat
        /\ DOMAIN x = 1..Len(x) /\ DOMAIN y = 1..Len(y)
        /\ DOMAIN (x \o y) = 1..Len(x \o y)
    BY <1>4, <1>5
  <1>7. \A i \in 1..Len(x) : (x \o y)[i] = x[i] BY <1>4, <1>5
  <1>8. \A i \in 1..Len(y) : (x \o y)[Len(x) + i] = y[i] BY <1>4, <1>5
  <1>9. ASSUME NEW op, NEW i \in DOMAIN y, y[i][1] = op PROVE Waits(x \o y, op)
    <2>1. Len(x) + i \in 1..Len(x \o y) BY <1>6
    <2>2. (x \o y)[Len(x) + i] = y[i] BY <1>6, <1>8
    <2> QED BY <1>6, <1>9, <2>1, <2>2 DEF Waits
  <1>10. ASSUME NEW op, NEW i \in DOMAIN x, x[i][1] = op PROVE Waits(x \o y, op)
    <2>1. i \in 1..Len(x \o y) BY <1>6
    <2>2. (x \o y)[i] = x[i] BY <1>6, <1>7
    <2> QED BY <1>6, <1>10, <2>1, <2>2 DEF Waits
  <1> QED BY <1>6, <1>9, <1>10 DEF Sequence, Waits

(* The network is not joined, and what waits does not become more. *)
NoNews ==
    /\ tsch_is_associated' => tsch_is_associated
    /\ UNCHANGED <<pending, input, armed>>
    /\ dequeued' # <<>> => dequeued # <<>>

LEMMA AliveKept ==
  ASSUME AliveInv, todo' = todo,
         tsch_is_associated' => tsch_is_associated /\ armed',
         pending => pending',
         input' > 0 => pending' \/ input > 0,
         dequeued' # <<>> => pending' \/ dequeued # <<>>
  PROVE  AliveInv'
  BY DEF AliveInv, KeptAlive, Sequence

(* The call in progress returns, after it asked for the calls x. *)
LEMMA AliveReturn ==
  ASSUME AliveInv, NoNews, todo # <<>>,
         Head(todo)[1] \notin {"rx_pending", "tx_pending"},
         NEW x, Sequence(x), todo' = x \o Tail(todo)
  PROVE  AliveInv'
  <1>1. Sequence(Tail(todo)) BY SequenceTail DEF AliveInv
  <1>2. Sequence(todo') BY <1>1, SequenceConcat
  <1>3. \A op \in {"rx_pending", "tx_pending"} :
           Waits(todo, op) => Waits(todo', op)
    <2> SUFFICES ASSUME NEW op \in {"rx_pending", "tx_pending"}, Waits(todo, op)
                 PROVE  Waits(todo', op)
      OBVIOUS
    <2>1. Waits(Tail(todo), op) BY SequenceTail DEF AliveInv
    <2> QED BY <1>1, <2>1, SequenceConcat
  <1> QED BY <1>2, <1>3 DEF AliveInv, KeptAlive, NoNews, Waits, Sequence

LEMMA AliveDone ==
  ASSUME AliveInv, NoNews, todo # <<>>,
         Head(todo)[1] \notin {"rx_pending", "tx_pending"}, Return
  PROVE  AliveInv'
  <1>1. Sequence(Tail(todo)) BY SequenceTail DEF AliveInv
  <1>2. \A op \in {"rx_pending", "tx_pending"} :
           Waits(todo, op) => Waits(Tail(todo), op)
    BY SequenceTail DEF AliveInv
  <1> QED BY <1>1, <1>2 DEF AliveInv, KeptAlive, NoNews, Waits, Sequence, Return

LEMMA AliveStart ==
  ASSUME AliveInv, NoNews, NEW s, Sequence(s), Start(s)
  PROVE  AliveInv'
  <1>1. todo = <<>> /\ todo' = s BY DEF Start, Idle
  <1>2. ~ Waits(todo, "rx_pending") /\ ~ Waits(todo, "tx_pending")
    BY <1>1 DEF Waits
  <1> QED BY <1>1, <1>2 DEF AliveInv, KeptAlive, NoNews, Waits, Sequence

LEMMA Tuples ==
  /\ Sequence(<<>>)
  /\ \A a : Sequence(<<a>>)
  /\ \A a, b : Sequence(<<a, b>>)
  /\ \A a, b, c : Sequence(<<a, b, c>>)
  <1>1. Sequence(<<>>)
    <2>1. <<>> \in Seq({}) OBVIOUS
    <2> QED BY <2>1 DEF Sequence
  <1>2. ASSUME NEW a PROVE Sequence(<<a>>)
    <2>1. <<a>> \in Seq({a}) OBVIOUS
    <2> QED BY <2>1 DEF Sequence
  <1>3. ASSUME NEW a, NEW b PROVE Sequence(<<a, b>>)
    <2>1. <<a, b>> \in Seq({a, b}) OBVIOUS
    <2> QED BY <2>1 DEF Sequence
  <1>4. ASSUME NEW a, NEW b, NEW c PROVE Sequence(<<a, b, c>>)
    <2>1. <<a, b, c>> \in Seq({a, b, c}) OBVIOUS
    <2> QED BY <2>1 DEF Sequence
  <1> QED BY <1>1, <1>2, <1>3, <1>4

LEMMA CountedCalls ==
  ASSUME NEW l, NEW op PROVE Sequence(<<Release>> \o Counted(l, op))
  <1>1. Sequence(<<Release>>) /\ Sequence(Counted(l, op)) BY Tuples DEF Counted
  <1> QED BY <1>1, SequenceConcat

LEMMA SlotEndAlive ==
  ASSUME NEW l, NEW w, NEW b, NEW f, SlotEnd(l, w, b, f), tsch_is_associated => armed
  PROVE  tsch_is_associated' => tsch_is_associated /\ armed'
  BY DEF SlotEnd, ScheduleNext, tsch_disassociate, netVars

LEMMA AliveSlot == ASSUME AliveInv, Slot PROVE AliveInv'
  <1> USE DEF netVars, packetVars
  <1>0. tsch_is_associated => armed BY DEF AliveInv, KeptAlive
  <1>1. CASE slot_stop BY <1>1, AliveKept DEF slot_stop
  <1>2. CASE slot_skip
    <2>1. /\ SlotEnd(current_link, backoff_window, burst_link_scheduled, fallback)
          /\ UNCHANGED <<todo, pending, input, dequeued>>
      BY <1>2 DEF slot_skip
    <2> QED BY <1>0, <2>1, SlotEndAlive, AliveKept
  <1>3. CASE slot_missed BY <1>3, AliveKept DEF slot_missed, ScheduleNext
  <1>4. CASE slot_begin
    <2>1. /\ tsch_is_associated /\ UNCHANGED <<todo, pending, input, dequeued>>
          /\ \E l, f : SlotBegin(l, f)
      BY <1>4 DEF slot_begin
    <2>2. PICK l, f : SlotBegin(l, f) BY <2>1
    <2>3. tsch_is_associated' => tsch_is_associated /\ armed'
      <3>1. CASE SlotEnd(l, backoff_window, FALSE, f) BY <1>0, <3>1, SlotEndAlive
      <3>2. CASE UNCHANGED <<netVars, armed>> BY <1>0, <2>1, <3>2
      <3> QED BY <2>2, <3>1, <3>2 DEF SlotBegin
    <2> QED BY <2>1, <2>3, AliveKept
  <1>5. CASE tx_slot_end
    <2>1. todo' = todo /\ input' = input /\ pending' = TRUE
      BY <1>5 DEF tx_slot_end, poll_for_sent
    <2>2. PICK w, b : SlotEnd(current_link, w, b, fallback)
      BY <1>5 DEF tx_slot_end
    <2>3. tsch_is_associated' => tsch_is_associated /\ armed'
      BY <1>0, <2>2, SlotEndAlive
    <2> QED BY <2>1, <2>3, AliveKept
  <1>6. CASE rx_slot_end
    <2>1. todo' = todo /\ dequeued' = dequeued BY <1>6 DEF rx_slot_end
    <2>2. PICK got \in BOOLEAN, b \in BOOLEAN :
             /\ input' = IF got THEN input + 1 ELSE input
             /\ pending' = (got \/ pending)
             /\ SlotEnd(current_link, backoff_window, b, fallback)
      BY <1>6 DEF rx_slot_end
    <2>3. tsch_is_associated' => tsch_is_associated /\ armed'
      BY <1>0, <2>2, SlotEndAlive
    <2>4. (pending => pending') /\ (input' > 0 => pending' \/ input > 0)
      BY <2>2
    <2> QED BY <2>1, <2>3, <2>4, AliveKept
  <1> QED BY <1>1, <1>2, <1>3, <1>4, <1>5, <1>6 DEF Slot

(* The calls that take one step and tell nobody. *)
LEMMA AliveCall ==
  ASSUME AliveInv,
         \/ Lock \/ add_nbr_known \/ tsch_queue_add_nbr
         \/ tsch_queue_remove_nbr \/ tsch_queue_flush_nbr_queue
         \/ tsch_queue_reset \/ tsch_queue_free_unused_neighbors
         \/ tsch_queue_add_packet \/ count_links \/ tsch_schedule_add_link
         \/ tsch_schedule_remove_link \/ tsch_schedule_remove_all
         \/ tsch_queue_update_time_source \/ dequeued_get \/ reset_done
  PROVE  AliveInv'
  <1> USE DEF netVars, packetVars, slotVars, Doing
  <1>0. tsch_is_associated => armed BY DEF AliveInv, KeptAlive
  <1>1. CASE get_lock_request \/ get_lock_take \/ get_lock_return
    BY <1>0, <1>1, AliveKept DEF get_lock_request, get_lock_take, get_lock_return
  <1>2. CASE tsch_release_lock BY <1>2, AliveDone DEF tsch_release_lock, NoNews
  <1>3. CASE add_nbr_known BY <1>3, AliveDone DEF add_nbr_known, NoNews
  <1>4. CASE tsch_queue_add_nbr
    <2>1. NoNews /\ todo # <<>> /\ Head(todo)[1] = "add_nbr"
          /\ todo' = <<Release>> \o Tail(todo)
      BY <1>4 DEF tsch_queue_add_nbr, ReturnTo, NoNews
    <2> QED BY <2>1, Tuples, AliveReturn
  <1>5. CASE tsch_queue_remove_nbr
    <2>1. NoNews /\ todo # <<>> /\ Head(todo)[1] = "remove_nbr"
          /\ todo' = <<Release, <<"flush", Arg>>>> \o Tail(todo)
      BY <1>5 DEF tsch_queue_remove_nbr, ReturnTo, NoNews
    <2> QED BY <2>1, Tuples, AliveReturn
  <1>6. CASE tsch_queue_flush_nbr_queue
    <2>1. /\ NoNews /\ todo # <<>> /\ Head(todo)[1] = "flush"
          /\ Return \/ todo' = todo
      BY <1>6 DEF tsch_queue_flush_nbr_queue, NoNews
    <2> QED BY <1>0, <2>1, AliveDone, AliveKept DEF NoNews
  <1>7. CASE tsch_queue_reset
    <2>1. /\ NoNews /\ todo # <<>> /\ Head(todo)[1] = "queue_reset"
          /\ \/ \E a : todo' = <<<<"flush", a>>, <<"queue_reset", Arg \ {a}>>>>
                               \o Tail(todo)
             \/ Return
      BY <1>7 DEF tsch_queue_reset, ReturnTo, NoNews
    <2> QED BY <2>1, Tuples, AliveReturn, AliveDone
  <1>8. CASE tsch_queue_free_unused_neighbors
    <2>1. /\ NoNews /\ todo # <<>> /\ Head(todo)[1] = "free_unused"
          /\ \/ \E a : todo' = <<<<"remove_nbr", a>>, <<"free_unused", Arg \ {a}>>>>
                               \o Tail(todo)
             \/ Return
      BY <1>8 DEF tsch_queue_free_unused_neighbors, ReturnTo, NoNews
    <2> QED BY <2>1, Tuples, AliveReturn, AliveDone
  <1>9. CASE tsch_queue_add_packet
    BY <1>9, AliveDone DEF tsch_queue_add_packet, NoNews
  <1>10. CASE count_links BY <1>10, AliveDone DEF count_links, NoNews
  <1>11. CASE tsch_schedule_add_link
    <2>1. /\ NoNews /\ todo # <<>> /\ Head(todo)[1] = "add_link"
          /\ \/ todo' = (<<Release>> \o Counted(Arg, "count_up")) \o Tail(todo)
             \/ todo' = <<Release>> \o Tail(todo)
      BY <1>11 DEF tsch_schedule_add_link, ReturnTo, NoNews
    <2> QED BY <2>1, Tuples, CountedCalls, AliveReturn
  <1>12. CASE tsch_schedule_remove_link
    <2>1. /\ NoNews /\ todo # <<>> /\ Head(todo)[1] = "remove_link"
          /\ todo' = (<<Release>> \o Counted(Arg, "count_down")) \o Tail(todo)
      BY <1>12 DEF tsch_schedule_remove_link, ReturnTo, NoNews
    <2> QED BY <2>1, CountedCalls, AliveReturn
  <1>13. CASE tsch_schedule_remove_all
    <2>1. /\ NoNews /\ todo # <<>> /\ Head(todo)[1] = "remove_all"
          /\ \/ \E l : todo' = <<<<"remove_link", l>>, Head(todo)>> \o Tail(todo)
             \/ Return
      BY <1>13 DEF tsch_schedule_remove_all, ReturnTo, NoNews
    <2> QED BY <2>1, Tuples, AliveReturn, AliveDone
  <1>14. CASE tsch_queue_update_time_source
    BY <1>14, AliveDone DEF tsch_queue_update_time_source, NoNews
  <1>15. CASE dequeued_get BY <1>15, AliveDone DEF dequeued_get, NoNews
  <1>16. CASE reset_done BY <1>16, AliveDone DEF reset_done, NoNews
  <1> QED BY <1>1, <1>2, <1>3, <1>4, <1>5, <1>6, <1>7, <1>8, <1>9, <1>10,
             <1>11, <1>12, <1>13, <1>14, <1>15, <1>16 DEF Lock

LEMMA Leaves ==
  ASSUME tsch_disassociate \/ UNCHANGED netVars
  PROVE  tsch_is_associated' => tsch_is_associated
  BY DEF tsch_disassociate, netVars

(* tsch_rx_process_pending() returns when nothing is left, *)
LEMMA AliveRx == ASSUME AliveInv, tsch_rx_process_pending PROVE AliveInv'
  <1>1. /\ todo # <<>> /\ UNCHANGED <<pending, dequeued, armed>>
        /\ tsch_is_associated' => tsch_is_associated
    BY Leaves DEF tsch_rx_process_pending, Doing, packetVars, slotVars, netVars
  <1>2. Head(todo)[1] = "rx_pending" BY DEF tsch_rx_process_pending, Doing
  <1>3. CASE input = 0 /\ Return /\ input' = input
    <2>1. Sequence(Tail(todo)) BY <1>1, SequenceTail DEF AliveInv
    <2>2. Waits(todo, "tx_pending") => Waits(Tail(todo), "tx_pending")
      BY <1>1, <1>2, SequenceTail DEF AliveInv
    <2>3. ~ input' > 0 BY <1>3
    <2> QED BY <1>1, <1>3, <2>1, <2>2, <2>3
         DEF AliveInv, KeptAlive, Waits, Sequence, Return
  <1>4. CASE todo' = todo
    <2>1. Waits(todo, "rx_pending")
      <3>1. PICK S : todo \in Seq(S) BY DEF AliveInv, Sequence
      <3>2. Head(todo) = todo[1] /\ 1 \in DOMAIN todo BY <1>1, <3>1
      <3> QED BY <1>2, <3>2 DEF Waits
    <2> QED BY <1>1, <1>4, <2>1 DEF AliveInv, KeptAlive, Waits, Sequence
  <1> QED BY <1>3, <1>4 DEF tsch_rx_process_pending

(* and tsch_tx_process_pending() comes back to look for another packet. *)
LEMMA AliveTx == ASSUME AliveInv, tsch_tx_process_pending PROVE AliveInv'
  <1>1. /\ todo # <<>> /\ UNCHANGED <<pending, dequeued, input, armed>>
        /\ tsch_is_associated' => tsch_is_associated
    BY Leaves DEF tsch_tx_process_pending, Doing, packetVars, slotVars, netVars
  <1>2. Head(todo)[1] = "tx_pending" BY DEF tsch_tx_process_pending, Doing
  <1>3. Sequence(Tail(todo)) BY <1>1, SequenceTail DEF AliveInv
  <1>4. Waits(todo, "rx_pending") => Waits(Tail(todo), "rx_pending")
    BY <1>1, <1>2, SequenceTail DEF AliveInv
  <1>5. CASE dequeued = <<>> /\ Return
    BY <1>1, <1>3, <1>4, <1>5 DEF AliveInv, KeptAlive, Waits, Sequence, Return
  <1>6. CASE ReturnTo(<<<<"free_unused", nbrs \cap Unicast>>,
                        <<"dequeued_get", None>>, Head(todo)>>)
    <2>1. PICK x : x = <<<<"free_unused", nbrs \cap Unicast>>,
                         <<"dequeued_get", None>>, Head(todo)>>
      OBVIOUS
    <2>2. Sequence(x) /\ Waits(x, "tx_pending")
      <3>1. 3 \in DOMAIN x /\ x[3] = Head(todo) BY <2>1
      <3> QED BY <1>2, <2>1, <3>1, Tuples DEF Waits
    <2>3. todo' = x \o Tail(todo) BY <1>6, <2>1 DEF ReturnTo
    <2>4. /\ Sequence(todo') /\ Waits(todo', "tx_pending")
          /\ Waits(todo, "rx_pending") => Waits(todo', "rx_pending")
      BY <1>3, <1>4, <2>2, <2>3, SequenceConcat
    <2> QED BY <1>1, <2>4 DEF AliveInv, KeptAlive, Waits, Sequence
  <1> QED BY <1>5, <1>6 DEF tsch_tx_process_pending

(* Joining sets the timer, and polls the process once. *)
LEMMA AliveJoin == ASSUME AliveInv, associate_done PROVE AliveInv'
  <1>1. todo # <<>> /\ Head(todo)[1] = "associate_done" /\ todo' = Tail(todo)
    BY DEF associate_done, Doing, Return
  <1>2. Sequence(Tail(todo)) BY <1>1, SequenceTail DEF AliveInv
  <1>3. \A op \in {"rx_pending", "tx_pending"} :
           Waits(todo, op) => Waits(Tail(todo), op)
    BY <1>1, SequenceTail DEF AliveInv
  <1>4. UNCHANGED <<input, dequeued>> BY DEF associate_done, packetVars
  <1>5. CASE armed' = TRUE /\ pending' = TRUE
    BY <1>1, <1>2, <1>5 DEF AliveInv, KeptAlive, Sequence
  <1>6. CASE UNCHANGED <<tsch_is_associated, armed, pending>>
    BY <1>1, <1>2, <1>3, <1>4, <1>6 DEF AliveInv, KeptAlive, Waits, Sequence
  <1> QED BY <1>5, <1>6 DEF associate_done

(* A poll is answered by the calls that look for what was stored. *)
LEMMA AliveEvents == ASSUME AliveInv, tsch_pending_events PROVE AliveInv'
  <1>1. PICK x : x = <<<<"rx_pending", None>>, <<"tx_pending", None>>>> OBVIOUS
  <1>2. todo' = x /\ UNCHANGED <<tsch_is_associated, armed>>
    BY <1>1 DEF tsch_pending_events, Start, netVars, slotVars
  <1>3. Sequence(x) BY <1>1, Tuples
  <1>4. Waits(x, "rx_pending") /\ Waits(x, "tx_pending")
    <2>1. /\ 1 \in DOMAIN x /\ x[1][1] = "rx_pending"
          /\ 2 \in DOMAIN x /\ x[2][1] = "tx_pending"
      BY <1>1
    <2> QED BY <2>1 DEF Waits
  <1> QED BY <1>2, <1>3, <1>4 DEF AliveInv, KeptAlive, Waits, Sequence

LEMMA AliveStep == ASSUME AliveInv, [Next]_vars PROVE AliveInv'
  <1> USE DEF netVars, packetVars, slotVars
  <1>1. CASE Slot BY <1>1, AliveSlot
  <1>2. CASE Call BY <1>2, AliveCall, AliveRx, AliveTx, AliveJoin DEF Call
  <1>3. CASE tsch_pending_events BY <1>3, AliveEvents
  <1>4. ASSUME NEW s, Sequence(s), Start(s),
               UNCHANGED <<dequeued, netVars, pending>>
        PROVE  AliveInv'
    <2>1. NoNews BY <1>4 DEF NoNews, Start
    <2> QED BY <1>4, <2>1, AliveStart
  <1>5. CASE tsch_reset
    <2>1. PICK s : /\ s = <<<<"rx_pending", None>>, <<"tx_pending", None>>,
                      <<"queue_reset", nbrs>>, <<"free_unused", nbrs \cap Unicast>>,
                      <<"set_source", None>>, <<"reset_done", None>>>>
      OBVIOUS
    <2>2. Sequence(s)
      <3>1. s \in Seq({s[1], s[2], s[3], s[4], s[5], s[6]}) BY <2>1
      <3> QED BY <3>1 DEF Sequence
    <2> QED BY <1>4, <1>5, <2>1, <2>2 DEF tsch_reset
  <1>6. ASSUME NEW p \in Packet, send_packet(p) PROVE AliveInv'
    <2>1. UNCHANGED <<dequeued, netVars, pending>> BY <1>6 DEF send_packet
    <2>2. \/ Start(<<<<"add_nbr", Dest[p]>>, <<"add_packet", p>>>>)
          \/ Start(<<>>)
      BY <1>6 DEF send_packet
    <2> QED BY <1>4, <2>1, <2>2, Tuples
  <1>7. ASSUME NEW l \in Dynamic, add_link(l) \/ remove_link(l) PROVE AliveInv'
    <2>1. UNCHANGED <<dequeued, netVars, pending>>
      BY <1>7 DEF add_link, remove_link
    <2>2. \/ Start(<<<<"add_link", l>>>>) \/ Start(<<<<"remove_link", l>>>>)
          \/ \E m : Start(<<<<"remove_link", m>>, <<"add_link", l>>>>)
      BY <1>7 DEF add_link, remove_link
    <2> QED BY <1>4, <2>1, <2>2, Tuples
  <1>8. ASSUME NEW a \in Sources, update_time_source(a) PROVE AliveInv'
    <2>1. UNCHANGED <<dequeued, netVars, pending>>
          /\ Start(<<<<"add_nbr", a>>, <<"set_source", a>>>>)
      BY <1>8 DEF update_time_source
    <2> QED BY <1>4, <2>1, Tuples
  <1>9. ASSUME NEW a \in Sources, tsch_associate(a) PROVE AliveInv'
    <2> DEFINE B == [i \in DOMAIN FromBeacon |-> <<"add_link", FromBeacon[i]>>]
               C == <<<<"add_nbr", a>>, <<"set_source", a>>, <<"associate_done", a>>>>
               s == <<<<"remove_all", None>>>> \o B \o C
    <2>1. UNCHANGED <<dequeued, netVars, pending>> /\ Start(s)
      BY <1>9 DEF tsch_associate
    <2>2. Sequence(B)
      <3>1. FromBeacon \in Seq(Link) BY TschAssumption
      <3>2. DOMAIN FromBeacon = 1..Len(FromBeacon) /\ Len(FromBeacon) \in Nat
        BY <3>1
      <3>3. B \in Seq({"add_link"} \X Link) BY <3>1, <3>2
      <3> QED BY <3>3 DEF Sequence
    <2>3. Sequence(s)
      <3>1. Sequence(<<<<"remove_all", None>>>>) /\ Sequence(C) BY Tuples
      <3> HIDE DEF B, C
      <3>2. Sequence(<<<<"remove_all", None>>>> \o B) BY <2>2, <3>1, SequenceConcat
      <3> QED BY <3>1, <3>2, SequenceConcat
    <2> QED BY <1>4, <2>1, <2>3
  <1>10. CASE UNCHANGED vars
    BY <1>10 DEF vars, AliveInv, KeptAlive, Sequence
  <1> QED BY <1>1, <1>2, <1>3, <1>5, <1>6, <1>7, <1>8, <1>9, <1>10 DEF Next

(* While the node is part of a network the timer of the slot operation is  *)
(* set; what the interrupt left for the processes is in the hands of a     *)
(* call or announced by a poll, wherever the interrupt came in between.    *)
THEOREM NothingForgotten == Spec => []KeptAlive
  <1>1. Init => AliveInv
    <2> SUFFICES ASSUME Init PROVE AliveInv OBVIOUS
    <2>1. Sequence(todo) BY Tuples DEF Init
    <2>2. KeptAlive BY DEF Init, KeptAlive
    <2> QED BY <2>1, <2>2 DEF AliveInv
  <1>2. AliveInv /\ [Next]_vars => AliveInv' BY AliveStep
  <1>3. AliveInv => KeptAlive BY DEF AliveInv
  <1> QED BY <1>1, <1>2, <1>3, PTL DEF Spec
------------------------------------------------------------------------------
(* The types of what process context and the slots count and remember. *)

Flags ==
    /\ tsch_locked \in BOOLEAN /\ tsch_lock_requested \in BOOLEAN
    /\ tsch_is_associated \in BOOLEAN /\ scanning \in BOOLEAN
    /\ pending \in BOOLEAN /\ armed \in BOOLEAN
    /\ burst_link_scheduled \in BOOLEAN /\ fallback \in BOOLEAN

Counters ==
    /\ tx_links_count \in [Addr -> 0..255]
    /\ backoff_window \in [Addr -> 0..MaxWindow]
    /\ time_source \in Addr \cup {None}
    /\ input \in 0..(InputSize - 1)
    /\ phase = "rx" => input < InputSize - 1
    /\ tsch_current_burst_count \in 0..(BurstMax - 1)
    /\ changes \in 0..MaxChanges /\ leaves \in 0..MaxLeaves

SlotTypes ==
    /\ phase \in {"idle", "tx", "rx"}
    /\ current_packet \in Packet \cup {None}
    /\ current_neighbor \in Addr \cup {None}

Controls == Flags /\ Counters /\ SlotTypes

LEMMA Sizes ==
  /\ MaxWindow \in Nat \ {0} /\ BurstMax \in Nat \ {0} /\ InputSize \in Nat \ {0}
  /\ MaxChanges \in Nat /\ MaxLeaves \in Nat /\ DequeuedSize \in Nat \ {0}
  BY TschAssumption

LEMMA BackoffTyped ==
  ASSUME NEW l, NEW w \in [Addr -> 0..MaxWindow]
  PROVE  BackoffAfter(l, w) \in [Addr -> 0..MaxWindow]
  <1>1. \A a \in Addr : w[a] \in 0..MaxWindow /\ (w[a] # 0 => w[a] - 1 \in 0..MaxWindow)
    BY Sizes
  <1> QED BY <1>1 DEF BackoffAfter

LEMMA LeavingTyped ==
  ASSUME leaves \in 0..MaxLeaves, tsch_is_associated \in BOOLEAN,
         tsch_disassociate \/ UNCHANGED netVars
  PROVE  /\ leaves' \in 0..MaxLeaves /\ tsch_is_associated' \in BOOLEAN
         /\ scanning' = scanning
  <1>1. leaves' \in 0..MaxLeaves
    <2>1. (leaves < MaxLeaves /\ leaves' \in {leaves, leaves + 1}) \/ leaves' = leaves
      BY DEF tsch_disassociate, netVars
    <2> QED BY <2>1, Sizes
  <1>2. tsch_is_associated' \in BOOLEAN BY DEF tsch_disassociate, netVars
  <1>3. scanning' = scanning BY DEF tsch_disassociate, netVars
  <1> QED BY <1>1, <1>2, <1>3

LEMMA ScheduleTyped ==
  ASSUME Controls, NEW l, NEW w \in [Addr -> 0..MaxWindow], NEW b \in BOOLEAN,
         NEW f \in BOOLEAN, ScheduleNext(l, w, b, f)
  PROVE  /\ armed' \in BOOLEAN /\ burst_link_scheduled' \in BOOLEAN
         /\ fallback' \in BOOLEAN
         /\ backoff_window' \in [Addr -> 0..MaxWindow]
         /\ tsch_current_burst_count' \in 0..(BurstMax - 1)
         /\ UNCHANGED <<tsch_is_associated, scanning, leaves>>
  <1>1. tsch_current_burst_count \in 0..(BurstMax - 1) BY DEF Controls, Counters
  <1>2. tsch_current_burst_count' \in 0..(BurstMax - 1)
    BY <1>1, Sizes DEF ScheduleNext
  <1>3. backoff_window' \in [Addr -> 0..MaxWindow] BY BackoffTyped DEF ScheduleNext
  <1>4. /\ armed' \in BOOLEAN /\ burst_link_scheduled' \in BOOLEAN
        /\ fallback' \in BOOLEAN
    BY DEF ScheduleNext
  <1>5. UNCHANGED <<tsch_is_associated, scanning, leaves>>
    BY DEF ScheduleNext, netVars
  <1> QED BY <1>2, <1>3, <1>4, <1>5

LEMMA SlotEndTyped ==
  ASSUME Controls, NEW l, NEW w \in [Addr -> 0..MaxWindow], NEW b \in BOOLEAN,
         NEW f \in BOOLEAN, SlotEnd(l, w, b, f),
         UNCHANGED <<lockVars, nbrVars, changes>>,
         pending' \in BOOLEAN, input' \in 0..(InputSize - 1)
  PROVE  Controls'
  <1>1. /\ armed' \in BOOLEAN /\ burst_link_scheduled' \in BOOLEAN
        /\ fallback' \in BOOLEAN
        /\ backoff_window' \in [Addr -> 0..MaxWindow]
        /\ tsch_current_burst_count' \in 0..(BurstMax - 1)
        /\ tsch_is_associated' \in BOOLEAN /\ scanning' \in BOOLEAN
        /\ leaves' \in 0..MaxLeaves
    <2>1. CASE ScheduleNext(l, w, b, f)
      BY <2>1, ScheduleTyped DEF Controls, Flags, Counters
    <2>2. CASE /\ tsch_disassociate /\ armed' = FALSE
               /\ burst_link_scheduled' = b /\ fallback' = f
               /\ backoff_window' = w
               /\ tsch_current_burst_count' = tsch_current_burst_count
      BY <2>2, LeavingTyped DEF Controls, Flags, Counters
    <2> QED BY <2>1, <2>2 DEF SlotEnd
  <1>2. phase' = "idle" /\ current_packet' = None /\ current_neighbor' = None
    BY DEF SlotEnd
  <1>3. Flags' BY <1>1 DEF Controls, Flags, lockVars
  <1>4. Counters' BY <1>1, <1>2 DEF Controls, Counters, nbrVars
  <1>5. SlotTypes' BY <1>2 DEF SlotTypes
  <1> QED BY <1>3, <1>4, <1>5 DEF Controls

LEMMA WindowTyped ==
  ASSUME backoff_window \in [Addr -> 0..MaxWindow], NEW a, NEW l, NEW s, NEW q,
         NEW w \in WindowAfter(a, l, s, q)
  PROVE  w \in [Addr -> 0..MaxWindow]
  <1>1. \A v \in 0..MaxWindow : [backoff_window EXCEPT ![a] = v] \in [Addr -> 0..MaxWindow]
    OBVIOUS
  <1>2. 0 \in 0..MaxWindow /\ 1..MaxWindow \subseteq 0..MaxWindow BY Sizes
  <1> QED BY <1>1, <1>2 DEF WindowAfter

LEMMA SlotBeginTyped ==
  ASSUME IInv, Controls, NEW l, NEW f \in BOOLEAN, SlotBegin(l, f),
         UNCHANGED <<lockVars, nbrVars, changes, pending, input>>
  PROVE  Controls'
  <1>0. /\ pending \in BOOLEAN /\ input \in 0..(InputSize - 1)
        /\ backoff_window \in [Addr -> 0..MaxWindow]
    BY DEF Controls, Flags, Counters
  <1>1. CASE SlotEnd(l, backoff_window, FALSE, f) BY <1>0, <1>1, SlotEndTyped
  <1>2. CASE /\ phase' \in {"tx", "rx"} /\ fallback' = f
             /\ burst_link_scheduled' = FALSE
             /\ UNCHANGED <<netVars, armed, backoff_window, tsch_current_burst_count>>
             /\ phase' = "rx" => input < InputSize - 1
             /\ current_packet' \in Packet \cup {None}
             /\ current_neighbor' \in Addr \cup {None}
    <2>1. Flags' BY <1>2 DEF Controls, Flags, lockVars, netVars
    <2>2. Counters' BY <1>2 DEF Controls, Counters, nbrVars, netVars
    <2>3. SlotTypes' BY <1>2 DEF SlotTypes
    <2> QED BY <2>1, <2>2, <2>3 DEF Controls
  <1>3. ASSUME NEW a \in NeighborFor(l)
        PROVE  Head(queue[a]) \in Packet /\ a \in Addr
    <2>1. a \in nbrs /\ queue[a] # <<>> BY NeighborForIn
    <2>2. a \in Addr /\ queue[a] \in Seq(Packet) BY <2>1 DEF IInv, Types
    <2> QED BY <2>1, <2>2
  <1>4. CASE \E a \in NeighborFor(l) :
            IF Len(dequeued) < DequeuedSize - 1
            THEN /\ phase' = "tx" /\ current_link' = l /\ fallback' = f
                 /\ current_packet' = Head(queue[a]) /\ current_neighbor' = a
                 /\ burst_link_scheduled' = FALSE
                 /\ UNCHANGED <<netVars, armed, backup_link, backoff_window,
                                tsch_current_burst_count>>
            ELSE SlotEnd(l, backoff_window, FALSE, f)
    BY <1>1, <1>2, <1>3, <1>4
  <1> QED BY <1>1, <1>2, <1>4 DEF SlotBegin

LEMMA SlotControls == ASSUME IInv, Controls, Slot PROVE Controls'
  <1>0. /\ pending \in BOOLEAN /\ input \in 0..(InputSize - 1)
        /\ backoff_window \in [Addr -> 0..MaxWindow]
        /\ burst_link_scheduled \in BOOLEAN /\ fallback \in BOOLEAN
    BY DEF Controls, Flags, Counters
  <1>1. CASE slot_stop
    BY <1>1 DEF slot_stop, Controls, Flags, Counters, SlotTypes, lockVars,
                nbrVars, netVars, linkVars
  <1>2. CASE slot_skip BY <1>0, <1>2, SlotEndTyped DEF slot_skip
  <1>3. CASE slot_missed
    <2>1. ScheduleNext(current_link, backoff_window, burst_link_scheduled, fallback)
          /\ UNCHANGED <<lockVars, nbrVars, pending, input, phase,
                         current_packet, current_neighbor, changes>>
      BY <1>3 DEF slot_missed
    <2>2. /\ armed' \in BOOLEAN /\ burst_link_scheduled' \in BOOLEAN
          /\ fallback' \in BOOLEAN
          /\ backoff_window' \in [Addr -> 0..MaxWindow]
          /\ tsch_current_burst_count' \in 0..(BurstMax - 1)
          /\ UNCHANGED <<tsch_is_associated, scanning, leaves>>
      BY <1>0, <2>1, ScheduleTyped
    <2>3. Flags' BY <2>1, <2>2 DEF Controls, Flags, lockVars
    <2>4. Counters' BY <2>1, <2>2 DEF Controls, Counters, nbrVars
    <2>5. SlotTypes' BY <2>1 DEF Controls, SlotTypes
    <2> QED BY <2>3, <2>4, <2>5 DEF Controls
  <1>4. CASE slot_begin
    <2>1. /\ UNCHANGED <<lockVars, nbrVars, changes, pending, input>>
          /\ SlotBegin(backup_link, TRUE) \/ SlotBegin(current_link, fallback)
      BY <1>4 DEF slot_begin
    <2> QED BY <1>0, <2>1, SlotBeginTyped
  <1>5. CASE tx_slot_end
    <2>1. /\ pending' = TRUE /\ UNCHANGED <<lockVars, nbrVars, input, changes>>
      BY <1>5 DEF tx_slot_end, poll_for_sent
    <2>2. PICK s, q, w, h, b :
             /\ w \in WindowAfter(current_neighbor, h, s, q)
             /\ b \in BOOLEAN /\ SlotEnd(current_link, w, b, fallback)
      BY <1>5 DEF tx_slot_end
    <2>3. w \in [Addr -> 0..MaxWindow] BY <1>0, <2>2, WindowTyped
    <2> QED BY <1>0, <2>1, <2>2, <2>3, SlotEndTyped
  <1>6. CASE rx_slot_end
    <2>1. UNCHANGED <<lockVars, nbrVars, changes>> /\ phase = "rx"
      BY <1>6 DEF rx_slot_end
    <2>2. PICK got \in BOOLEAN, b \in BOOLEAN :
             /\ input' = IF got THEN input + 1 ELSE input
             /\ pending' = (got \/ pending)
             /\ SlotEnd(current_link, backoff_window, b, fallback)
      BY <1>6 DEF rx_slot_end
    <2>3. input' \in 0..(InputSize - 1)
      BY <1>0, <2>1, <2>2, Sizes DEF Controls, Counters
    <2>4. pending' \in BOOLEAN BY <2>2
    <2> QED BY <1>0, <2>1, <2>2, <2>3, <2>4, SlotEndTyped
  <1> QED BY <1>1, <1>2, <1>3, <1>4, <1>5, <1>6 DEF Slot
(* The calls; those that change nothing that is counted are left to the    *)
(* last case.                                                              *)
LEMMA CallControls == ASSUME IInv, Controls, Call PROVE Controls'
  <1> USE DEF lockVars, nbrVars, netVars, slotVars, linkVars
  <1>1. CASE Lock
    <2>1. /\ UNCHANGED <<netVars, pending, nbrVars, backoff_window, input,
                         slotVars, linkVars, changes>>
          /\ \/ tsch_locked' = tsch_locked /\ tsch_lock_requested' = TRUE
             \/ tsch_locked' = TRUE /\ tsch_lock_requested' = tsch_lock_requested
             \/ tsch_locked' = tsch_locked /\ tsch_lock_requested' = FALSE
             \/ tsch_locked' = FALSE /\ tsch_lock_requested' = tsch_lock_requested
      BY <1>1 DEF Lock, get_lock_request, get_lock_take, get_lock_return,
                  tsch_release_lock
    <2>2. Flags' BY <2>1 DEF Controls, Flags
    <2>3. Counters' BY <2>1 DEF Controls, Counters
    <2> QED BY <2>1, <2>2, <2>3 DEF Controls, SlotTypes
  <1>2. CASE tsch_queue_add_nbr
    <2>1. /\ tx_links_count' \in {tx_links_count, [tx_links_count EXCEPT ![Arg] = 0]}
          /\ backoff_window' \in {backoff_window, [backoff_window EXCEPT ![Arg] = 0]}
          /\ UNCHANGED <<lockVars, netVars, pending, time_source, input,
                         slotVars, linkVars, changes>>
      BY <1>2 DEF tsch_queue_add_nbr
    <2>2. tx_links_count' \in [Addr -> 0..255] BY <2>1 DEF Controls, Counters
    <2>3. backoff_window' \in [Addr -> 0..MaxWindow]
      BY <2>1, Sizes DEF Controls, Counters
    <2> QED BY <2>1, <2>2, <2>3 DEF Controls, Flags, Counters, SlotTypes
  <1>3. CASE tsch_queue_reset
    <2>1. /\ \/ \E a : backoff_window' = [backoff_window EXCEPT ![a] = 0]
             \/ backoff_window' = [a \in Addr |-> IF a \in Arg THEN 0 ELSE backoff_window[a]]
          /\ UNCHANGED <<lockVars, netVars, pending, nbrVars, input,
                         slotVars, linkVars, changes>>
      BY <1>3 DEF tsch_queue_reset
    <2>2. backoff_window' \in [Addr -> 0..MaxWindow]
      BY <2>1, Sizes DEF Controls, Counters
    <2> QED BY <2>1, <2>2 DEF Controls, Flags, Counters, SlotTypes
  <1>4. CASE count_links
    <2>1. /\ UNCHANGED <<lockVars, netVars, pending, time_source, backoff_window,
                         input, slotVars, linkVars, changes>>
          /\ \/ tx_links_count' = tx_links_count
             \/ \E n \in {1, 255} : tx_links_count' =
                   [tx_links_count EXCEPT ![Arg] = (@ + n) % 256]
      BY <1>4 DEF count_links
    <2>2. tx_links_count' \in [Addr -> 0..255]
      <3>1. \A m \in 0..255, n \in {1, 255} : (m + n) % 256 \in 0..255 OBVIOUS
      <3> QED BY <2>1, <3>1 DEF Controls, Counters
    <2> QED BY <2>1, <2>2 DEF Controls, Flags, Counters, SlotTypes
  <1>5. CASE tsch_queue_update_time_source
    <2>1. /\ UNCHANGED <<lockVars, netVars, pending, tx_links_count, backoff_window,
                         input, slotVars, linkVars, changes>>
          /\ time_source' = IF Arg \in nbrs \cup {None} THEN Arg ELSE time_source
      BY <1>5 DEF tsch_queue_update_time_source
    <2>2. time_source' \in Addr \cup {None}
      BY <2>1 DEF Controls, Counters, IInv, Types
    <2> QED BY <2>1, <2>2 DEF Controls, Flags, Counters, SlotTypes
  <1>6. CASE tsch_rx_process_pending \/ tsch_tx_process_pending
    <2>1. /\ UNCHANGED <<lockVars, pending, nbrVars, backoff_window, slotVars,
                         linkVars, changes>>
          /\ tsch_disassociate \/ UNCHANGED netVars
          /\ input' = input \/ (input # 0 /\ input' = input - 1)
      BY <1>6 DEF tsch_rx_process_pending, tsch_tx_process_pending
    <2>2. /\ leaves' \in 0..MaxLeaves /\ tsch_is_associated' \in BOOLEAN
          /\ scanning' = scanning
      BY <2>1, LeavingTyped DEF Controls, Flags, Counters
    <2>3. input' \in 0..(InputSize - 1) /\ (phase = "rx" => input' < InputSize - 1)
      BY <2>1, Sizes DEF Controls, Counters
    <2>4. Flags' BY <2>1, <2>2 DEF Controls, Flags
    <2>5. Counters' BY <2>1, <2>2, <2>3 DEF Controls, Counters
    <2> QED BY <2>1, <2>4, <2>5 DEF Controls, SlotTypes
  <1>7. CASE reset_done
    BY <1>7 DEF reset_done, Controls, Flags, Counters, SlotTypes
  <1>8. CASE associate_done
    <2>1. /\ UNCHANGED <<lockVars, leaves, nbrVars, backoff_window, input, phase,
                         current_packet, current_neighbor, burst_link_scheduled,
                         tsch_current_burst_count, changes>>
          /\ \/ /\ tsch_is_associated' = TRUE /\ scanning' = FALSE
                /\ armed' = TRUE /\ fallback' = FALSE /\ pending' = TRUE
             \/ UNCHANGED <<tsch_is_associated, scanning, armed, fallback, pending>>
      BY <1>8 DEF associate_done
    <2>2. Flags' BY <2>1 DEF Controls, Flags
    <2> QED BY <2>1, <2>2 DEF Controls, Counters, SlotTypes
  <1>9. CASE add_nbr_known \/ tsch_queue_remove_nbr \/ tsch_queue_flush_nbr_queue
             \/ tsch_queue_free_unused_neighbors \/ tsch_queue_add_packet
             \/ tsch_schedule_add_link \/ tsch_schedule_remove_link
             \/ tsch_schedule_remove_all \/ dequeued_get
    <2>1. UNCHANGED <<lockVars, netVars, pending, tx_links_count, time_source,
                      backoff_window, input, slotVars, burst_link_scheduled,
                      tsch_current_burst_count, fallback, changes>>
      BY <1>9 DEF add_nbr_known, tsch_queue_remove_nbr, tsch_queue_flush_nbr_queue,
             tsch_queue_free_unused_neighbors, tsch_queue_add_packet,
             tsch_schedule_add_link, tsch_schedule_remove_link,
             tsch_schedule_remove_all, dequeued_get
    <2> QED BY <2>1 DEF Controls, Flags, Counters, SlotTypes
  <1> QED BY <1>1, <1>2, <1>3, <1>4, <1>5, <1>6, <1>7, <1>8, <1>9 DEF Call

LEMMA ControlsStep == ASSUME IInv, Controls, [Next]_vars PROVE Controls'
  <1> USE DEF lockVars, nbrVars, netVars, slotVars, linkVars
  <1>1. CASE Slot BY <1>1, SlotControls
  <1>2. CASE Call BY <1>2, CallControls
  <1>3. ASSUME NEW s, Start(s), UNCHANGED netVars, pending' \in {pending, FALSE},
               changes' = changes \/ Change
        PROVE  Controls'
    <2>1. UNCHANGED <<lockVars, nbrVars, backoff_window, input, slotVars, linkVars>>
      BY <1>3 DEF Start
    <2>2. changes' \in 0..MaxChanges
      BY <1>3, Sizes DEF Change, Controls, Counters
    <2>3. Flags' BY <1>3, <2>1 DEF Controls, Flags
    <2> QED BY <1>3, <2>1, <2>2, <2>3 DEF Controls, Counters, SlotTypes
  <1>4. CASE tsch_pending_events BY <1>3, <1>4 DEF tsch_pending_events
  <1>5. CASE tsch_reset BY <1>3, <1>5 DEF tsch_reset
  <1>6. ASSUME NEW p \in Packet, send_packet(p) PROVE Controls'
    BY <1>3, <1>6 DEF send_packet
  <1>7. ASSUME NEW l \in Dynamic, add_link(l) \/ remove_link(l) PROVE Controls'
    <2>1. UNCHANGED netVars /\ pending' = pending /\ Change
      BY <1>7 DEF add_link, remove_link
    <2>2. PICK s : Start(s) BY <1>7 DEF add_link, remove_link
    <2> QED BY <1>3, <2>1, <2>2
  <1>8. ASSUME NEW a \in Sources, update_time_source(a) \/ tsch_associate(a)
        PROVE  Controls'
    BY <1>3, <1>8 DEF update_time_source, tsch_associate
  <1>9. CASE UNCHANGED vars
    BY <1>9 DEF vars, Controls, Flags, Counters, SlotTypes
  <1> QED BY <1>1, <1>2, <1>4, <1>5, <1>6, <1>7, <1>8, <1>9 DEF Next

------------------------------------------------------------------------------
(* Every packet is in one place: in one of the queues q or in the ring u,  *)
(* if it has a block, which m says.                                        *)

Single(q, u, m) ==
    /\ \A a, b \in Addr : \A i \in 1..Len(q[a]) : \A j \in 1..Len(q[b]) :
          q[a][i] = q[b][j] => a = b /\ i = j
    /\ \A i, j \in 1..Len(u) : u[i] = u[j] => i = j
    /\ \A a \in Addr : \A i \in 1..Len(q[a]) : \A j \in 1..Len(u) : q[a][i] # u[j]
    /\ \A p \in Packet : p \in m <=>
          \/ \E a \in Addr : \E i \in 1..Len(q[a]) : q[a][i] = p
          \/ \E j \in 1..Len(u) : u[j] = p

(* The members of a sequence without its first. *)
LEMMA TailIndex ==
  ASSUME NEW S, NEW s \in Seq(S), s # <<>>
  PROVE  /\ Tail(s) \in Seq(S) /\ Len(Tail(s)) = Len(s) - 1 /\ Head(s) = s[1]
         /\ Len(s) \in Nat \ {0} /\ Head(s) \in S
         /\ \A i \in 1..Len(Tail(s)) : i + 1 \in 1..Len(s) /\ Tail(s)[i] = s[i + 1]
         /\ \A i \in 1..Len(s) : i # 1 =>
              i - 1 \in 1..Len(Tail(s)) /\ Tail(s)[i - 1] = s[i]
  OBVIOUS

LEMMA AppendIndex ==
  ASSUME NEW S, NEW s \in Seq(S), NEW p \in S
  PROVE  /\ Append(s, p) \in Seq(S) /\ Len(Append(s, p)) = Len(s) + 1
         /\ Len(s) \in Nat /\ Append(s, p)[Len(s) + 1] = p
         /\ \A i \in 1..Len(s) : Append(s, p)[i] = s[i]
  OBVIOUS

(* A packet is put into the queue of a, *)
LEMMA SingleAdd ==
  ASSUME NEW q \in [Addr -> Seq(Packet)], NEW u \in Seq(Packet),
         NEW m \in SUBSET Packet, Single(q, u, m),
         NEW a \in Addr, NEW p \in Packet, p \notin m
  PROVE  Single([q EXCEPT ![a] = Append(@, p)], u, m \cup {p})
  <1> DEFINE r == [q EXCEPT ![a] = Append(@, p)]
             n == Len(q[a]) + 1
  <1>1. /\ q[a] \in Seq(Packet) /\ r[a] = Append(q[a], p)
        /\ \A b \in Addr : b # a => r[b] = q[b]
    OBVIOUS
  <1>2. /\ Len(r[a]) = n /\ r[a][n] = p /\ Len(q[a]) \in Nat
        /\ \A i \in 1..Len(q[a]) : r[a][i] = q[a][i]
    BY <1>1, AppendIndex
  <1> HIDE DEF r
  <1>3. n \in 1..Len(r[a]) /\ \A i \in 1..Len(q[a]) : i \in 1..Len(r[a])
    BY <1>2
  <1>4. ASSUME NEW b \in Addr, NEW i \in 1..Len(r[b])
        PROVE  \/ b = a /\ i = n /\ r[b][i] = p
               \/ i \in 1..Len(q[b]) /\ r[b][i] = q[b][i]
    <2>1. CASE b = a
      <3>1. i \in 1..n BY <1>2, <2>1
      <3>2. i = n \/ i \in 1..Len(q[a]) BY <1>2, <3>1
      <3> QED BY <1>2, <2>1, <3>2
    <2>2. CASE b # a BY <1>1, <2>2
    <2> QED BY <2>1, <2>2
  <1> HIDE DEF n
  <1>5. \A b \in Addr : \A i \in 1..Len(q[b]) : q[b][i] # p BY DEF Single
  <1>6. \A j \in 1..Len(u) : u[j] # p BY DEF Single
  <1>7. \A b \in Addr : \A i \in 1..Len(q[b]) :
           i \in 1..Len(r[b]) /\ r[b][i] = q[b][i]
    BY <1>1, <1>2, <1>3
  <1>8. \A b, c \in Addr : \A i \in 1..Len(r[b]) : \A j \in 1..Len(r[c]) :
           r[b][i] = r[c][j] => b = c /\ i = j
    <2> SUFFICES ASSUME NEW b \in Addr, NEW c \in Addr, NEW i \in 1..Len(r[b]),
                        NEW j \in 1..Len(r[c]), r[b][i] = r[c][j]
                 PROVE  b = c /\ i = j
      OBVIOUS
    <2>1. /\ \/ b = a /\ i = n /\ r[b][i] = p
             \/ i \in 1..Len(q[b]) /\ r[b][i] = q[b][i]
          /\ \/ c = a /\ j = n /\ r[c][j] = p
             \/ j \in 1..Len(q[c]) /\ r[c][j] = q[c][j]
      BY <1>4
    <2> QED BY <1>5, <2>1 DEF Single
  <1>9. \A b \in Addr : \A i \in 1..Len(r[b]) : \A j \in 1..Len(u) : r[b][i] # u[j]
    BY <1>4, <1>6 DEF Single
  <1>10. ASSUME NEW o \in Packet
         PROVE  o \in m \cup {p} <=>
                   \/ \E b \in Addr : \E i \in 1..Len(r[b]) : r[b][i] = o
                   \/ \E j \in 1..Len(u) : u[j] = o
    <2>1. ASSUME o \in m \cup {p}
          PROVE  \/ \E b \in Addr : \E i \in 1..Len(r[b]) : r[b][i] = o
                 \/ \E j \in 1..Len(u) : u[j] = o
      <3>1. CASE o = p BY <1>2, <1>3, <3>1
      <3>2. CASE o \in m
        <4>1. \/ \E b \in Addr : \E i \in 1..Len(q[b]) : q[b][i] = o
              \/ \E j \in 1..Len(u) : u[j] = o
          BY <3>2 DEF Single
        <4>2. ASSUME NEW b \in Addr, NEW i \in 1..Len(q[b]), q[b][i] = o
              PROVE  \E c \in Addr : \E k \in 1..Len(r[c]) : r[c][k] = o
          <5>1. i \in 1..Len(r[b]) /\ r[b][i] = o BY <1>7, <4>2
          <5> QED BY <5>1
        <4> QED BY <4>1, <4>2
      <3> QED BY <2>1, <3>1, <3>2
    <2>2. ASSUME NEW b \in Addr, NEW i \in 1..Len(r[b]), r[b][i] = o
          PROVE  o \in m \cup {p}
      BY <1>4, <2>2 DEF Single
    <2>3. ASSUME NEW j \in 1..Len(u), u[j] = o PROVE o \in m
      BY <2>3 DEF Single
    <2> QED BY <2>1, <2>2, <2>3
  <1>11. Single(r, u, m \cup {p}) BY <1>8, <1>9, <1>10 DEF Single
  <1> QED BY <1>11 DEF r

(* The packet p, which has a block in m, is in none of the queues r that   *)
(* were q, nor in the ring v that was u.                                   *)
Left(q, u, m, r, v, p) ==
    /\ p \in m /\ Single(r, v, m \ {p})
    /\ \A b \in Addr : \A i \in 1..Len(r[b]) :
         r[b][i] # p /\ \E j \in 1..Len(q[b]) : r[b][i] = q[b][j]
    /\ \A i \in 1..Len(v) : v[i] # p /\ \E j \in 1..Len(u) : v[i] = u[j]

(* given back from the front of that queue, *)
LEMMA SingleTake ==
  ASSUME NEW q \in [Addr -> Seq(Packet)], NEW u \in Seq(Packet),
         NEW m \in SUBSET Packet, Single(q, u, m),
         NEW a \in Addr, q[a] # <<>>
  PROVE  Left(q, u, m, [q EXCEPT ![a] = Tail(@)], u, Head(q[a]))
  <1>a. PICK r, p : r = [q EXCEPT ![a] = Tail(@)] /\ p = Head(q[a]) OBVIOUS
  <1>1. /\ q[a] \in Seq(Packet) /\ r[a] = Tail(q[a])
        /\ \A b \in Addr : b # a => r[b] = q[b]
    BY <1>a
  <1>2. /\ Len(q[a]) \in Nat \ {0} /\ p = q[a][1] /\ p \in Packet
        /\ \A i \in 1..Len(r[a]) : i + 1 \in 1..Len(q[a]) /\ r[a][i] = q[a][i + 1]
        /\ \A i \in 1..Len(q[a]) : i # 1 =>
              i - 1 \in 1..Len(r[a]) /\ r[a][i - 1] = q[a][i]
    BY <1>1, <1>a, TailIndex
  <1>3. 1 \in 1..Len(q[a]) /\ q[a][1] = p BY <1>2
  <1>4. \A b \in Addr : \A i \in 1..Len(q[b]) : q[b][i] = p => b = a /\ i = 1
    BY <1>3 DEF Single
  <1>5. \A j \in 1..Len(u) : u[j] # p BY <1>3 DEF Single
  <1>6. p \in m BY <1>2, <1>3 DEF Single
  <1> DEFINE at(b, i) == IF b = a THEN i + 1 ELSE i
  <1>7. ASSUME NEW b \in Addr, NEW i \in 1..Len(r[b])
        PROVE  /\ at(b, i) \in 1..Len(q[b]) /\ r[b][i] = q[b][at(b, i)]
               /\ b = a => at(b, i) # 1
    <2>1. CASE b = a
      <3>1. i \in Nat \ {0} /\ i + 1 # 1 BY <2>1
      <3> QED BY <1>2, <2>1, <3>1
    <2>2. CASE b # a BY <1>1, <2>2
    <2> QED BY <2>1, <2>2
  <1>8. \A b \in Addr : \A i \in 1..Len(r[b]) : \A j \in 1..Len(r[b]) :
           at(b, i) = at(b, j) => i = j
    OBVIOUS
  <1> HIDE DEF at
  <1>9. \A b \in Addr : \A i \in 1..Len(r[b]) : r[b][i] # p BY <1>4, <1>7
  <1>10. \A b, c \in Addr : \A i \in 1..Len(r[b]) : \A j \in 1..Len(r[c]) :
           r[b][i] = r[c][j] => b = c /\ i = j
    <2> SUFFICES ASSUME NEW b \in Addr, NEW c \in Addr, NEW i \in 1..Len(r[b]),
                        NEW j \in 1..Len(r[c]), r[b][i] = r[c][j]
                 PROVE  b = c /\ i = j
      OBVIOUS
    <2>1. /\ at(b, i) \in 1..Len(q[b]) /\ r[b][i] = q[b][at(b, i)]
          /\ at(c, j) \in 1..Len(q[c]) /\ r[c][j] = q[c][at(c, j)]
      BY <1>7
    <2>2. PICK k, n : k = at(b, i) /\ n = at(c, j) OBVIOUS
    <2>3. k \in 1..Len(q[b]) /\ n \in 1..Len(q[c]) /\ q[b][k] = q[c][n]
      BY <2>1, <2>2
    <2>4. b = c /\ k = n BY <2>3 DEF Single
    <2> QED BY <1>8, <2>2, <2>4
  <1>11. \A b \in Addr : \A i \in 1..Len(r[b]) : \A j \in 1..Len(u) : r[b][i] # u[j]
    <2> SUFFICES ASSUME NEW b \in Addr, NEW i \in 1..Len(r[b])
                 PROVE  \A j \in 1..Len(u) : r[b][i] # u[j]
      OBVIOUS
    <2>1. PICK k \in 1..Len(q[b]) : r[b][i] = q[b][k] BY <1>7
    <2> QED BY <2>1 DEF Single
  <1>12. ASSUME NEW o \in Packet
         PROVE  o \in m \ {p} <=>
                   \/ \E b \in Addr : \E i \in 1..Len(r[b]) : r[b][i] = o
                   \/ \E j \in 1..Len(u) : u[j] = o
    <2>1. ASSUME o \in m, o # p, NEW b \in Addr, NEW i \in 1..Len(q[b]), q[b][i] = o
          PROVE  \E c \in Addr : \E k \in 1..Len(r[c]) : r[c][k] = o
      <3>1. CASE b = a
        <4>1. i # 1 BY <1>3, <2>1, <3>1
        <4> QED BY <1>2, <2>1, <3>1, <4>1
      <3>2. CASE b # a BY <1>1, <2>1, <3>2
      <3> QED BY <3>1, <3>2
    <2>2. ASSUME NEW b \in Addr, NEW i \in 1..Len(r[b]), r[b][i] = o
          PROVE  o \in m \ {p}
      <3>1. PICK k \in 1..Len(q[b]) : r[b][i] = q[b][k] BY <1>7
      <3>2. o # p BY <1>9, <2>2
      <3>3. o \in m BY <2>2, <3>1 DEF Single
      <3> QED BY <3>2, <3>3
    <2>3. ASSUME NEW j \in 1..Len(u), u[j] = o PROVE o \in m \ {p}
      BY <1>5, <2>3 DEF Single
    <2> QED BY <2>1, <2>2, <2>3 DEF Single
  <1>13. Single(r, u, m \ {p}) BY <1>10, <1>11, <1>12 DEF Single
  <1>14. \A b \in Addr : \A i \in 1..Len(r[b]) :
            \E j \in 1..Len(q[b]) : r[b][i] = q[b][j]
    BY <1>7
  <1>15. Left(q, u, m, r, u, p) BY <1>5, <1>6, <1>9, <1>13, <1>14 DEF Left
  <1> QED BY <1>15, <1>a

(* or from the front of the ring, *)
LEMMA SingleFree ==
  ASSUME NEW q \in [Addr -> Seq(Packet)], NEW u \in Seq(Packet),
         NEW m \in SUBSET Packet, Single(q, u, m), u # <<>>
  PROVE  Left(q, u, m, q, Tail(u), Head(u))
  <1> DEFINE v == Tail(u)
             p == Head(u)
  <1>1. /\ Len(u) \in Nat \ {0} /\ p = u[1] /\ p \in Packet
        /\ \A i \in 1..Len(v) : i + 1 \in 1..Len(u) /\ v[i] = u[i + 1]
        /\ \A i \in 1..Len(u) : i # 1 =>
              i - 1 \in 1..Len(v) /\ v[i - 1] = u[i]
    BY TailIndex
  <1>2. 1 \in 1..Len(u) /\ u[1] = p BY <1>1
  <1> HIDE DEF v, p
  <1>3. \A i \in 1..Len(u) : u[i] = p => i = 1 BY <1>2 DEF Single
  <1>4. \A a \in Addr : \A i \in 1..Len(q[a]) : q[a][i] # p BY <1>2 DEF Single
  <1>5. p \in m BY <1>1, <1>2 DEF Single
  <1>6. \A j \in 1..Len(v) : v[j] # p
    <2>1. \A j \in 1..Len(v) : j + 1 # 1 OBVIOUS
    <2> QED BY <1>1, <1>3, <2>1
  <1>7. \A i, j \in 1..Len(v) : v[i] = v[j] => i = j
    <2> SUFFICES ASSUME NEW i \in 1..Len(v), NEW j \in 1..Len(v), v[i] = v[j]
                 PROVE  i = j
      OBVIOUS
    <2>1. i + 1 = j + 1 BY <1>1 DEF Single
    <2> QED BY <2>1
  <1>8. \A a \in Addr : \A i \in 1..Len(q[a]) : \A j \in 1..Len(v) : q[a][i] # v[j]
    BY <1>1 DEF Single
  <1>9. ASSUME NEW o \in Packet
        PROVE  o \in m \ {p} <=>
                  \/ \E b \in Addr : \E i \in 1..Len(q[b]) : q[b][i] = o
                  \/ \E j \in 1..Len(v) : v[j] = o
    <2>1. ASSUME o # p, NEW i \in 1..Len(u), u[i] = o
          PROVE  \E j \in 1..Len(v) : v[j] = o
      <3>1. i # 1 BY <1>2, <2>1
      <3> QED BY <1>1, <2>1, <3>1
    <2>2. ASSUME NEW b \in Addr, NEW i \in 1..Len(q[b]), q[b][i] = o
          PROVE  o \in m \ {p}
      BY <1>4, <2>2 DEF Single
    <2>3. ASSUME NEW j \in 1..Len(v), v[j] = o PROVE o \in m \ {p}
      BY <1>1, <1>6, <2>3 DEF Single
    <2> QED BY <2>1, <2>2, <2>3 DEF Single
  <1>10. Single(q, v, m \ {p}) BY <1>7, <1>8, <1>9 DEF Single
  <1>11. \A i \in 1..Len(v) : \E j \in 1..Len(u) : v[i] = u[j] BY <1>1
  <1>12. Left(q, u, m, q, v, p) BY <1>4, <1>5, <1>6, <1>10, <1>11 DEF Left
  <1> QED BY <1>12 DEF v, p

(* or put at the end of the ring, after it left every queue. *)
LEMMA SingleSent ==
  ASSUME NEW q \in [Addr -> Seq(Packet)], NEW u \in Seq(Packet),
         NEW m \in SUBSET Packet, NEW p \in Packet, p \notin m, Single(q, u, m)
  PROVE  Single(q, Append(u, p), m \cup {p})
  <1> DEFINE v == Append(u, p)
             n == Len(u) + 1
  <1>1. /\ Len(v) = n /\ Len(u) \in Nat /\ v[n] = p
        /\ \A i \in 1..Len(u) : v[i] = u[i]
    BY AppendIndex
  <1>2. /\ n \in 1..Len(v)
        /\ \A i \in 1..Len(u) : i \in 1..Len(v) /\ v[i] = u[i]
        /\ \A i \in 1..Len(v) : i = n \/ i \in 1..Len(u)
    BY <1>1
  <1>3. v[n] = p BY <1>1
  <1> HIDE DEF v, n
  <1>4. \A a \in Addr : \A i \in 1..Len(q[a]) : q[a][i] # p BY DEF Single
  <1>5. \A j \in 1..Len(u) : u[j] # p BY DEF Single
  <1>6. \A i, j \in 1..Len(v) : v[i] = v[j] => i = j
    BY <1>2, <1>3, <1>5 DEF Single
  <1>7. \A a \in Addr : \A i \in 1..Len(q[a]) : \A j \in 1..Len(v) : q[a][i] # v[j]
    BY <1>2, <1>3, <1>4 DEF Single
  <1>8. ASSUME NEW o \in Packet
        PROVE  o \in m \cup {p} <=>
                  \/ \E b \in Addr : \E i \in 1..Len(q[b]) : q[b][i] = o
                  \/ \E j \in 1..Len(v) : v[j] = o
    BY <1>2, <1>3 DEF Single
  <1> QED BY <1>6, <1>7, <1>8 DEF Single, v
------------------------------------------------------------------------------
(* The ring is advanced after unused neighbors are gone, which takes only  *)
(* these calls; a packet is added by the last call.                        *)
FreeCalls == {"release", "remove_nbr", "flush", "free_unused"}

Getting(s) == \E i \in 1..Len(s) : s[i][1] = "dequeued_get"

Form(s) ==
    \A i \in 1..Len(s) :
        /\ s[i][1] = "dequeued_get" => \A j \in 1..(i - 1) : s[j][1] \in FreeCalls
        /\ s[i][1] = "add_packet" => i = Len(s)

(* The packets that are going to be added have not been seen before. *)
AddsNew(s) ==
    \A i \in 1..Len(s) : s[i][1] = "add_packet" => outcome[s[i][2]] = "new"

Packets ==
    /\ packet_memb \subseteq Packet
    /\ transmissions \in [Packet -> 0..255]
    /\ ret \in [Packet -> {"OK", "DEFERRED"} \cup Failures]
    /\ outcome \in [Packet -> {"new", "queued", "OK", "ERR"} \cup Failures]
    /\ Len(dequeued) < DequeuedSize

(* How often a packet was sent, and what its callback is told. *)
Attempts ==
    /\ \A p \in Packet : /\ (p \in packet_memb) = (outcome[p] = "queued")
                         /\ p \notin packet_memb => transmissions[p] = 0
                         /\ transmissions[p] <= MaxTx[p]
    /\ \A a \in Addr : \A i \in 1..Len(queue[a]) :
         transmissions[queue[a][i]] < MaxTx[queue[a][i]]
    /\ \A j \in 1..Len(Undelivered) : ret[Undelivered[j]] \in {"OK"} \cup Failures

Pending ==
    /\ Form(todo) /\ AddsNew(todo)
    /\ Getting(todo) => dequeued # <<>>

PacketInv ==
    Packets /\ Attempts /\ Pending /\ Single(queue, Undelivered, packet_memb)

LEMMA FormTail ==
  ASSUME NEW s \in Seq(Calls), s # <<>>, Form(s)
  PROVE  /\ Form(Tail(s))
         /\ Head(s)[1] # "dequeued_get" => (Getting(Tail(s)) <=> Getting(s))
         /\ Head(s)[1] \notin FreeCalls => ~ Getting(Tail(s))
         /\ AddsNew(s) => AddsNew(Tail(s))
  <1>1. /\ Tail(s) \in Seq(Calls) /\ Len(Tail(s)) = Len(s) - 1 /\ Head(s) = s[1]
        /\ Len(s) \in Nat \ {0}
    BY TailIndex
  <1>2. \A i \in 1..Len(Tail(s)) : i + 1 \in 1..Len(s) /\ Tail(s)[i] = s[i + 1]
    BY TailIndex
  <1>3. \A i \in 1..Len(s) : i # 1 =>
           i - 1 \in 1..Len(Tail(s)) /\ Tail(s)[i - 1] = s[i]
    BY TailIndex
  <1> DEFINE r == Tail(s)
  <1> HIDE DEF r
  <1>4. ASSUME NEW i \in 1..Len(r)
        PROVE  /\ r[i][1] = "dequeued_get" => \A j \in 1..(i - 1) : r[j][1] \in FreeCalls
               /\ r[i][1] = "dequeued_get" => s[1][1] \in FreeCalls
               /\ r[i][1] = "add_packet" => i = Len(r)
    <2>1. i + 1 \in 1..Len(s) /\ r[i] = s[i + 1] /\ i \in Nat \ {0} BY <1>2 DEF r
    <2>2. PICK k : k = i + 1 OBVIOUS
    <2>3. k \in 1..Len(s) /\ r[i] = s[k] BY <2>1, <2>2
    <2>4. ASSUME r[i][1] = "dequeued_get"
          PROVE  /\ s[1][1] \in FreeCalls
                 /\ \A j \in 1..(i - 1) : r[j][1] \in FreeCalls
      <3>1. \A j \in 1..(k - 1) : s[j][1] \in FreeCalls BY <2>3, <2>4 DEF Form
      <3>2. 1 \in 1..(k - 1) BY <2>1, <2>2
      <3>3. \A j \in 1..(i - 1) : j + 1 \in 1..(k - 1) /\ j \in 1..Len(r)
        BY <2>1, <2>2, <1>1 DEF r
      <3> QED BY <1>2, <3>1, <3>2, <3>3 DEF r
    <2>5. ASSUME r[i][1] = "add_packet" PROVE i = Len(r)
      <3>1. k = Len(s) BY <2>3, <2>5 DEF Form
      <3>2. Len(r) = Len(s) - 1 BY <1>1 DEF r
      <3>3. Len(s) \in Nat /\ i \in Nat BY <1>1, <2>1
      <3>4. i + 1 = Len(s) BY <2>2, <3>1
      <3> QED BY <3>2, <3>3, <3>4
    <2> QED BY <2>4, <2>5
  <1>5. Form(r) BY <1>4 DEF Form
  <1>6. Getting(r) => Getting(s) BY <1>2 DEF Getting, r
  <1>7. ASSUME Head(s)[1] # "dequeued_get", Getting(s) PROVE Getting(r)
    <2>1. PICK i \in 1..Len(s) : s[i][1] = "dequeued_get" BY <1>7 DEF Getting
    <2>2. i # 1 BY <1>1, <1>7, <2>1
    <2> QED BY <1>3, <2>1, <2>2 DEF Getting, r
  <1>8. Head(s)[1] \notin FreeCalls => ~ Getting(r) BY <1>1, <1>4 DEF Getting
  <1>9. AddsNew(s) => AddsNew(r) BY <1>2 DEF AddsNew, r
  <1> QED BY <1>5, <1>6, <1>7, <1>8, <1>9 DEF r

(* A call asks for the calls x, which do not end the turn of a packet. *)
LEMMA FormPush ==
  ASSUME NEW s \in Seq(Calls), s # <<>>, Form(s), Head(s)[1] # "dequeued_get",
         NEW x \in Seq(Calls),
         \A i \in 1..Len(x) :
            x[i][1] \in FreeCalls \/ (Head(s)[1] \notin FreeCalls
                                      /\ x[i][1] \notin {"dequeued_get", "add_packet"})
  PROVE  /\ Form(x \o Tail(s))
         /\ Getting(x \o Tail(s)) <=> Getting(s)
         /\ AddsNew(s) => AddsNew(x \o Tail(s))
  <1>1. PICK r : r = Tail(s) OBVIOUS
  <1>2. r \in Seq(Calls) /\ Form(r) /\ (Getting(r) <=> Getting(s))
    BY <1>1, FormTail, TailIndex
  <1>3. (Head(s)[1] \notin FreeCalls => ~ Getting(r)) /\ (AddsNew(s) => AddsNew(r))
    BY <1>1, FormTail
  <1>4. PICK y : y = x \o r OBVIOUS
  <1>5. y \in Seq(Calls) /\ Len(y) = Len(x) + Len(r) BY <1>2, <1>4, Joined
  <1>6. \A i \in 1..Len(x) : y[i] = x[i] BY <1>2, <1>4, Joined
  <1>7. \A i \in 1..Len(y) : i > Len(x) =>
           i - Len(x) \in 1..Len(r) /\ y[i] = r[i - Len(x)]
    BY <1>2, <1>4, Joined
  <1>8. Len(x) \in Nat /\ Len(r) \in Nat BY <1>2
  <1>9. \A i \in 1..Len(y) : i \in 1..Len(x) \/ i > Len(x) BY <1>5, <1>8
  <1>10. \A i \in 1..Len(r) : i + Len(x) \in 1..Len(y) /\ y[i + Len(x)] = r[i]
    <2> SUFFICES ASSUME NEW i \in 1..Len(r)
                 PROVE  i + Len(x) \in 1..Len(y) /\ y[i + Len(x)] = r[i]
      OBVIOUS
    <2>1. PICK k : k = i + Len(x) OBVIOUS
    <2>2. k \in 1..Len(y) /\ k > Len(x) /\ k - Len(x) = i BY <1>5, <1>8, <2>1
    <2> QED BY <1>7, <2>1, <2>2
  <1>11. \A i \in 1..Len(x) : y[i][1] \notin {"dequeued_get", "add_packet"}
    BY <1>6 DEF FreeCalls
  <1>12. Getting(y) <=> Getting(r)
    <2>1. ASSUME Getting(y) PROVE Getting(r)
      <3>1. PICK i \in 1..Len(y) : y[i][1] = "dequeued_get" BY <2>1 DEF Getting
      <3>2. i > Len(x) BY <1>9, <1>11, <3>1
      <3> QED BY <1>7, <3>1, <3>2 DEF Getting
    <2>2. ASSUME Getting(r) PROVE Getting(y) BY <1>10, <2>2 DEF Getting
    <2> QED BY <2>1, <2>2
  <1>13. ASSUME NEW i \in 1..Len(y), y[i][1] = "dequeued_get",
                NEW j \in 1..(i - 1)
         PROVE  y[j][1] \in FreeCalls
    <2>1. PICK k : k = i - Len(x) OBVIOUS
    <2>2. i > Len(x) BY <1>9, <1>11, <1>13
    <2>3. k \in 1..Len(r) /\ y[i] = r[k] BY <1>7, <2>1, <2>2
    <2>4. Getting(r) BY <1>13, <2>3 DEF Getting
    <2>5. Head(s)[1] \in FreeCalls BY <1>3, <2>4
    <2>6. CASE j \in 1..Len(x) BY <1>6, <2>5, <2>6
    <2>7. CASE j > Len(x)
      <3>1. PICK n : n = j - Len(x) OBVIOUS
      <3>2. j \in 1..Len(y) /\ n \in 1..(k - 1)
        BY <1>5, <1>8, <2>1, <2>2, <2>7, <3>1
      <3>3. y[j] = r[n] BY <1>7, <2>7, <3>1, <3>2
      <3> QED BY <1>2, <1>13, <2>3, <3>2, <3>3 DEF Form
    <2> QED BY <1>8, <2>6, <2>7
  <1>14. ASSUME NEW i \in 1..Len(y), y[i][1] = "add_packet" PROVE i = Len(y)
    <2>1. PICK k : k = i - Len(x) OBVIOUS
    <2>2. i > Len(x) BY <1>9, <1>11, <1>14
    <2>3. k \in 1..Len(r) /\ y[i] = r[k] BY <1>7, <2>1, <2>2
    <2>4. k = Len(r) BY <1>2, <1>14, <2>3 DEF Form
    <2> QED BY <1>5, <1>8, <2>1, <2>4
  <1>15. AddsNew(r) => AddsNew(y)
    <2> SUFFICES ASSUME AddsNew(r), NEW i \in 1..Len(y), y[i][1] = "add_packet"
                 PROVE  outcome[y[i][2]] = "new"
      BY DEF AddsNew
    <2>1. i > Len(x) BY <1>9, <1>11
    <2> QED BY <1>7, <2>1 DEF AddsNew
  <1>16. Form(y) BY <1>13, <1>14 DEF Form
  <1> QED BY <1>1, <1>2, <1>3, <1>4, <1>12, <1>15, <1>16

(* What is still to be given back. *)
LEMMA UndeliveredIs ==
  ASSUME todo \in Seq(Calls)
  PROVE  Undelivered = IF Getting(todo) THEN Tail(dequeued) ELSE dequeued
  <1>1. DOMAIN todo = 1..Len(todo) OBVIOUS
  <1> QED BY <1>1 DEF Undelivered, Getting

(* A step that leaves the packets alone. *)
LEMMA PacketsKept ==
  ASSUME PacketInv, UNCHANGED packetVars, todo \in Seq(Calls), todo' \in Seq(Calls),
         Form(todo'), AddsNew(todo'), Getting(todo') <=> Getting(todo)
  PROVE  PacketInv'
  <1>1. Undelivered = IF Getting(todo) THEN Tail(dequeued) ELSE dequeued
    BY UndeliveredIs
  <1>2. Undelivered' = IF Getting(todo') THEN Tail(dequeued') ELSE dequeued'
    <2>1. DOMAIN todo' = 1..Len(todo') OBVIOUS
    <2> QED BY <2>1 DEF Undelivered, Getting
  <1>3. Undelivered' = Undelivered BY <1>1, <1>2 DEF packetVars
  <1>4. Form(todo)' /\ AddsNew(todo)' /\ (Getting(todo)' <=> Getting(todo))
    BY DEF Form, AddsNew, Getting, packetVars
  <1>5. Pending' BY <1>4 DEF PacketInv, Pending, packetVars
  <1>6. Packets' BY DEF PacketInv, Packets, packetVars
  <1>7. Attempts' BY <1>3 DEF PacketInv, Attempts, packetVars
  <1>8. Single(queue, Undelivered, packet_memb)'
    BY <1>3 DEF PacketInv, Single, packetVars
  <1> QED BY <1>5, <1>6, <1>7, <1>8 DEF PacketInv
LEMMA TodoTyped == ASSUME IInv PROVE todo \in Seq(Calls)
  BY DEF IInv, TodoInv, Shape

LEMMA TodoTypedNext == ASSUME IInv' PROVE todo' \in Seq(Calls)
  BY DEF IInv, TodoInv, Shape

LEMMA PacketsSame ==
  ASSUME IInv, PacketInv, UNCHANGED packetVars, todo' = todo
  PROVE  PacketInv'
  <1>1. Form(todo') /\ AddsNew(todo') /\ (Getting(todo') <=> Getting(todo))
    BY DEF PacketInv, Pending
  <1> QED BY <1>1, TodoTyped, PacketsKept

LEMMA PacketsReturn ==
  ASSUME IInv, IInv', PacketInv, UNCHANGED packetVars, todo # <<>>,
         Head(todo)[1] # "dequeued_get", Return
  PROVE  PacketInv'
  <1>1. todo' = Tail(todo) /\ Form(todo) /\ AddsNew(todo)
    BY DEF Return, PacketInv, Pending
  <1>2. Form(todo') /\ AddsNew(todo') /\ (Getting(todo') <=> Getting(todo))
    BY <1>1, TodoTyped, FormTail
  <1> QED BY <1>2, TodoTyped, TodoTypedNext, PacketsKept

LEMMA PacketsPush ==
  ASSUME IInv, IInv', PacketInv, UNCHANGED packetVars, todo # <<>>,
         Head(todo)[1] # "dequeued_get", NEW x \in Seq(Calls), ReturnTo(x),
         \A i \in 1..Len(x) :
            x[i][1] \in FreeCalls \/ (Head(todo)[1] \notin FreeCalls
                                      /\ x[i][1] \notin {"dequeued_get", "add_packet"})
  PROVE  PacketInv'
  <1>1. todo' = x \o Tail(todo) /\ Form(todo) /\ AddsNew(todo)
    BY DEF ReturnTo, PacketInv, Pending
  <1>2. Form(todo') /\ AddsNew(todo') /\ (Getting(todo') <=> Getting(todo))
    BY <1>1, TodoTyped, FormPush
  <1> QED BY <1>2, TodoTyped, TodoTypedNext, PacketsKept

(* Calls that have nothing to do with packets. *)
Other == {c \in Calls : c[1] \notin {"dequeued_get", "add_packet"}}

LEMMA OtherCalls ==
  /\ \A a \in Addr : /\ <<"add_nbr", a>> \in Other /\ <<"remove_nbr", a>> \in Other
                      /\ <<"count_up", a>> \in Other /\ <<"count_down", a>> \in Other
                      /\ <<"flush", a>> \in Other
  /\ \A l \in Link : <<"add_link", l>> \in Other /\ <<"remove_link", l>> \in Other
  /\ \A n \in SUBSET Addr : <<"free_unused", n>> \in Other /\ <<"queue_reset", n>> \in Other
  /\ \A a \in Addr \cup {None} : <<"set_source", a>> \in Other /\ <<"associate_done", a>> \in Other
  /\ <<"rx_pending", None>> \in Other /\ <<"tx_pending", None>> \in Other
  /\ <<"remove_all", None>> \in Other /\ <<"reset_done", None>> \in Other
  /\ Release \in Other
  BY DEF Other, Calls, Release

LEMMA PacketsPushOther ==
  ASSUME IInv, IInv', PacketInv, UNCHANGED packetVars, todo # <<>>,
         Head(todo)[1] \notin FreeCalls \cup {"dequeued_get"},
         NEW x \in Seq(Other), ReturnTo(x)
  PROVE  PacketInv'
  <1>1. x \in Seq(Calls) /\ \A i \in 1..Len(x) : x[i] \in Other BY DEF Other
  <1>2. \A i \in 1..Len(x) : x[i][1] \notin {"dequeued_get", "add_packet"}
    BY <1>1 DEF Other
  <1> QED BY <1>1, <1>2, PacketsPush

LEMMA PacketsStart ==
  ASSUME IInv, IInv', PacketInv, UNCHANGED packetVars, NEW s \in Seq(Other),
         Start(s)
  PROVE  PacketInv'
  <1>1. todo = <<>> /\ Len(todo) = 0 /\ todo' = s BY DEF Start, Idle
  <1>2. \A i \in 1..Len(s) : s[i] \in Other OBVIOUS
  <1>3. \A i \in 1..Len(s) : s[i][1] \notin {"dequeued_get", "add_packet"}
    BY <1>2 DEF Other
  <1>4. Form(todo') /\ AddsNew(todo') /\ ~ Getting(todo') /\ ~ Getting(todo)
    BY <1>1, <1>3 DEF Form, AddsNew, Getting
  <1> QED BY <1>4, TodoTyped, TodoTypedNext, PacketsKept

(* The calls that do not touch a packet. *)
LEMMA QuietCalls ==
  ASSUME IInv, IInv', PacketInv,
         \/ Lock \/ add_nbr_known \/ tsch_queue_add_nbr
         \/ tsch_queue_remove_nbr \/ tsch_queue_reset
         \/ tsch_queue_free_unused_neighbors \/ count_links
         \/ tsch_schedule_add_link \/ tsch_schedule_remove_link
         \/ tsch_schedule_remove_all \/ tsch_queue_update_time_source
         \/ tsch_rx_process_pending \/ reset_done \/ associate_done
  PROVE  PacketInv'
  <1> USE DEF Doing
  <1>0. todo # <<>> => Head(todo) \in Calls BY HeadCall
  <1>1. CASE get_lock_request \/ get_lock_take \/ get_lock_return
    BY <1>1, PacketsSame DEF get_lock_request, get_lock_take, get_lock_return
  <1>2. CASE \/ tsch_release_lock \/ add_nbr_known \/ count_links \/ reset_done
             \/ associate_done \/ tsch_queue_update_time_source
    <2>1. /\ todo # <<>> /\ Return /\ UNCHANGED packetVars
          /\ Head(todo)[1] # "dequeued_get"
      BY <1>2 DEF tsch_release_lock, add_nbr_known, count_links, reset_done,
                  associate_done, tsch_queue_update_time_source
    <2> QED BY <2>1, PacketsReturn
  <1>3. CASE tsch_rx_process_pending
    <2>1. /\ todo # <<>> /\ (Return \/ todo' = todo)
          /\ Head(todo)[1] # "dequeued_get" /\ UNCHANGED packetVars
      BY <1>3 DEF tsch_rx_process_pending
    <2> QED BY <2>1, PacketsReturn, PacketsSame
  <1>4. CASE tsch_queue_add_nbr
    <2>1. /\ todo # <<>> /\ Head(todo)[1] = "add_nbr" /\ UNCHANGED packetVars
          /\ ReturnTo(<<Release>>)
      BY <1>4 DEF tsch_queue_add_nbr
    <2>2. <<Release>> \in Seq(Other) BY OtherCalls
    <2> QED BY <2>1, <2>2, PacketsPushOther DEF FreeCalls
  <1>5. CASE tsch_queue_remove_nbr
    <2>1. /\ todo # <<>> /\ Head(todo)[1] = "remove_nbr" /\ UNCHANGED packetVars
          /\ ReturnTo(<<Release, <<"flush", Arg>>>>)
      BY <1>5 DEF tsch_queue_remove_nbr
    <2>2. Arg \in Addr BY <1>0, <2>1, CallArg DEF Arg
    <2>3. PICK x : x = <<Release, <<"flush", Arg>>>> OBVIOUS
    <2>4. Release \in Calls /\ <<"flush", Arg>> \in Calls
      BY <2>2, OtherCalls DEF Other
    <2>5. x \in Seq(Calls) /\ Len(x) = 2 BY <2>3, <2>4
    <2>6. x[1][1] = "release" /\ x[2][1] = "flush" BY <2>3 DEF Release
    <2>7. \A i \in 1..Len(x) : i = 1 \/ i = 2 BY <2>5
    <2>8. \A i \in 1..Len(x) : x[i][1] \in FreeCalls
      BY <2>6, <2>7 DEF FreeCalls
    <2> QED BY <2>1, <2>3, <2>5, <2>8, PacketsPush
  <1>6. CASE tsch_queue_free_unused_neighbors
    <2>1. /\ todo # <<>> /\ Head(todo)[1] = "free_unused" /\ UNCHANGED packetVars
          /\ \/ \E a \in Arg :
                 ReturnTo(<<<<"remove_nbr", a>>, <<"free_unused", Arg \ {a}>>>>)
             \/ Return
      BY <1>6 DEF tsch_queue_free_unused_neighbors
    <2>2. Arg \subseteq Addr BY <1>0, <2>1, CallArg DEF Arg
    <2>3. ASSUME NEW a \in Arg,
                 ReturnTo(<<<<"remove_nbr", a>>, <<"free_unused", Arg \ {a}>>>>)
          PROVE  PacketInv'
      <3>1. PICK x : x = <<<<"remove_nbr", a>>, <<"free_unused", Arg \ {a}>>>> OBVIOUS
      <3>2. <<"remove_nbr", a>> \in Calls /\ <<"free_unused", Arg \ {a}>> \in Calls
        BY <2>2, OtherCalls DEF Other
      <3>3. x \in Seq(Calls) /\ Len(x) = 2 BY <3>1, <3>2
      <3>4. x[1][1] = "remove_nbr" /\ x[2][1] = "free_unused" BY <3>1
      <3>5. \A i \in 1..Len(x) : i = 1 \/ i = 2 BY <3>3
      <3>6. \A i \in 1..Len(x) : x[i][1] \in FreeCalls
        BY <3>4, <3>5 DEF FreeCalls
      <3> QED BY <2>1, <2>3, <3>1, <3>3, <3>6, PacketsPush
    <2>4. CASE Return BY <2>1, <2>4, PacketsReturn
    <2> QED BY <2>1, <2>3, <2>4
  <1>7. CASE tsch_queue_reset
    <2>1. /\ todo # <<>> /\ Head(todo)[1] = "queue_reset" /\ UNCHANGED packetVars
          /\ \/ \E a \in Arg :
                 ReturnTo(<<<<"flush", a>>, <<"queue_reset", Arg \ {a}>>>>)
             \/ Return
      BY <1>7 DEF tsch_queue_reset
    <2>2. Arg \subseteq Addr BY <1>0, <2>1, CallArg DEF Arg
    <2>3. ASSUME NEW a \in Arg,
                 ReturnTo(<<<<"flush", a>>, <<"queue_reset", Arg \ {a}>>>>)
          PROVE  PacketInv'
      <3>1. <<"flush", a>> \in Other /\ <<"queue_reset", Arg \ {a}>> \in Other
        BY <2>2, OtherCalls
      <3>2. <<<<"flush", a>>, <<"queue_reset", Arg \ {a}>>>> \in Seq(Other) BY <3>1
      <3> QED BY <2>1, <2>3, <3>2, PacketsPushOther DEF FreeCalls
    <2>4. CASE Return BY <2>1, <2>4, PacketsReturn
    <2> QED BY <2>1, <2>3, <2>4
  <1>8. ASSUME NEW l \in Link, NEW op \in {"count_up", "count_down"}
        PROVE  <<Release>> \o Counted(l, op) \in Seq(Other)
    <2>1. LinkAddr[l] \in Addr BY TschAssumption
    <2>2. <<"add_nbr", LinkAddr[l]>> \in Other /\ <<op, LinkAddr[l]>> \in Other
      BY <2>1, OtherCalls
    <2>3. Counted(l, op) \in Seq(Other) BY <2>2 DEF Counted
    <2>4. <<Release>> \in Seq(Other) BY OtherCalls
    <2> QED BY <2>3, <2>4
  <1>9. CASE tsch_schedule_add_link \/ tsch_schedule_remove_link
    <2>1. /\ todo # <<>> /\ Head(todo)[1] \in {"add_link", "remove_link"}
          /\ UNCHANGED packetVars
          /\ \/ ReturnTo(<<Release>> \o Counted(Arg, "count_up"))
             \/ ReturnTo(<<Release>> \o Counted(Arg, "count_down"))
             \/ ReturnTo(<<Release>>)
      BY <1>9 DEF tsch_schedule_add_link, tsch_schedule_remove_link
    <2>2. Arg \in Link BY <1>0, <2>1, CallArg DEF Arg
    <2>3. <<Release>> \in Seq(Other) BY OtherCalls
    <2>4. PICK x \in Seq(Other) : ReturnTo(x) BY <1>8, <2>1, <2>2, <2>3
    <2> QED BY <2>1, <2>4, PacketsPushOther DEF FreeCalls
  <1>10. CASE tsch_schedule_remove_all
    <2>1. /\ todo # <<>> /\ Head(todo)[1] = "remove_all" /\ UNCHANGED packetVars
          /\ \/ \E l \in links : ReturnTo(<<<<"remove_link", l>>, Head(todo)>>)
             \/ Return
      BY <1>10 DEF tsch_schedule_remove_all
    <2>2. ASSUME NEW l \in links, ReturnTo(<<<<"remove_link", l>>, Head(todo)>>)
          PROVE  PacketInv'
      <3>1. <<"remove_link", l>> \in Other BY OtherCalls DEF IInv, Types
      <3>2. Head(todo) \in Other BY <1>0, <2>1 DEF Other
      <3>3. <<<<"remove_link", l>>, Head(todo)>> \in Seq(Other) BY <3>1, <3>2
      <3> QED BY <2>1, <2>2, <3>3, PacketsPushOther DEF FreeCalls
    <2>3. CASE Return BY <2>1, <2>3, PacketsReturn
    <2> QED BY <2>1, <2>2, <2>3
  <1> QED BY <1>1, <1>2, <1>3, <1>4, <1>5, <1>6, <1>7, <1>9, <1>10 DEF Lock
(* What is in the ring, before and after a step. *)
LEMMA UndeliveredTyped ==
  ASSUME IInv, PacketInv PROVE Undelivered \in Seq(Packet)
  <1>1. dequeued \in Seq(Packet) /\ (Getting(todo) => dequeued # <<>>)
    BY DEF IInv, Types, PacketInv, Pending
  <1>2. Getting(todo) => Tail(dequeued) \in Seq(Packet) BY <1>1
  <1> QED BY <1>1, <1>2, TodoTyped, UndeliveredIs

LEMMA UndeliveredNext ==
  ASSUME IInv'
  PROVE  Undelivered' = IF Getting(todo') THEN Tail(dequeued') ELSE dequeued'
  <1>1. todo' \in Seq(Calls) BY TodoTypedNext
  <1>2. DOMAIN todo' = 1..Len(todo') BY <1>1
  <1> QED BY <1>2 DEF Undelivered, Getting

LEMMA PacketFacts ==
  ASSUME PacketInv
  PROVE  /\ packet_memb \subseteq Packet
         /\ transmissions \in [Packet -> 0..255]
         /\ ret \in [Packet -> {"OK", "DEFERRED"} \cup Failures]
         /\ outcome \in [Packet -> {"new", "queued", "OK", "ERR"} \cup Failures]
         /\ Len(dequeued) < DequeuedSize
         /\ Single(queue, Undelivered, packet_memb)
         /\ Form(todo) /\ AddsNew(todo)
  BY DEF PacketInv, Packets, Pending

LEMMA StatusNames ==
  \A o \in {"OK", "ERR"} \cup Failures : o # "queued" /\ o # "new" /\ o # "DEFERRED"
  BY TschAssumption

LEMMA Budget == \A p \in Packet : MaxTx[p] \in 1..255 /\ 0 <= MaxTx[p]
  <1>1. \A p \in Packet : MaxTx[p] \in 1..255 BY TschAssumption
  <1>2. \A n \in 1..255 : 0 <= n OBVIOUS
  <1> QED BY <1>1, <1>2

LEMMA NextAttempt ==
  ASSUME NEW n \in 0..255, NEW m \in 1..255, n < m, NEW t, t = n + 1
  PROVE  t \in 1..255 /\ t <= m /\ (~ (t >= m) => t < m)
  OBVIOUS

(* The packet p is given back and freed. *)
LEMMA FreeOne ==
  ASSUME IInv, PacketInv, NEW p, NEW o \in {"OK", "ERR"} \cup Failures,
         outcome' = [outcome EXCEPT ![p] = o], tsch_queue_free_packet(p),
         Left(queue, Undelivered, packet_memb, queue', Undelivered', p)
  PROVE  /\ packet_memb' \subseteq Packet
         /\ transmissions' \in [Packet -> 0..255]
         /\ ret' \in [Packet -> {"OK", "DEFERRED"} \cup Failures]
         /\ outcome' \in [Packet -> {"new", "queued", "OK", "ERR"} \cup Failures]
         /\ Attempts'
         /\ Single(queue, Undelivered, packet_memb)'
         /\ \A r \in Packet : outcome[r] = "new" => outcome'[r] = "new"
  <1>0. p \in packet_memb BY DEF Left
  <1>1. p \in Packet BY <1>0, PacketFacts
  <1>2. /\ packet_memb' = packet_memb \ {p}
        /\ transmissions' = [transmissions EXCEPT ![p] = 0]
        /\ ret' = [ret EXCEPT ![p] = "DEFERRED"]
    BY DEF tsch_queue_free_packet
  <1>3. /\ packet_memb' \subseteq Packet
        /\ transmissions' \in [Packet -> 0..255]
        /\ ret' \in [Packet -> {"OK", "DEFERRED"} \cup Failures]
        /\ outcome' \in [Packet -> {"new", "queued", "OK", "ERR"} \cup Failures]
    <2>1. packet_memb' \subseteq Packet BY <1>2, PacketFacts
    <2>2. transmissions' \in [Packet -> 0..255]
      <3>1. transmissions \in [Packet -> 0..255] BY PacketFacts
      <3>2. 0 \in 0..255 OBVIOUS
      <3> QED BY <1>2, <3>1, <3>2, Zenon
    <2>3. ret' \in [Packet -> {"OK", "DEFERRED"} \cup Failures] BY <1>2, PacketFacts
    <2>4. outcome' \in [Packet -> {"new", "queued", "OK", "ERR"} \cup Failures]
      BY PacketFacts
    <2> QED BY <2>1, <2>2, <2>3, <2>4
  <1>4. \A r \in Packet : r # p =>
           /\ transmissions'[r] = transmissions[r] /\ ret'[r] = ret[r]
           /\ outcome'[r] = outcome[r]
    BY <1>2, PacketFacts
  <1>5. transmissions'[p] = 0 /\ outcome'[p] = o BY <1>1, <1>2, PacketFacts
  <1>6. ASSUME NEW r \in Packet
        PROVE  /\ (r \in packet_memb') = (outcome'[r] = "queued")
               /\ r \notin packet_memb' => transmissions'[r] = 0
               /\ transmissions'[r] <= MaxTx[r]
    <2>1. CASE r = p
      <3>1. r \notin packet_memb' BY <1>2, <2>1
      <3>2. outcome'[r] # "queued" BY <1>5, <2>1, StatusNames
      <3>3. transmissions'[r] = 0 BY <1>5, <2>1
      <3>4. 0 <= MaxTx[r] BY Budget
      <3> QED BY <3>1, <3>2, <3>3, <3>4
    <2>2. CASE r # p BY <1>2, <1>4, <2>2 DEF PacketInv, Attempts
    <2> QED BY <2>1, <2>2
  <1>7. ASSUME NEW a \in Addr, NEW i \in 1..Len(queue'[a])
        PROVE  transmissions'[queue'[a][i]] < MaxTx[queue'[a][i]]
    <2>1. PICK j \in 1..Len(queue[a]) : queue'[a][i] = queue[a][j] BY DEF Left
    <2>2. queue[a][j] \in Packet /\ queue[a][j] # p BY <2>1 DEF IInv, Types, Left
    <2>3. transmissions[queue[a][j]] < MaxTx[queue[a][j]]
      BY DEF PacketInv, Attempts
    <2> QED BY <1>4, <2>1, <2>2, <2>3
  <1>8. ASSUME NEW i \in 1..Len(Undelivered')
        PROVE  ret'[Undelivered'[i]] \in {"OK"} \cup Failures
    <2>1. PICK j \in 1..Len(Undelivered) : Undelivered'[i] = Undelivered[j]
      BY DEF Left
    <2>2. Undelivered[j] \in Packet /\ Undelivered[j] # p
      BY <2>1, UndeliveredTyped DEF Left
    <2>3. ret[Undelivered[j]] \in {"OK"} \cup Failures BY DEF PacketInv, Attempts
    <2> QED BY <1>4, <2>1, <2>2, <2>3
  <1>9. Attempts' BY <1>6, <1>7, <1>8 DEF Attempts
  <1>10. \A r \in Packet : outcome[r] = "new" => outcome'[r] = "new"
    BY <1>0, <1>4 DEF PacketInv, Attempts
  <1>11. Single(queue, Undelivered, packet_memb)'
    <2>1. Single(queue', Undelivered', packet_memb') BY <1>2 DEF Left
    <2> QED BY <2>1
  <1> QED BY <1>3, <1>9, <1>10, <1>11

(* The packets that are going to be added are still new. *)
LEMMA StillNew ==
  ASSUME NEW s \in Seq(Calls), AddsNew(s),
         \A r \in Packet : outcome[r] = "new" => outcome'[r] = "new"
  PROVE  \A i \in 1..Len(s) : s[i][1] = "add_packet" => outcome'[s[i][2]] = "new"
  <1>1. \A i \in 1..Len(s) : s[i] \in Calls OBVIOUS
  <1>2. \A i \in 1..Len(s) : s[i][1] = "add_packet" => s[i][2] \in Packet
    BY <1>1, CallArg
  <1> QED BY <1>2 DEF AddsNew

LEMMA FlushPackets ==
  ASSUME IInv, IInv', PacketInv, tsch_queue_flush_nbr_queue PROVE PacketInv'
  <1>1. todo # <<>> /\ Head(todo)[1] = "flush"
    BY DEF tsch_queue_flush_nbr_queue, Doing
  <1>2. CASE Return /\ UNCHANGED packetVars BY <1>1, <1>2, PacketsReturn
  <1>3. CASE /\ queue[Arg] # <<>>
             /\ queue' = [queue EXCEPT ![Arg] = Tail(@)]
             /\ outcome' = [outcome EXCEPT ![Head(queue[Arg])] = "ERR"]
             /\ tsch_queue_free_packet(Head(queue[Arg]))
             /\ UNCHANGED <<todo, dequeued>>
    <2>1. PICK a, p : a = Arg /\ p = Head(queue[Arg]) OBVIOUS
    <2>2. a \in Addr BY <1>1, <2>1, HeadCall, CallArg DEF Arg
    <2>3. /\ queue \in [Addr -> Seq(Packet)] /\ packet_memb \in SUBSET Packet
          /\ Undelivered \in Seq(Packet) /\ queue[a] # <<>>
          /\ Single(queue, Undelivered, packet_memb)
      BY <1>3, <2>1, CurrentLink, PacketFacts, UndeliveredTyped
    <2>4. Left(queue, Undelivered, packet_memb, [queue EXCEPT ![a] = Tail(@)],
               Undelivered, Head(queue[a]))
      BY <2>2, <2>3, SingleTake
    <2>5. Undelivered' = Undelivered
      <3>1. Getting(todo') <=> Getting(todo) BY <1>3
      <3> QED BY <1>3, <3>1, TodoTyped, UndeliveredIs, UndeliveredNext
    <2>6. Left(queue, Undelivered, packet_memb, queue', Undelivered', p)
      BY <1>3, <2>1, <2>4, <2>5
    <2>9. "ERR" \in {"OK", "ERR"} \cup Failures
          /\ outcome' = [outcome EXCEPT ![p] = "ERR"] /\ tsch_queue_free_packet(p)
      BY <1>3, <2>1
    <2>10. /\ packet_memb' \subseteq Packet
           /\ transmissions' \in [Packet -> 0..255]
           /\ ret' \in [Packet -> {"OK", "DEFERRED"} \cup Failures]
           /\ outcome' \in [Packet -> {"new", "queued", "OK", "ERR"} \cup Failures]
           /\ Attempts'
           /\ Single(queue, Undelivered, packet_memb)'
           /\ \A r \in Packet : outcome[r] = "new" => outcome'[r] = "new"
      BY <2>6, <2>9, FreeOne
    <2>11. Packets' BY <1>3, <2>10 DEF PacketInv, Packets
    <2>12. Form(todo)' /\ (Getting(todo)' <=> Getting(todo))
      BY <1>3, PacketFacts DEF Form, Getting
    <2>13. AddsNew(todo)' BY <1>3, <2>10, TodoTyped, StillNew, PacketFacts DEF AddsNew
    <2>14. Pending' BY <1>3, <2>12, <2>13 DEF PacketInv, Pending
    <2> QED BY <2>10, <2>11, <2>14 DEF PacketInv
  <1> QED BY <1>2, <1>3 DEF tsch_queue_flush_nbr_queue

(* The turn of a packet begins: its neighbor list is tidied up first. *)
LEMMA FormTurn ==
  ASSUME NEW s \in Seq(Calls), s # <<>>, Form(s), Head(s)[1] = "tx_pending",
         NEW n \in SUBSET Addr,
         NEW y, y = <<<<"free_unused", n>>, <<"dequeued_get", None>>, Head(s)>> \o Tail(s)
  PROVE  /\ Form(y) /\ Getting(y) /\ ~ Getting(s)
         /\ AddsNew(s) => AddsNew(y)
  <1>1. PICK r : r = Tail(s) OBVIOUS
  <1>2. r \in Seq(Calls) /\ Form(r) /\ ~ Getting(r) /\ ~ Getting(s)
    BY <1>1, FormTail, TailIndex DEF FreeCalls
  <1>3. AddsNew(s) => AddsNew(r) BY <1>1, FormTail
  <1>4. PICK x : x = <<<<"free_unused", n>>, <<"dequeued_get", None>>, Head(s)>> OBVIOUS
  <1>5. Head(s) \in Calls BY TailIndex
  <1>6. <<"free_unused", n>> \in Calls /\ <<"dequeued_get", None>> \in Calls
    BY DEF Calls
  <1>7. x \in Seq(Calls) /\ Len(x) = 3 BY <1>4, <1>5, <1>6
  <1>8. x[1][1] = "free_unused" /\ x[2][1] = "dequeued_get" /\ x[3][1] = "tx_pending"
    BY <1>4
  <1>9. y = x \o r BY <1>1, <1>4
  <1>a. /\ Len(x \o r) = Len(x) + Len(r)
        /\ \A i \in 1..Len(x) : (x \o r)[i] = x[i]
        /\ \A i \in 1..Len(x \o r) : i > Len(x) =>
              i - Len(x) \in 1..Len(r) /\ (x \o r)[i] = r[i - Len(x)]
    BY <1>2, <1>7, Joined
  <1>10. Len(y) = 3 + Len(r) /\ \A i \in 1..3 : y[i] = x[i]
    BY <1>7, <1>9, <1>a
  <1>11. \A i \in 1..Len(y) : i > 3 => i - 3 \in 1..Len(r) /\ y[i] = r[i - 3]
    BY <1>7, <1>9, <1>a
  <1>12. Len(r) \in Nat BY <1>2
  <1>13. 2 \in 1..Len(y) /\ \A i \in 1..Len(y) : i = 1 \/ i = 2 \/ i = 3 \/ i > 3
    BY <1>10, <1>12
  <1>14. y[1][1] = "free_unused" /\ y[2][1] = "dequeued_get" /\ y[3][1] = "tx_pending"
    BY <1>8, <1>10
  <1>15. Getting(y) BY <1>13, <1>14 DEF Getting
  <1>16. ASSUME NEW i \in 1..Len(y)
         PROVE  /\ y[i][1] = "dequeued_get" => \A j \in 1..(i - 1) : y[j][1] \in FreeCalls
                /\ y[i][1] = "add_packet" => i = Len(y)
                /\ y[i][1] = "add_packet" /\ AddsNew(s) => outcome[y[i][2]] = "new"
    <2>1. CASE i = 1 BY <1>14, <2>1
    <2>2. CASE i = 2
      <3>1. \A j \in 1..(i - 1) : j = 1 BY <2>2
      <3> QED BY <1>14, <2>2, <3>1 DEF FreeCalls
    <2>3. CASE i = 3 BY <1>14, <2>3
    <2>4. CASE i > 3
      <3>1. PICK k : k = i - 3 OBVIOUS
      <3>2. k \in 1..Len(r) /\ y[i] = r[k] BY <1>11, <2>4, <3>1
      <3>3. r[k][1] # "dequeued_get" BY <1>2, <3>2 DEF Getting
      <3>4. r[k][1] = "add_packet" => k = Len(r) BY <1>2, <3>2 DEF Form
      <3>5. k = Len(r) => i = Len(y) BY <1>10, <1>12, <3>1
      <3> QED BY <1>3, <3>2, <3>3, <3>4, <3>5 DEF AddsNew
    <2> QED BY <1>13, <2>1, <2>2, <2>3, <2>4
  <1> QED BY <1>2, <1>15, <1>16 DEF Form, AddsNew

LEMMA CallbackPackets ==
  ASSUME IInv, IInv', PacketInv, tsch_tx_process_pending PROVE PacketInv'
  <1>1. todo # <<>> /\ Head(todo)[1] = "tx_pending"
    BY DEF tsch_tx_process_pending, Doing
  <1>2. CASE Return /\ UNCHANGED packetVars BY <1>1, <1>2, PacketsReturn
  <1>3. CASE /\ dequeued # <<>>
             /\ outcome' = [outcome EXCEPT ![Head(dequeued)] = ret[Head(dequeued)]]
             /\ tsch_queue_free_packet(Head(dequeued))
             /\ ReturnTo(<<<<"free_unused", nbrs \cap Unicast>>,
                             <<"dequeued_get", None>>, Head(todo)>>)
             /\ UNCHANGED <<queue, dequeued>>
    <2>1. PICK p, o : p = Head(dequeued) /\ o = ret[p] OBVIOUS
    <2>2. nbrs \cap Unicast \in SUBSET Addr BY DEF IInv, Types
    <2>3. Form(todo') /\ Getting(todo') /\ ~ Getting(todo)
          /\ (AddsNew(todo) => AddsNew(todo'))
      BY <1>1, <1>3, <2>2, TodoTyped, PacketFacts, FormTurn DEF ReturnTo
    <2>4. /\ Undelivered = dequeued /\ Undelivered' = Tail(dequeued)
          /\ dequeued \in Seq(Packet)
      BY <1>3, <2>3, TodoTyped, UndeliveredIs, UndeliveredNext DEF IInv, Types
    <2>5. /\ queue \in [Addr -> Seq(Packet)] /\ packet_memb \in SUBSET Packet
          /\ Single(queue, dequeued, packet_memb)
      BY <2>4, CurrentLink, PacketFacts
    <2>6. Left(queue, dequeued, packet_memb, queue, Tail(dequeued), Head(dequeued))
      BY <1>3, <2>4, <2>5, SingleFree
    <2>7. Left(queue, Undelivered, packet_memb, queue', Undelivered', p)
      BY <1>3, <2>1, <2>4, <2>6
    <2>8. o \in {"OK", "ERR"} \cup Failures
      <3>1. 1 \in 1..Len(dequeued) /\ p = dequeued[1]
        BY <1>3, <2>1, <2>4
      <3>2. ret[dequeued[1]] \in {"OK"} \cup Failures
        BY <2>4, <3>1 DEF PacketInv, Attempts
      <3> QED BY <2>1, <3>1, <3>2
    <2>9. outcome' = [outcome EXCEPT ![p] = o] /\ tsch_queue_free_packet(p)
      BY <1>3, <2>1
    <2>13. /\ packet_memb' \subseteq Packet
           /\ transmissions' \in [Packet -> 0..255]
           /\ ret' \in [Packet -> {"OK", "DEFERRED"} \cup Failures]
           /\ outcome' \in [Packet -> {"new", "queued", "OK", "ERR"} \cup Failures]
           /\ Attempts'
           /\ Single(queue, Undelivered, packet_memb)'
           /\ \A r \in Packet : outcome[r] = "new" => outcome'[r] = "new"
      BY <2>7, <2>8, <2>9, FreeOne
    <2>14. Packets' BY <1>3, <2>13 DEF PacketInv, Packets
    <2>15. AddsNew(todo)'
      <3>1. AddsNew(todo') BY <2>3, PacketFacts
      <3> QED BY <2>13, <3>1, TodoTypedNext, StillNew DEF AddsNew
    <2>16. Form(todo)' BY <2>3 DEF Form
    <2>17. Pending' BY <1>3, <2>15, <2>16 DEF Pending
    <2> QED BY <2>13, <2>14, <2>17 DEF PacketInv
  <1> QED BY <1>2, <1>3 DEF tsch_tx_process_pending
(* The ring is advanced past the packet that was given back. *)
LEMMA GetPackets ==
  ASSUME IInv, IInv', PacketInv, dequeued_get PROVE PacketInv'
  <1>1. /\ todo # <<>> /\ Head(todo)[1] = "dequeued_get" /\ todo' = Tail(todo)
        /\ dequeued' = IF dequeued = <<>> THEN dequeued ELSE Tail(dequeued)
        /\ UNCHANGED <<queue, packet_memb, transmissions, ret, outcome>>
    BY DEF dequeued_get, Doing, Return
  <1>2. /\ Form(todo') /\ ~ Getting(todo') /\ AddsNew(todo')
    BY <1>1, TodoTyped, FormTail, PacketFacts DEF FreeCalls
  <1>3. Getting(todo)
    <2>1. 1 \in 1..Len(todo) /\ Head(todo) = todo[1] BY <1>1, TodoTyped
    <2> QED BY <1>1, <2>1 DEF Getting
  <1>4. dequeued # <<>> BY <1>3 DEF PacketInv, Pending
  <1>5. Undelivered = Tail(dequeued) /\ Undelivered' = Tail(dequeued)
    BY <1>1, <1>2, <1>3, <1>4, TodoTyped, UndeliveredIs, UndeliveredNext
  <1>6. Len(dequeued') < DequeuedSize
    <2>1. Len(dequeued') = Len(dequeued) - 1 /\ Len(dequeued) \in Nat
      BY <1>1, <1>4, CurrentLink
    <2> QED BY <2>1, PacketFacts, Sizes
  <1>7. Packets' BY <1>1, <1>6 DEF PacketInv, Packets
  <1>8. Attempts' BY <1>1, <1>5 DEF PacketInv, Attempts
  <1>9. Form(todo)' /\ AddsNew(todo)' /\ ~ Getting(todo)'
    BY <1>1, <1>2 DEF Form, AddsNew, Getting
  <1>10. Pending' BY <1>9 DEF Pending
  <1>11. Single(queue, Undelivered, packet_memb)'
    BY <1>1, <1>5, PacketFacts DEF Single
  <1> QED BY <1>7, <1>8, <1>10, <1>11 DEF PacketInv

(* A new packet p gets the outcome o, without having been queued. *)
LEMMA Refused ==
  ASSUME IInv, IInv', PacketInv, NEW p \in Packet, outcome[p] = "new",
         outcome' = [outcome EXCEPT ![p] = "ERR"], todo' = <<>>, ~ Getting(todo),
         UNCHANGED <<queue, packet_memb, transmissions, ret, dequeued>>
  PROVE  PacketInv'
  <1>1. Len(todo') = 0 OBVIOUS
  <1>2. Form(todo)' /\ AddsNew(todo)' /\ ~ Getting(todo)' /\ ~ Getting(todo')
    BY <1>1 DEF Form, AddsNew, Getting
  <1>3. Pending' BY <1>2 DEF Pending
  <1>4. Undelivered' = Undelivered
    BY <1>2, TodoTyped, UndeliveredIs, UndeliveredNext
  <1>5. outcome' \in [Packet -> {"new", "queued", "OK", "ERR"} \cup Failures]
    BY PacketFacts
  <1>6. Packets' BY <1>5 DEF PacketInv, Packets
  <1>7. \A r \in Packet : (outcome'[r] = "queued") = (outcome[r] = "queued")
    BY PacketFacts
  <1>8. Attempts' BY <1>4, <1>7 DEF PacketInv, Attempts
  <1>9. Single(queue, Undelivered, packet_memb)' BY <1>4, PacketFacts DEF Single
  <1> QED BY <1>3, <1>6, <1>8, <1>9 DEF PacketInv

LEMMA AddPackets ==
  ASSUME IInv, IInv', PacketInv, tsch_queue_add_packet PROVE PacketInv'
  <1>1. PICK p, a : p = Arg /\ a = Dest[p] OBVIOUS
  <1>2. /\ todo # <<>> /\ Head(todo)[1] = "add_packet" /\ todo' = Tail(todo)
        /\ Head(todo)[2] = p
    BY <1>1 DEF tsch_queue_add_packet, Doing, Return, Arg
  <1>3. p \in Packet BY <1>2, HeadCall, CallArg
  <1>4. a \in Addr BY <1>1, <1>3, TschAssumption
  <1>5. 1 \in 1..Len(todo) /\ Head(todo) = todo[1] BY <1>2, TodoTyped
  <1>6. 1 = Len(todo) /\ outcome[p] = "new"
    BY <1>2, <1>5, PacketFacts DEF Form, AddsNew
  <1>7. todo' = <<>> /\ Len(todo') = 0 BY <1>2, <1>6, TodoTyped
  <1>8. ~ Getting(todo)
    <2>1. \A n : n = 1 => \A i \in 1..n : i = 1 OBVIOUS
    <2>2. \A i \in 1..Len(todo) : i = 1 BY <1>6, <2>1
    <2> QED BY <1>2, <1>5, <2>2 DEF Getting
  <1>9. CASE /\ outcome' = [outcome EXCEPT ![p] = "ERR"]
             /\ UNCHANGED <<queue, packet_memb, transmissions, ret, dequeued>>
    BY <1>3, <1>6, <1>7, <1>8, <1>9, Refused
  <1>10. CASE /\ queue' = [queue EXCEPT ![a] = Append(@, p)]
              /\ packet_memb' = packet_memb \cup {p}
              /\ outcome' = [outcome EXCEPT ![p] = "queued"]
              /\ UNCHANGED <<transmissions, ret, dequeued>>
    <2>1. p \notin packet_memb /\ transmissions[p] = 0
      BY <1>3, <1>6 DEF PacketInv, Attempts
    <2>2. Form(todo)' /\ AddsNew(todo)' /\ ~ Getting(todo)' /\ ~ Getting(todo')
      BY <1>7 DEF Form, AddsNew, Getting
    <2>3. Pending' BY <2>2 DEF Pending
    <2>4. Undelivered' = Undelivered
      BY <1>8, <1>10, <2>2, TodoTyped, UndeliveredIs, UndeliveredNext
    <2>5. /\ queue \in [Addr -> Seq(Packet)] /\ packet_memb \in SUBSET Packet
          /\ Undelivered \in Seq(Packet)
          /\ Single(queue, Undelivered, packet_memb)
      BY CurrentLink, PacketFacts, UndeliveredTyped
    <2>6. Single([queue EXCEPT ![a] = Append(@, p)], Undelivered, packet_memb \cup {p})
      BY <1>3, <1>4, <2>1, <2>5, SingleAdd
    <2>7. Single(queue, Undelivered, packet_memb)'
      <3>1. Single(queue', Undelivered', packet_memb') BY <1>10, <2>4, <2>6
      <3> QED BY <3>1
    <2>8. Packets'
      <3>1. packet_memb' \subseteq Packet BY <1>3, <1>10, <2>5
      <3>2. outcome' \in [Packet -> {"new", "queued", "OK", "ERR"} \cup Failures]
        BY <1>10, PacketFacts
      <3> QED BY <1>10, <3>1, <3>2 DEF PacketInv, Packets
    <2>9. \A b \in Addr : \A i \in 1..Len(queue'[b]) :
             queue'[b][i] = p \/ \E j \in 1..Len(queue[b]) : queue'[b][i] = queue[b][j]
      <3> SUFFICES ASSUME NEW b \in Addr, NEW i \in 1..Len(queue'[b])
                   PROVE  \/ queue'[b][i] = p
                          \/ \E j \in 1..Len(queue[b]) : queue'[b][i] = queue[b][j]
        OBVIOUS
      <3>1. CASE b # a BY <1>10, <2>5, <3>1
      <3>2. CASE b = a
        <4>1. queue[a] \in Seq(Packet) /\ queue'[a] = Append(queue[a], p)
          BY <1>4, <1>10, <2>5
        <4>2. /\ Len(queue'[a]) = Len(queue[a]) + 1 /\ Len(queue[a]) \in Nat
              /\ queue'[a][Len(queue[a]) + 1] = p
              /\ \A j \in 1..Len(queue[a]) : queue'[a][j] = queue[a][j]
          BY <1>3, <4>1, AppendIndex
        <4>3. i = Len(queue[a]) + 1 \/ i \in 1..Len(queue[a]) BY <3>2, <4>2
        <4> QED BY <3>2, <4>2, <4>3
      <3> QED BY <3>1, <3>2
    <2>10. \A b \in Addr : \A i \in 1..Len(queue'[b]) :
              transmissions'[queue'[b][i]] < MaxTx[queue'[b][i]]
      <3>1. transmissions[p] < MaxTx[p] BY <1>3, <2>1, Budget
      <3> QED BY <1>10, <2>9, <3>1 DEF PacketInv, Attempts
    <2>11. ASSUME NEW r \in Packet
           PROVE  /\ (r \in packet_memb') = (outcome'[r] = "queued")
                  /\ r \notin packet_memb' => transmissions'[r] = 0
                  /\ transmissions'[r] <= MaxTx[r]
      <3>1. CASE r = p
        <4>1. r \in packet_memb' BY <1>10, <3>1
        <4>2. outcome'[r] = "queued" BY <1>3, <1>10, <3>1, PacketFacts
        <4>3. transmissions'[r] <= MaxTx[r] BY <1>10 DEF PacketInv, Attempts
        <4> QED BY <4>1, <4>2, <4>3
      <3>2. CASE r # p
        <4>1. outcome'[r] = outcome[r] /\ (r \in packet_memb' <=> r \in packet_memb)
          BY <1>10, <3>2, PacketFacts
        <4> QED BY <1>10, <4>1 DEF PacketInv, Attempts
      <3> QED BY <3>1, <3>2
    <2>12. \A j \in 1..Len(Undelivered') : ret'[Undelivered'[j]] \in {"OK"} \cup Failures
      BY <1>10, <2>4 DEF PacketInv, Attempts
    <2>13. Attempts' BY <2>10, <2>11, <2>12 DEF Attempts
    <2> QED BY <2>3, <2>7, <2>8, <2>13 DEF PacketInv
  <1> QED BY <1>1, <1>9, <1>10 DEF tsch_queue_add_packet

(* The packet of the slot stays first in its queue, or goes to the ring. *)
LEMMA SentPackets ==
  ASSUME IInv, IInv', PacketInv, tx_slot_end PROVE PacketInv'
  <1>1. PICK p, a : p = current_packet /\ a = current_neighbor OBVIOUS
  <1>2. /\ a \in Addr /\ queue[a] # <<>> /\ p = Head(queue[a]) /\ ~ tsch_locked
        /\ Len(dequeued) < DequeuedSize - 1 /\ queue \in [Addr -> Seq(Packet)]
        /\ dequeued \in Seq(Packet)
    BY <1>1 DEF tx_slot_end, IInv, SlotKept, Types
  <1>3. /\ p \in Packet /\ p = queue[a][1] /\ 1 \in 1..Len(queue[a])
        /\ queue[a] \in Seq(Packet)
    BY <1>2
  <1>4. PICK s, t : \E gone \in BOOLEAN :
          /\ s \in TxStatus(a)
          /\ t = transmissions[p] + 1 /\ gone = (s = "OK" \/ t >= MaxTx[p])
          /\ transmissions' = [transmissions EXCEPT ![p] = t]
          /\ ret' = [ret EXCEPT ![p] = s]
          /\ queue' = IF gone THEN Removed(a) ELSE queue
          /\ dequeued' = IF gone THEN Append(dequeued, p) ELSE dequeued
    BY <1>1 DEF tx_slot_end
  <1>5. UNCHANGED <<todo, packet_memb, outcome>> BY DEF tx_slot_end
  <1>6. s \in {"OK"} \cup Failures BY <1>4 DEF TxStatus
  <1>7. t \in 1..255 /\ t <= MaxTx[p] /\ (~ (t >= MaxTx[p]) => t < MaxTx[p])
    <2>1. transmissions[p] < MaxTx[p] BY <1>2, <1>3 DEF PacketInv, Attempts
    <2>2. transmissions[p] \in 0..255 /\ MaxTx[p] \in 1..255
      BY <1>3, PacketFacts, Budget
    <2>3. t = transmissions[p] + 1 BY <1>4
    <2> QED BY <2>1, <2>2, <2>3, NextAttempt
  <1>8. /\ transmissions' \in [Packet -> 0..255] /\ transmissions'[p] = t
        /\ \A r \in Packet : r # p => transmissions'[r] = transmissions[r]
    BY <1>3, <1>4, <1>7, PacketFacts
  <1>9. /\ ret' \in [Packet -> {"OK", "DEFERRED"} \cup Failures] /\ ret'[p] = s
        /\ \A r \in Packet : r # p => ret'[r] = ret[r]
    BY <1>3, <1>4, <1>6, PacketFacts
  <1>10. p \in packet_memb
    BY <1>2, <1>3, PacketFacts DEF Single
  <1>11. \A r \in Packet : /\ (r \in packet_memb') = (outcome'[r] = "queued")
                           /\ r \notin packet_memb' => transmissions'[r] = 0
                           /\ transmissions'[r] <= MaxTx[r]
    <2> SUFFICES ASSUME NEW r \in Packet
                 PROVE  /\ (r \in packet_memb') = (outcome'[r] = "queued")
                        /\ r \notin packet_memb' => transmissions'[r] = 0
                        /\ transmissions'[r] <= MaxTx[r]
      OBVIOUS
    <2>1. (r \in packet_memb') = (outcome'[r] = "queued")
      BY <1>5 DEF PacketInv, Attempts
    <2>2. r \notin packet_memb' => transmissions'[r] = 0
      BY <1>5, <1>8, <1>10 DEF PacketInv, Attempts
    <2>3. transmissions'[r] <= MaxTx[r]
      BY <1>7, <1>8 DEF PacketInv, Attempts
    <2> QED BY <2>1, <2>2, <2>3
  <1>12. Form(todo)' /\ AddsNew(todo)' /\ (Getting(todo') <=> Getting(todo))
    BY <1>5, PacketFacts DEF Form, AddsNew, Getting
  <1>13. Undelivered \in Seq(Packet) BY UndeliveredTyped
  <1>14. \A i \in 1..Len(Undelivered) : Undelivered[i] # p
    BY <1>2, <1>3, PacketFacts DEF Single
  <1>15. CASE queue' = queue /\ dequeued' = dequeued /\ ~ (t >= MaxTx[p])
    <2>1. Undelivered' = Undelivered
      BY <1>12, <1>15, TodoTyped, UndeliveredIs, UndeliveredNext
    <2>2. Packets' BY <1>5, <1>8, <1>9, <1>15 DEF PacketInv, Packets
    <2>3. \A b \in Addr : \A i \in 1..Len(queue'[b]) :
             transmissions'[queue'[b][i]] < MaxTx[queue'[b][i]]
      <3> SUFFICES ASSUME NEW b \in Addr, NEW i \in 1..Len(queue[b])
                   PROVE  transmissions'[queue[b][i]] < MaxTx[queue[b][i]]
        BY <1>15
      <3>1. queue[b][i] \in Packet BY <1>2
      <3>2. t < MaxTx[p] BY <1>7, <1>15
      <3> QED BY <1>8, <3>1, <3>2 DEF PacketInv, Attempts
    <2>4. \A j \in 1..Len(Undelivered') : ret'[Undelivered'[j]] \in {"OK"} \cup Failures
      BY <1>9, <1>13, <1>14, <2>1 DEF PacketInv, Attempts
    <2>5. Attempts' BY <1>11, <2>3, <2>4 DEF Attempts
    <2>6. Pending' BY <1>5, <1>12, <1>15 DEF PacketInv, Pending
    <2>7. Single(queue, Undelivered, packet_memb)'
      BY <1>5, <1>15, <2>1, PacketFacts DEF Single
    <2> QED BY <2>2, <2>5, <2>6, <2>7 DEF PacketInv
  <1>16. CASE queue' = Removed(a) /\ dequeued' = Append(dequeued, p)
    <2>1. queue' = [queue EXCEPT ![a] = Tail(@)] BY <1>2, <1>16 DEF Removed
    <2>2. Undelivered' = Append(Undelivered, p)
      <3>1. CASE ~ Getting(todo)
        BY <1>12, <1>16, <3>1, TodoTyped, UndeliveredIs, UndeliveredNext
      <3>2. CASE Getting(todo)
        <4>1. dequeued # <<>> BY <3>2 DEF PacketInv, Pending
        <4>2. Tail(Append(dequeued, p)) = Append(Tail(dequeued), p)
          BY <1>2, <1>3, <4>1
        <4> QED BY <1>12, <1>16, <3>2, <4>2, TodoTyped, UndeliveredIs, UndeliveredNext
      <3> QED BY <3>1, <3>2
    <2>3. packet_memb \in SUBSET Packet /\ Single(queue, Undelivered, packet_memb)
      BY PacketFacts
    <2>4. Left(queue, Undelivered, packet_memb, [queue EXCEPT ![a] = Tail(@)],
               Undelivered, Head(queue[a]))
      BY <1>2, <1>13, <2>3, SingleTake
    <2>5. Left(queue, Undelivered, packet_memb, queue', Undelivered, p)
      BY <1>2, <2>1, <2>4
    <2>6. queue' \in [Addr -> Seq(Packet)] BY DEF IInv, Types
    <2>7. Single(queue', Undelivered, packet_memb \ {p}) BY <2>5 DEF Left
    <2>8. Single(queue', Append(Undelivered, p), (packet_memb \ {p}) \cup {p})
      <3>1. packet_memb \ {p} \in SUBSET Packet /\ p \notin packet_memb \ {p}
        BY <2>3
      <3> QED BY <1>3, <1>13, <2>6, <2>7, <3>1, SingleSent
    <2>9. (packet_memb \ {p}) \cup {p} = packet_memb' BY <1>5, <1>10
    <2>10. Single(queue, Undelivered, packet_memb)'
      <3>1. Single(queue', Undelivered', packet_memb') BY <2>2, <2>8, <2>9
      <3> QED BY <3>1
    <2>11. Len(dequeued') < DequeuedSize /\ dequeued' # <<>>
      <3>1. Len(dequeued') = Len(dequeued) + 1 /\ Len(dequeued) \in Nat
        BY <1>2, <1>3, <1>16
      <3>2. Len(dequeued') < DequeuedSize BY <1>2, <3>1, Sizes
      <3> QED BY <3>1, <3>2
    <2>12. Packets' BY <1>5, <1>8, <1>9, <2>11 DEF PacketInv, Packets
    <2>13. Pending' BY <1>12, <2>11 DEF Pending
    <2>14. ASSUME NEW b \in Addr, NEW i \in 1..Len(queue'[b])
           PROVE  transmissions'[queue'[b][i]] < MaxTx[queue'[b][i]]
      <3>1. PICK j \in 1..Len(queue[b]) : queue'[b][i] = queue[b][j]
        BY <2>5 DEF Left
      <3>2. queue[b][j] # p /\ queue[b][j] \in Packet
        BY <1>2, <2>5, <3>1 DEF Left
      <3> QED BY <1>8, <3>1, <3>2 DEF PacketInv, Attempts
    <2>15. ASSUME NEW j \in 1..Len(Undelivered')
           PROVE  ret'[Undelivered'[j]] \in {"OK"} \cup Failures
      <3>1. /\ Len(Undelivered') = Len(Undelivered) + 1 /\ Len(Undelivered) \in Nat
            /\ Undelivered'[Len(Undelivered) + 1] = p
            /\ \A i \in 1..Len(Undelivered) : Undelivered'[i] = Undelivered[i]
        BY <1>3, <1>13, <2>2, AppendIndex
      <3>2. j = Len(Undelivered) + 1 \/ j \in 1..Len(Undelivered) BY <3>1
      <3>3. CASE j = Len(Undelivered) + 1 BY <1>6, <1>9, <3>1, <3>3
      <3>4. CASE j \in 1..Len(Undelivered)
        <4>1. Undelivered'[j] = Undelivered[j] /\ Undelivered[j] \in Packet
              /\ Undelivered[j] # p
          BY <1>13, <1>14, <3>1, <3>4
        <4> QED BY <1>9, <3>4, <4>1 DEF PacketInv, Attempts
      <3> QED BY <3>2, <3>3, <3>4
    <2>16. Attempts' BY <1>11, <2>14, <2>15 DEF Attempts
    <2> QED BY <2>10, <2>12, <2>13, <2>16 DEF PacketInv
  <1> QED BY <1>4, <1>15, <1>16
LEMMA StartPackets ==
  ASSUME IInv, IInv', PacketInv,
         \/ tsch_pending_events \/ tsch_reset
         \/ \E p \in Packet : send_packet(p)
         \/ \E l \in Dynamic : add_link(l) \/ remove_link(l)
         \/ \E a \in Sources : update_time_source(a) \/ tsch_associate(a)
  PROVE  PacketInv'
  <1>1. CASE tsch_pending_events
    <2>1. <<<<"rx_pending", None>>, <<"tx_pending", None>>>> \in Seq(Other)
      BY OtherCalls
    <2> QED BY <1>1, <2>1, PacketsStart DEF tsch_pending_events
  <1>2. CASE tsch_reset
    <2>1. nbrs \subseteq Addr BY DEF IInv, Types
    <2>2. PICK c : c = <<"queue_reset", nbrs>> OBVIOUS
    <2>3. PICK d : d = <<"free_unused", nbrs \cap Unicast>> OBVIOUS
    <2>4. c \in Other /\ d \in Other BY <2>1, <2>2, <2>3, OtherCalls
    <2>5. PICK e, f, g, h : /\ e = <<"rx_pending", None>> /\ f = <<"tx_pending", None>>
                            /\ g = <<"set_source", None>> /\ h = <<"reset_done", None>>
      OBVIOUS
    <2>6. e \in Other /\ f \in Other /\ g \in Other /\ h \in Other
      BY <2>5, OtherCalls
    <2>7. <<e, f, c, d, g, h>> \in Seq(Other) BY <2>4, <2>6
    <2>8. Start(<<e, f, c, d, g, h>>) /\ UNCHANGED packetVars
      BY <1>2, <2>2, <2>3, <2>5 DEF tsch_reset
    <2> QED BY <2>7, <2>8, PacketsStart
  <1>3. ASSUME NEW p \in Packet, send_packet(p) PROVE PacketInv'
    <2>1. outcome[p] = "new" BY <1>3 DEF send_packet
    <2>2. CASE Start(<<>>) /\ outcome' = [outcome EXCEPT ![p] = "ERR"]
               /\ UNCHANGED <<queue, packet_memb, transmissions, ret, dequeued>>
      <3>1. todo = <<>> /\ Len(todo) = 0 /\ todo' = <<>> BY <2>2 DEF Start, Idle
      <3>2. ~ Getting(todo) BY <3>1 DEF Getting
      <3> QED BY <2>1, <2>2, <3>1, <3>2, Refused
    <2>3. CASE Start(<<<<"add_nbr", Dest[p]>>, <<"add_packet", p>>>>)
               /\ UNCHANGED packetVars
      <3>1. PICK s : s = <<<<"add_nbr", Dest[p]>>, <<"add_packet", p>>>> OBVIOUS
      <3>2. todo = <<>> /\ Len(todo) = 0 /\ todo' = s BY <2>3, <3>1 DEF Start, Idle
      <3>3. Len(s) = 2 /\ s[1][1] = "add_nbr" /\ s[2] = <<"add_packet", p>>
        BY <3>1
      <3>4. \A i \in 1..Len(s) : i = 1 \/ i = 2 BY <3>3
      <3>5. Form(s) /\ ~ Getting(s) /\ AddsNew(s)
        BY <2>1, <3>3, <3>4 DEF Form, Getting, AddsNew
      <3>6. ~ Getting(todo) BY <3>2 DEF Getting
      <3> QED BY <2>3, <3>2, <3>5, <3>6, TodoTyped, TodoTypedNext, PacketsKept
    <2> QED BY <1>3, <2>2, <2>3 DEF send_packet
  <1>4. ASSUME NEW l \in Dynamic, add_link(l) \/ remove_link(l) PROVE PacketInv'
    <2>1. l \in Link /\ links \subseteq Link BY TschAssumption DEF IInv, Types
    <2>2. UNCHANGED packetVars BY <1>4 DEF add_link, remove_link
    <2>3. \/ Start(<<<<"add_link", l>>>>) \/ Start(<<<<"remove_link", l>>>>)
          \/ \E m \in links : Start(<<<<"remove_link", m>>, <<"add_link", l>>>>)
      BY <1>4 DEF add_link, remove_link
    <2>4. \A m \in Link : <<"add_link", m>> \in Other /\ <<"remove_link", m>> \in Other
      BY OtherCalls
    <2>5. PICK c : c = <<"add_link", l>> OBVIOUS
    <2>6. PICK d : d = <<"remove_link", l>> OBVIOUS
    <2>7. c \in Other /\ d \in Other BY <2>1, <2>4, <2>5, <2>6
    <2>8. CASE Start(<<c>>)
      <3>1. <<c>> \in Seq(Other) BY <2>7
      <3> QED BY <2>2, <2>8, <3>1, PacketsStart
    <2>9. CASE Start(<<d>>)
      <3>1. <<d>> \in Seq(Other) BY <2>7
      <3> QED BY <2>2, <2>9, <3>1, PacketsStart
    <2>10. ASSUME NEW m \in links, Start(<<<<"remove_link", m>>, c>>)
           PROVE  PacketInv'
      <3>1. PICK e : e = <<"remove_link", m>> OBVIOUS
      <3>2. m \in Link BY <2>1
      <3>3. e \in Other BY <2>4, <3>1, <3>2
      <3>4. <<e, c>> \in Seq(Other) BY <2>7, <3>3
      <3>5. Start(<<e, c>>) BY <2>10, <3>1
      <3> QED BY <2>2, <3>4, <3>5, PacketsStart
    <2> QED BY <2>3, <2>5, <2>6, <2>8, <2>9, <2>10
  <1>5. ASSUME NEW a \in Sources, update_time_source(a) PROVE PacketInv'
    <2>1. a \in Addr BY TschAssumption
    <2>2. <<"add_nbr", a>> \in Other /\ <<"set_source", a>> \in Other
      BY <2>1, OtherCalls
    <2>3. <<<<"add_nbr", a>>, <<"set_source", a>>>> \in Seq(Other) BY <2>2
    <2> QED BY <1>5, <2>3, PacketsStart DEF update_time_source
  <1>6. ASSUME NEW a \in Sources, tsch_associate(a) PROVE PacketInv'
    <2> DEFINE A == <<<<"remove_all", None>>>>
               B == [i \in DOMAIN FromBeacon |-> <<"add_link", FromBeacon[i]>>]
               C == <<<<"add_nbr", a>>, <<"set_source", a>>, <<"associate_done", a>>>>
               s == A \o B \o C
    <2>1. a \in Addr BY TschAssumption
    <2>2. A \in Seq(Other) BY OtherCalls
    <2>3. B \in Seq(Other)
      <3>1. FromBeacon \in Seq(Link) BY TschAssumption
      <3>2. DOMAIN FromBeacon = 1..Len(FromBeacon) /\ Len(FromBeacon) \in Nat
        BY <3>1
      <3>3. \A i \in DOMAIN FromBeacon : <<"add_link", FromBeacon[i]>> \in Other
        <4>1. \A i \in DOMAIN FromBeacon : FromBeacon[i] \in Link BY <3>1
        <4> QED BY <4>1, OtherCalls
      <3> QED BY <3>2, <3>3
    <2>4. C \in Seq(Other)
      <3>1. /\ <<"add_nbr", a>> \in Other /\ <<"set_source", a>> \in Other
            /\ <<"associate_done", a>> \in Other
        BY <2>1, OtherCalls
      <3> QED BY <3>1
    <2>5. Start(s) /\ UNCHANGED packetVars BY <1>6 DEF tsch_associate
    <2>6. s \in Seq(Other)
      <3> HIDE DEF A, B, C
      <3>1. A \o B \in Seq(Other) BY <2>2, <2>3
      <3> QED BY <2>4, <3>1
    <2> QED BY <2>5, <2>6, PacketsStart
  <1> QED BY <1>1, <1>2, <1>3, <1>4, <1>5, <1>6

LEMMA PacketsStep ==
  ASSUME IInv, IInv', PacketInv, [Next]_vars PROVE PacketInv'
  <1>1. CASE slot_stop \/ slot_skip \/ slot_missed \/ slot_begin \/ rx_slot_end
    <2>1. UNCHANGED packetVars /\ todo' = todo
      BY <1>1 DEF slot_stop, slot_skip, slot_missed, slot_begin, rx_slot_end
    <2> QED BY <2>1, PacketsSame
  <1>2. CASE tx_slot_end BY <1>2, SentPackets
  <1>3. CASE Call
    BY <1>3, QuietCalls, FlushPackets, AddPackets, CallbackPackets, GetPackets
       DEF Call
  <1>4. CASE \/ tsch_pending_events \/ tsch_reset
             \/ \E p \in Packet : send_packet(p)
             \/ \E l \in Dynamic : add_link(l) \/ remove_link(l)
             \/ \E a \in Sources : update_time_source(a) \/ tsch_associate(a)
    BY <1>4, StartPackets
  <1>5. CASE UNCHANGED vars BY <1>5, PacketsSame DEF vars
  <1> QED BY <1>1, <1>2, <1>3, <1>4, <1>5 DEF Next, Slot

(* In one place: the set of a packet's places has one member. *)
QueuePlaces(p) ==
  UNION {{a} \X {i \in DOMAIN queue[a] : queue[a][i] = p} : a \in Addr}

SentPlaces(p) ==
  {None} \X {i \in DOMAIN Undelivered : Undelivered[i] = p}

LEMMA PlacesSplit ==
  ASSUME NEW p PROVE Places(p) = QueuePlaces(p) \cup SentPlaces(p)
  BY DEF Places, QueuePlaces, SentPlaces

LEMMA PlaceMembers ==
  ASSUME IInv, PacketInv, NEW p, NEW x
  PROVE  x \in Places(p) <=>
            \/ \E a \in Addr : \E i \in 1..Len(queue[a]) :
                  queue[a][i] = p /\ x = <<a, i>>
            \/ \E i \in 1..Len(Undelivered) : Undelivered[i] = p /\ x = <<None, i>>
  <1>1. queue \in [Addr -> Seq(Packet)] /\ Undelivered \in Seq(Packet)
    BY CurrentLink, UndeliveredTyped
  <1>2. \A a \in Addr : DOMAIN queue[a] = 1..Len(queue[a]) BY <1>1
  <1>3. DOMAIN Undelivered = 1..Len(Undelivered) BY <1>1
  <1>4. x \in SentPlaces(p) <=>
           \E i \in 1..Len(Undelivered) : Undelivered[i] = p /\ x = <<None, i>>
    BY <1>3 DEF SentPlaces
  <1>5. x \in QueuePlaces(p) <=>
           \E a \in Addr : \E i \in 1..Len(queue[a]) :
              queue[a][i] = p /\ x = <<a, i>>
    <2> DEFINE Q(a) == {i \in DOMAIN queue[a] : queue[a][i] = p}
    <2>1. \A a \in Addr : x \in {a} \X Q(a) <=>
             \E i \in 1..Len(queue[a]) : queue[a][i] = p /\ x = <<a, i>>
      BY <1>2
    <2>2. x \in QueuePlaces(p) <=> \E a \in Addr : x \in {a} \X Q(a)
      BY DEF QueuePlaces
    <2> HIDE DEF Q
    <2> QED BY <2>1, <2>2
  <1>6. x \in Places(p) <=> x \in QueuePlaces(p) \/ x \in SentPlaces(p)
    BY PlacesSplit
  <1> QED BY <1>4, <1>5, <1>6

LEMMA OnePlace ==
  ASSUME IInv, PacketInv, NEW p \in Packet
  PROVE  Cardinality(Places(p)) = IF p \in packet_memb THEN 1 ELSE 0
  <1>1. Single(queue, Undelivered, packet_memb) BY PacketFacts
  <1>2. CASE p \notin packet_memb
    <2>1. \A x : x \notin Places(p) BY <1>1, <1>2, PlaceMembers DEF Single
    <2>2. Places(p) = {} BY <2>1
    <2> QED BY <1>2, <2>2, FS_EmptySet
  <1>3. CASE p \in packet_memb
    <2>1. \A x, y : x \in Places(p) /\ y \in Places(p) => x = y
      <3> SUFFICES ASSUME NEW x, NEW y, x \in Places(p), y \in Places(p)
                   PROVE  x = y
        OBVIOUS
      <3>1. \/ \E a \in Addr : \E i \in 1..Len(queue[a]) :
                  queue[a][i] = p /\ x = <<a, i>>
            \/ \E i \in 1..Len(Undelivered) : Undelivered[i] = p /\ x = <<None, i>>
        BY PlaceMembers
      <3>2. \/ \E a \in Addr : \E i \in 1..Len(queue[a]) :
                  queue[a][i] = p /\ y = <<a, i>>
            \/ \E i \in 1..Len(Undelivered) : Undelivered[i] = p /\ y = <<None, i>>
        BY PlaceMembers
      <3>3. ASSUME NEW a \in Addr, NEW i \in 1..Len(queue[a]), queue[a][i] = p,
                   x = <<a, i>>
            PROVE  x = y
        BY <1>1, <3>2, <3>3 DEF Single
      <3>4. ASSUME NEW i \in 1..Len(Undelivered), Undelivered[i] = p, x = <<None, i>>
            PROVE  x = y
        BY <1>1, <3>2, <3>4 DEF Single
      <3> QED BY <3>1, <3>3, <3>4
    <2>2. \E x : x \in Places(p)
      <3>1. \/ \E a \in Addr : \E i \in 1..Len(queue[a]) : queue[a][i] = p
            \/ \E j \in 1..Len(Undelivered) : Undelivered[j] = p
        BY <1>1, <1>3 DEF Single
      <3>2. ASSUME NEW a \in Addr, NEW i \in 1..Len(queue[a]), queue[a][i] = p
            PROVE  <<a, i>> \in Places(p)
        BY <3>2, PlaceMembers
      <3>3. ASSUME NEW j \in 1..Len(Undelivered), Undelivered[j] = p
            PROVE  <<None, j>> \in Places(p)
        BY <3>3, PlaceMembers
      <3> QED BY <3>1, <3>2, <3>3
    <2>3. PICK x : x \in Places(p) BY <2>2
    <2>4. Places(p) = {x} BY <2>1, <2>3
    <2> QED BY <1>3, <2>4, FS_Singleton
  <1> QED BY <1>2, <1>3

LEMMA PacketsImplied ==
  ASSUME cut \in BOOLEAN, IInv, Controls, PacketInv PROVE PacketsSound
  <1>1. TypeOK
    <2>1. {tsch_locked, tsch_lock_requested, tsch_is_associated, scanning,
           pending, armed, burst_link_scheduled, fallback, cut} \subseteq BOOLEAN
      BY DEF Controls, Flags
    <2>2. todo \in Seq(Calls) BY TodoTyped
    <2> QED BY <2>1, <2>2
         DEF TypeOK, IInv, Types, Controls, Counters, SlotTypes, PacketInv, Packets
  <1>2. \A p \in Packet : Cardinality(Places(p)) = IF p \in packet_memb THEN 1 ELSE 0
    BY OnePlace
  <1> QED BY <1>1, <1>2 DEF PacketsSound, PacketInv, Attempts

LEMMA PacketsBegin == Init => PacketInv
  <1> SUFFICES ASSUME Init PROVE PacketInv OBVIOUS
  <1>1. IInv BY InitInv
  <1>2. todo = <<>> /\ Len(todo) = 0 BY DEF Init
  <1>3. Form(todo) /\ AddsNew(todo) /\ ~ Getting(todo)
    BY <1>2 DEF Form, AddsNew, Getting
  <1>4. Undelivered = <<>> /\ Len(Undelivered) = 0
    <2>1. Undelivered = dequeued BY <1>1, <1>3, TodoTyped, UndeliveredIs
    <2> QED BY <2>1 DEF Init
  <1>5. \A a \in Addr : queue[a] = <<>> /\ Len(queue[a]) = 0 BY DEF Init
  <1>6. Single(queue, Undelivered, packet_memb)
    BY <1>4, <1>5 DEF Init, Single
  <1>7. Packets BY Sizes DEF Init, Packets
  <1>8. Attempts
    <2>1. \A p \in Packet : /\ p \notin packet_memb /\ outcome[p] # "queued"
                            /\ transmissions[p] = 0
      BY DEF Init
    <2> QED BY <1>4, <1>5, <2>1, Budget DEF Attempts
  <1> QED BY <1>3, <1>6, <1>7, <1>8 DEF PacketInv, Pending

(* A packet that tsch_queue_add_packet() accepted is in one queue or in    *)
(* the ring of sent packets, until it is given back once and freed; it is  *)
(* sent as often as it may be at most; and every variable keeps its type.  *)
(* As for the slots, this is so as long as tsch_reset() has not begun in a *)
(* slot that sends.                                                        *)
THEOREM PacketsKeptOnce == Spec => [](~ cut => PacketsSound)
  <1> DEFINE Inv == /\ cut \in BOOLEAN
                    /\ cut \/ (IInv /\ Controls /\ PacketInv)
  <1>1. Init => Inv
    <2> SUFFICES ASSUME Init PROVE Inv OBVIOUS
    <2>0. cut \in BOOLEAN BY DEF Init
    <2>1. IInv BY InitInv
    <2>2. Controls
      <3>1. Flags BY DEF Init, Flags
      <3>2. Counters BY Sizes DEF Init, Counters
      <3>3. SlotTypes BY DEF Init, SlotTypes
      <3> QED BY <3>1, <3>2, <3>3 DEF Controls
    <2>3. PacketInv BY PacketsBegin
    <2> QED BY <2>0, <2>1, <2>2, <2>3
  <1>2. Inv /\ [Next]_vars => Inv'
    <2> SUFFICES ASSUME Inv, [Next]_vars PROVE Inv' OBVIOUS
    <2>0. cut' \in BOOLEAN BY CutTyped
    <2>1. CASE cut BY <2>0, <2>1, CutGrows
    <2>2. CASE ~ cut /\ ~ cut'
      <3>1. IInv' BY <2>2, StepInv
      <3>2. Controls' BY <2>2, ControlsStep
      <3>3. PacketInv' BY <2>2, <3>1, PacketsStep
      <3> QED BY <2>0, <3>1, <3>2, <3>3
    <2> QED BY <2>0, <2>1, <2>2
  <1>3. Inv => (~ cut => PacketsSound) BY PacketsImplied
  <1> HIDE DEF Inv
  <1> QED BY <1>1, <1>2, <1>3, PTL DEF Spec
------------------------------------------------------------------------------
(* The counters of links.  The calls of process context are those still    *)
(* planned, t, after the ones that one change of the schedule is made of;  *)
(* c is the call among these that a counter, a link or an entry waits for. *)

Cons(c, t) == <<c>> \o t

LEMMA ConsFacts ==
  ASSUME NEW c, NEW t, Sequence(t)
  PROVE  /\ Sequence(Cons(c, t)) /\ Cons(c, t) # <<>>
         /\ Head(Cons(c, t)) = c /\ Tail(Cons(c, t)) = t
         /\ 1 \in DOMAIN Cons(c, t) /\ Cons(c, t)[1] = c
         /\ \A i \in DOMAIN t : i + 1 \in DOMAIN Cons(c, t) /\ Cons(c, t)[i + 1] = t[i]
         /\ \A i \in DOMAIN Cons(c, t) :
              i = 1 \/ (i - 1 \in DOMAIN t /\ Cons(c, t)[i] = t[i - 1])
         /\ DOMAIN t \subseteq Nat \ {0} /\ DOMAIN Cons(c, t) \subseteq Nat \ {0}
  <1>1. PICK S : t \in Seq(S) BY DEF Sequence
  <1>2. PICK U : U = S \cup {c} OBVIOUS
  <1>3. t \in Seq(U) /\ <<c>> \in Seq(U) BY <1>1, <1>2
  <1>4. PICK y : y = Cons(c, t) OBVIOUS
  <1>5. /\ y \in Seq(U) /\ Len(y) = Len(t) + 1 /\ Len(t) \in Nat
        /\ DOMAIN t = 1..Len(t) /\ DOMAIN y = 1..Len(y)
    BY <1>3, <1>4 DEF Cons
  <1>6. y[1] = c /\ \A i \in 1..Len(t) : y[i + 1] = t[i] BY <1>3, <1>4 DEF Cons
  <1>7. y # <<>> /\ Head(y) = c BY <1>5, <1>6
  <1>8. Tail(y) = t
    <2>1. Tail(y) \in Seq(U) /\ Len(Tail(y)) = Len(t) BY <1>5, <1>7
    <2>2. \A i \in 1..Len(t) : Tail(y)[i] = t[i] BY <1>5, <1>6, <1>7, <2>1
    <2> QED BY <1>3, <2>1, <2>2
  <1>9. ASSUME NEW i \in DOMAIN y, i # 1 PROVE i - 1 \in DOMAIN t /\ y[i] = t[i - 1]
    <2>1. i - 1 \in 1..Len(t) /\ (i - 1) + 1 = i BY <1>5, <1>9
    <2> QED BY <1>5, <1>6, <2>1
  <1>10. \A i \in DOMAIN t : i + 1 \in DOMAIN y /\ y[i + 1] = t[i] BY <1>5, <1>6
  <1>11. Sequence(y) /\ 1 \in DOMAIN y BY <1>5 DEF Sequence
  <1>12. DOMAIN t \subseteq Nat \ {0} /\ DOMAIN y \subseteq Nat \ {0} BY <1>5
  <1> QED BY <1>4, <1>6, <1>7, <1>8, <1>9, <1>10, <1>11, <1>12

LEMMA ConsOne == ASSUME NEW a PROVE <<a>> = Cons(a, <<>>)
  BY DEF Cons

LEMMA ConsTwo ==
  ASSUME NEW a, NEW b, NEW t, Sequence(t)
  PROVE  <<a, b>> \o t = Cons(a, Cons(b, t))
  <1>1. PICK S : t \in Seq(S) BY DEF Sequence
  <1>2. PICK U : U = S \cup {a, b} OBVIOUS
  <1>3. t \in Seq(U) /\ <<a, b>> \in Seq(U) /\ <<a>> \in Seq(U) /\ <<b>> \in Seq(U)
    BY <1>1, <1>2
  <1>4. <<a, b>> = <<a>> \o <<b>>
    <2>1. PICK y : y = <<a>> \o <<b>> OBVIOUS
    <2>2. y \in Seq(U) /\ Len(y) = 2 /\ y[1] = a /\ y[2] = b BY <1>3, <2>1
    <2>3. PICK z : z = <<a, b>> OBVIOUS
    <2>4. z \in Seq(U) /\ Len(z) = 2 /\ z[1] = a /\ z[2] = b BY <1>3, <2>3
    <2>5. \A i \in 1..2 : y[i] = z[i] BY <2>2, <2>4
    <2>6. y = z BY <2>2, <2>4, <2>5
    <2> QED BY <2>1, <2>3, <2>6
  <1>5. (<<a>> \o <<b>>) \o t = <<a>> \o (<<b>> \o t) BY <1>3
  <1> QED BY <1>4, <1>5 DEF Cons

LEMMA ConsThree ==
  ASSUME NEW a, NEW b, NEW c, NEW t, Sequence(t)
  PROVE  <<a, b, c>> \o t = Cons(a, Cons(b, Cons(c, t)))
  <1>1. PICK S : t \in Seq(S) BY DEF Sequence
  <1>2. PICK U : U = S \cup {a, b, c} OBVIOUS
  <1>3. t \in Seq(U) /\ <<b, c>> \in Seq(U) /\ <<a>> \in Seq(U)
    BY <1>1, <1>2
  <1>4. <<a, b, c>> = <<a>> \o <<b, c>> OBVIOUS
  <1>5. (<<a>> \o <<b, c>>) \o t = <<a>> \o (<<b, c>> \o t) BY <1>3
  <1>6. <<b, c>> \o t = Cons(b, Cons(c, t)) BY ConsTwo
  <1> QED BY <1>4, <1>5, <1>6 DEF Cons

LEMMA ConsHead ==
  ASSUME NEW t, Sequence(t), t # <<>> PROVE Cons(Head(t), Tail(t)) = t
  <1>1. PICK S : t \in Seq(S) BY DEF Sequence
  <1> QED BY <1>1 DEF Cons

(* The planned calls: no step of a change, every link is added to a slot   *)
(* of its own, after the removal of all.                                   *)
Steps == {"release", "count_up", "count_down", "remove_link", "remove_nbr"}
Counting(c) == c[1] \in {"count_up", "count_down"}
Typed(c) ==
  /\ c[1] = "add_link" => c[2] \in Link
  /\ c[1] = "add_nbr" => c[2] \in Addr
Clean(t) ==
  /\ Sequence(t)
  /\ \A i \in DOMAIN t : t[i][1] \notin Steps /\ Typed(t[i])
  /\ \A i, j \in DOMAIN t : t[i][1] = "add_link" =>
       /\ t[j][1] = "remove_all" => j < i
       /\ t[j][1] = "add_link" /\ SameSlot(t[i][2], t[j][2]) => i = j

(* A link that is to be added will find its slot free. *)
Fresh(t, ls) ==
  \/ Waits(t, "remove_all")
  \/ \A i \in DOMAIN t : \A m \in ls :
       t[i][1] = "add_link" => ~ SameSlot(m, t[i][2])

LEMMA CleanTail ==
  ASSUME NEW t, Clean(t), t # <<>>
  PROVE  /\ Clean(Tail(t)) /\ Head(t)[1] \notin Steps /\ Typed(Head(t))
         /\ \A ls : Fresh(t, ls) /\ Head(t)[1] # "remove_all" => Fresh(Tail(t), ls)
         /\ Head(t)[1] = "add_link" =>
              /\ ~ Waits(t, "remove_all")
              /\ \A i \in DOMAIN Tail(t) :
                   t[1][1] = "add_link" /\ Tail(t)[i][1] = "add_link" =>
                     ~ SameSlot(Head(t)[2], Tail(t)[i][2])
  <1>1. PICK x : x = Tail(t) OBVIOUS
  <1>2. PICK h : h = Head(t) OBVIOUS
  <1>3. Sequence(t) BY DEF Clean
  <1>4. Sequence(x) /\ t = Cons(h, x) BY <1>1, <1>2, <1>3, SequenceTail, ConsHead
  <1>5. /\ 1 \in DOMAIN t /\ t[1] = h
        /\ \A i \in DOMAIN x : i + 1 \in DOMAIN t /\ t[i + 1] = x[i]
        /\ DOMAIN x \subseteq Nat \ {0} /\ DOMAIN t \subseteq Nat \ {0}
    BY <1>4, ConsFacts
  <1>6. h[1] \notin Steps /\ Typed(h) BY <1>5 DEF Clean
  <1>7. Clean(x)
    <2>1. \A i \in DOMAIN x : x[i][1] \notin Steps /\ Typed(x[i]) BY <1>5 DEF Clean
    <2>2. ASSUME NEW i \in DOMAIN x, NEW j \in DOMAIN x, x[i][1] = "add_link"
          PROVE  /\ x[j][1] = "remove_all" => j < i
                 /\ x[j][1] = "add_link" /\ SameSlot(x[i][2], x[j][2]) => i = j
      <3>1. /\ i + 1 \in DOMAIN t /\ t[i + 1] = x[i] /\ i \in Nat
            /\ j + 1 \in DOMAIN t /\ t[j + 1] = x[j] /\ j \in Nat
        BY <1>5
      <3>2. /\ x[j][1] = "remove_all" => j + 1 < i + 1
            /\ x[j][1] = "add_link" /\ SameSlot(x[i][2], x[j][2]) => i + 1 = j + 1
        BY <2>2, <3>1 DEF Clean
      <3> QED BY <3>1, <3>2
    <2> QED BY <1>4, <2>1, <2>2 DEF Clean
  <1>8. ASSUME NEW ls, Fresh(t, ls), h[1] # "remove_all" PROVE Fresh(x, ls)
    <2>1. CASE Waits(t, "remove_all")
      BY <1>1, <1>2, <1>3, <1>8, <2>1, SequenceTail DEF Fresh
    <2>2. CASE \A i \in DOMAIN t : \A m \in ls :
                 t[i][1] = "add_link" => ~ SameSlot(m, t[i][2])
      BY <1>5, <2>2 DEF Fresh
    <2> QED BY <1>8, <2>1, <2>2 DEF Fresh
  <1>9. ASSUME h[1] = "add_link" PROVE ~ Waits(t, "remove_all")
    <2> SUFFICES ASSUME NEW j \in DOMAIN t, t[j][1] = "remove_all" PROVE FALSE
      BY DEF Waits
    <2>1. j < 1 BY <1>5, <1>9 DEF Clean
    <2> QED BY <1>5, <2>1
  <1>10. ASSUME h[1] = "add_link", NEW i \in DOMAIN x, x[i][1] = "add_link",
                SameSlot(h[2], x[i][2])
         PROVE  FALSE
    <2>1. i + 1 \in DOMAIN t /\ t[i + 1] = x[i] /\ i \in Nat \ {0} BY <1>5
    <2>2. 1 = i + 1 BY <1>5, <1>10, <2>1 DEF Clean
    <2> QED BY <2>1, <2>2
  <1> QED BY <1>1, <1>2, <1>6, <1>7, <1>8, <1>9, <1>10

LEMMA CleanCons ==
  ASSUME NEW t, Clean(t), NEW c, c[1] \notin Steps \cup {"add_link"}, Typed(c)
  PROVE  /\ Clean(Cons(c, t))
         /\ \A ls : Fresh(t, ls) => Fresh(Cons(c, t), ls)
         /\ c[1] = "remove_all" => \A ls : Fresh(Cons(c, t), ls)
  <1>1. PICK y : y = Cons(c, t) OBVIOUS
  <1>2. Sequence(t) BY DEF Clean
  <1>3. /\ Sequence(y) /\ 1 \in DOMAIN y /\ y[1] = c
        /\ \A i \in DOMAIN t : i + 1 \in DOMAIN y /\ y[i + 1] = t[i]
        /\ \A i \in DOMAIN y : i = 1 \/ (i - 1 \in DOMAIN t /\ y[i] = t[i - 1])
        /\ DOMAIN t \subseteq Nat \ {0} /\ DOMAIN y \subseteq Nat \ {0}
    BY <1>1, <1>2, ConsFacts
  <1>4. \A i \in DOMAIN y : y[i][1] \notin Steps /\ Typed(y[i])
    BY <1>3 DEF Clean
  <1>5. ASSUME NEW i \in DOMAIN y, NEW j \in DOMAIN y, y[i][1] = "add_link"
        PROVE  /\ y[j][1] = "remove_all" => j < i
               /\ y[j][1] = "add_link" /\ SameSlot(y[i][2], y[j][2]) => i = j
    <2>1. i # 1 BY <1>3, <1>5
    <2>2. i - 1 \in DOMAIN t /\ y[i] = t[i - 1] /\ i \in Nat BY <1>3, <2>1
    <2>3. CASE j = 1
      <3>1. y[j][1] # "add_link" /\ i > 1 BY <1>3, <2>1, <2>3
      <3> QED BY <2>2, <2>3, <3>1
    <2>4. CASE j # 1
      <3>1. j - 1 \in DOMAIN t /\ y[j] = t[j - 1] /\ j \in Nat BY <1>3, <2>4
      <3>2. /\ y[j][1] = "remove_all" => j - 1 < i - 1
            /\ y[j][1] = "add_link" /\ SameSlot(y[i][2], y[j][2]) => i - 1 = j - 1
        BY <1>5, <2>2, <3>1 DEF Clean
      <3> QED BY <2>2, <3>1, <3>2
    <2> QED BY <2>3, <2>4
  <1>6. Clean(y) BY <1>3, <1>4, <1>5 DEF Clean
  <1>7. ASSUME NEW ls, Fresh(t, ls) PROVE Fresh(y, ls)
    <2>1. CASE Waits(t, "remove_all") BY <1>3, <2>1 DEF Waits, Fresh
    <2>2. CASE \A i \in DOMAIN t : \A m \in ls :
                 t[i][1] = "add_link" => ~ SameSlot(m, t[i][2])
      BY <1>3, <2>2 DEF Fresh
    <2> QED BY <1>7, <2>1, <2>2 DEF Fresh
  <1>8. c[1] = "remove_all" => Waits(y, "remove_all") BY <1>3 DEF Waits
  <1> QED BY <1>1, <1>6, <1>7, <1>8 DEF Fresh

(* Where the change in progress is. *)
Linkless(k, a) == a \in Addr => k[a] = 0
Stage(s, c, t, n, k, ls) ==
  \/ s = t /\ c = Release
  \/ s = Cons(Release, t) /\ c = Release
  \/ /\ c \in {"count_up", "count_down"} \X Addr
     /\ \/ s = Cons(c, t) /\ c[2] \in n
        \/ s = Cons(Release, Cons(c, t)) /\ c[2] \in n
        \/ s = Cons(<<"add_nbr", c[2]>>, Cons(c, t))
        \/ s = Cons(Release, Cons(<<"add_nbr", c[2]>>, Cons(c, t)))
  \/ s = Cons(c, t) /\ c[1] = "remove_link" /\ c[2] \in ls
  \/ s = Cons(c, t) /\ c[1] = "remove_nbr" /\ Linkless(k, c[2])

Outgoing(c) == IF c[1] = "remove_link" THEN {c[2]} ELSE {}
Sends(ls, a) == {l \in ls : Has(l, "TX") /\ LinkAddr[l] = a}
Due(c, a) ==
  IF c[2] # a THEN 0
  ELSE IF c[1] = "count_up" THEN 1 ELSE IF c[1] = "count_down" THEN 0 - 1 ELSE 0
Count(n, k, a) == IF a \in n THEN k[a] ELSE 0
Agree(c, n, k, ls) ==
  \A a \in Addr : Cardinality(Sends(ls, a)) = Count(n, k, a) + Due(c, a)

OnePerSlot(ls) == \A m, l \in ls : SameSlot(m, l) => m = l

Core(s, c, t, n, k, ls) ==
  /\ Clean(t) /\ Stage(s, c, t, n, k, ls) /\ Fresh(t, ls \ Outgoing(c))
  /\ Agree(c, n, k, ls)
Linked(n, k, ls) ==
  /\ ls \subseteq Link /\ n \subseteq Addr /\ k \in [Addr -> 0..255]
  /\ IsFiniteSet(ls) /\ Cardinality(ls) <= MaxLinks /\ OnePerSlot(ls)
LinkState(s, n, k, ls) == Linked(n, k, ls) /\ \E c, t : Core(s, c, t, n, k, ls)

(* The lock is held, or asked for, only by the call in progress. *)
WantsLock(s, n) ==
  /\ s # <<>>
  /\ \/ Head(s)[1] \in {"add_link", "remove_link", "remove_nbr"}
     \/ Head(s)[1] = "add_nbr" /\ Head(s)[2] \notin n
Releases(s) == s # <<>> /\ Head(s)[1] = "release"
LockUse ==
  /\ Releases(todo) => tsch_locked /\ ~ tsch_lock_requested
  /\ tsch_locked \/ tsch_lock_requested => WantsLock(todo, nbrs) \/ Releases(todo)

CountInv == LinkState(todo, nbrs, tx_links_count, links) /\ LockUse

(* What the first call tells about the stage. *)
LEMMA StageHead ==
  ASSUME NEW s, NEW c, NEW t, NEW n, NEW k, NEW ls, Clean(t),
         Stage(s, c, t, n, k, ls), s # <<>>
  PROVE  /\ Head(s)[1] \notin Steps \cup {"add_nbr"} => s = t /\ c = Release
         /\ Head(s)[1] = "release" =>
              \/ s = Cons(Release, t) /\ c = Release
              \/ /\ c \in {"count_up", "count_down"} \X Addr
                 /\ \/ s = Cons(Release, Cons(c, t)) /\ c[2] \in n
                    \/ s = Cons(Release, Cons(<<"add_nbr", c[2]>>, Cons(c, t)))
         /\ Head(s)[1] \in {"count_up", "count_down"} =>
              /\ c \in {"count_up", "count_down"} \X Addr
              /\ s = Cons(c, t) /\ c[2] \in n
         /\ Head(s)[1] = "add_nbr" =>
              \/ s = t /\ c = Release
              \/ /\ c \in {"count_up", "count_down"} \X Addr
                 /\ s = Cons(<<"add_nbr", c[2]>>, Cons(c, t))
         /\ Head(s)[1] = "remove_link" =>
              s = Cons(c, t) /\ c[1] = "remove_link" /\ c[2] \in ls
         /\ Head(s)[1] = "remove_nbr" =>
              s = Cons(c, t) /\ c[1] = "remove_nbr" /\ Linkless(k, c[2])
  <1>1. Sequence(t) BY DEF Clean
  <1>2. Sequence(Cons(c, t)) /\ Head(Cons(c, t)) = c BY <1>1, ConsFacts
  <1>3. /\ Head(Cons(Release, t)) = Release
        /\ Head(Cons(Release, Cons(c, t))) = Release
        /\ Head(Cons(<<"add_nbr", c[2]>>, Cons(c, t))) = <<"add_nbr", c[2]>>
        /\ Sequence(Cons(<<"add_nbr", c[2]>>, Cons(c, t)))
    BY <1>1, <1>2, ConsFacts
  <1>4. Head(Cons(Release, Cons(<<"add_nbr", c[2]>>, Cons(c, t)))) = Release
    BY <1>3, ConsFacts
  <1>5. Release[1] = "release" /\ <<"add_nbr", c[2]>>[1] = "add_nbr" BY DEF Release
  <1>6. c \in {"count_up", "count_down"} \X Addr => c[1] \in {"count_up", "count_down"}
    OBVIOUS
  <1>7. CASE s = t /\ c = Release
    <2>1. Head(s)[1] \notin Steps BY <1>7, CleanTail
    <2> QED BY <1>7, <2>1 DEF Steps
  <1>8. CASE s = Cons(Release, t) /\ c = Release
    <2>1. Head(s)[1] = "release" BY <1>3, <1>5, <1>8
    <2> QED BY <1>8, <2>1 DEF Steps
  <1>9. CASE c \in {"count_up", "count_down"} \X Addr
    <2>1. CASE s = Cons(c, t) /\ c[2] \in n
      <3>1. Head(s)[1] \in {"count_up", "count_down"} BY <1>2, <1>6, <1>9, <2>1
      <3> QED BY <1>9, <2>1, <3>1 DEF Steps
    <2>2. CASE s = Cons(Release, Cons(c, t)) /\ c[2] \in n
      <3>1. Head(s)[1] = "release" BY <1>3, <1>5, <2>2
      <3> QED BY <1>9, <2>2, <3>1 DEF Steps
    <2>3. CASE s = Cons(<<"add_nbr", c[2]>>, Cons(c, t))
      <3>1. Head(s)[1] = "add_nbr" BY <1>3, <1>5, <2>3
      <3> QED BY <1>9, <2>3, <3>1
    <2>4. CASE s = Cons(Release, Cons(<<"add_nbr", c[2]>>, Cons(c, t)))
      <3>1. Head(s)[1] = "release" BY <1>4, <1>5, <2>4
      <3> QED BY <1>9, <2>4, <3>1 DEF Steps
    <2>5. CASE s = Cons(c, t) /\ c[1] \in {"remove_link", "remove_nbr"}
      BY <1>6, <1>9, <2>5
    <2>6. c # Release BY <1>6, <1>5, <1>9
    <2> QED BY <2>1, <2>2, <2>3, <2>4, <2>5, <2>6 DEF Stage
  <1>10. CASE s = Cons(c, t) /\ c[1] = "remove_link" /\ c[2] \in ls
    <2>1. Head(s)[1] = "remove_link" BY <1>2, <1>10
    <2> QED BY <1>10, <2>1 DEF Steps
  <1>11. CASE s = Cons(c, t) /\ c[1] = "remove_nbr" /\ Linkless(k, c[2])
    <2>1. Head(s)[1] = "remove_nbr" BY <1>2, <1>11
    <2> QED BY <1>11, <2>1 DEF Steps
  <1> QED BY <1>7, <1>8, <1>9, <1>10, <1>11 DEF Stage

(* The links that send to a neighbor, when one link comes or goes. *)
Adds(l, a) == IF Has(l, "TX") /\ LinkAddr[l] = a THEN 1 ELSE 0

LEMMA SendsFinite ==
  ASSUME NEW ls, IsFiniteSet(ls), NEW a
  PROVE  /\ IsFiniteSet(Sends(ls, a)) /\ Cardinality(Sends(ls, a)) \in Nat
         /\ Cardinality(Sends(ls, a)) <= Cardinality(ls)
  <1>1. Sends(ls, a) \in SUBSET ls BY DEF Sends
  <1>2. IsFiniteSet(Sends(ls, a)) /\ Cardinality(Sends(ls, a)) <= Cardinality(ls)
    BY <1>1, FS_Subset
  <1> QED BY <1>2, FS_CardinalityType

LEMMA SendsAdd ==
  ASSUME NEW ls, IsFiniteSet(ls), NEW l, l \notin ls, NEW a
  PROVE  Cardinality(Sends(ls \cup {l}, a)) =
           Cardinality(Sends(ls, a)) + Adds(l, a)
  <1>1. IsFiniteSet(Sends(ls, a)) /\ Cardinality(Sends(ls, a)) \in Nat BY SendsFinite
  <1>2. CASE Has(l, "TX") /\ LinkAddr[l] = a
    <2>1. Sends(ls \cup {l}, a) = Sends(ls, a) \cup {l} /\ l \notin Sends(ls, a)
      BY <1>2 DEF Sends
    <2>2. Cardinality(Sends(ls, a) \cup {l}) = Cardinality(Sends(ls, a)) + 1
      BY <1>1, <2>1, FS_AddElement
    <2> QED BY <1>2, <2>1, <2>2 DEF Adds
  <1>3. CASE ~ (Has(l, "TX") /\ LinkAddr[l] = a)
    <2>1. Sends(ls \cup {l}, a) = Sends(ls, a) BY <1>3 DEF Sends
    <2> QED BY <1>1, <1>3, <2>1 DEF Adds
  <1> QED BY <1>2, <1>3

LEMMA SendsRemove ==
  ASSUME NEW ls, IsFiniteSet(ls), NEW l, l \in ls, NEW a
  PROVE  Cardinality(Sends(ls, a)) =
           Cardinality(Sends(ls \ {l}, a))
             + Adds(l, a)
  <1>1. IsFiniteSet(ls \ {l}) BY FS_RemoveElement
  <1>2. (ls \ {l}) \cup {l} = ls OBVIOUS
  <1>3. l \notin ls \ {l} OBVIOUS
  <1>4. Cardinality(Sends((ls \ {l}) \cup {l}, a)) =
           Cardinality(Sends(ls \ {l}, a))
             + Adds(l, a)
    BY <1>1, <1>3, SendsAdd
  <1> QED BY <1>2, <1>4

(* The call in progress is a planned one, and does not need the lock. *)
LEMMA Planned ==
  ASSUME CountInv, todo # <<>>, Head(todo)[1] \notin Steps \cup {"add_nbr"}
  PROVE  /\ Clean(todo) /\ Fresh(todo, links)
         /\ Agree(Release, nbrs, tx_links_count, links)
         /\ Clean(Tail(todo)) /\ Sequence(Tail(todo))
         /\ Head(todo)[1] # "add_link" => ~ tsch_locked /\ ~ tsch_lock_requested
         /\ Head(todo)[1] # "remove_all" => Fresh(Tail(todo), links)
  <1>1. PICK c, t : Core(todo, c, t, nbrs, tx_links_count, links)
    BY DEF CountInv, LinkState
  <1>2. todo = t /\ c = Release BY <1>1, StageHead DEF Core
  <1>3. Outgoing(Release) = {} BY DEF Outgoing, Release
  <1>4. Clean(todo) /\ Fresh(todo, links) /\ Agree(Release, nbrs, tx_links_count, links)
    BY <1>1, <1>2, <1>3 DEF Core
  <1>5. Clean(Tail(todo)) /\ (Head(todo)[1] # "remove_all" => Fresh(Tail(todo), links))
    BY <1>4, CleanTail
  <1>6. Sequence(Tail(todo)) BY <1>5 DEF Clean
  <1>7. Head(todo)[1] # "add_link" => ~ tsch_locked /\ ~ tsch_lock_requested
    BY DEF CountInv, LockUse, WantsLock, Releases, Steps
  <1> QED BY <1>4, <1>5, <1>6, <1>7

LEMMA CleanQuiet ==
  ASSUME NEW t, Clean(t) PROVE ~ Releases(t)
  BY CleanTail DEF Releases, Steps

(* It returns, or makes other planned calls. *)
LEMMA PlanStep ==
  ASSUME CountInv, UNCHANGED <<links, nbrs, tx_links_count, lockVars>>,
         ~ tsch_locked, ~ tsch_lock_requested, Clean(todo'), Fresh(todo', links),
         Agree(Release, nbrs, tx_links_count, links)
  PROVE  CountInv'
  <1>1. Outgoing(Release) = {} BY DEF Outgoing, Release
  <1>2. Core(todo', Release, todo', nbrs, tx_links_count, links)
    BY <1>1 DEF Core, Stage
  <1>3. Linked(nbrs, tx_links_count, links) BY DEF CountInv, LinkState
  <1>4. LinkState(todo', nbrs', tx_links_count', links') BY <1>2, <1>3 DEF LinkState
  <1>5. ~ Releases(todo') BY CleanQuiet
  <1>6. LockUse' BY <1>5 DEF LockUse, lockVars, Releases
  <1>7. LinkState(todo, nbrs, tx_links_count, links)' BY <1>4
  <1> QED BY <1>6, <1>7 DEF CountInv

LEMMA PlanReturn ==
  ASSUME CountInv, UNCHANGED <<links, nbrs, tx_links_count, lockVars>>, todo # <<>>,
         Head(todo)[1] \notin Steps \cup {"add_nbr", "add_link", "remove_all"}, Return
  PROVE  CountInv'
  BY Planned, PlanStep DEF Return

(* The change goes on with the call c, before the planned calls t. *)
LEMMA ChangeStep ==
  ASSUME CountInv, NEW c, NEW t, Core(todo', c, t, nbrs', tx_links_count', links'),
         Linked(nbrs', tx_links_count', links'),
         \/ /\ UNCHANGED lockVars /\ tsch_locked /\ ~ tsch_lock_requested
            /\ Releases(todo')
         \/ ~ tsch_locked' /\ ~ tsch_lock_requested' /\ ~ Releases(todo')
  PROVE  CountInv'
  <1>1. LinkState(todo', nbrs', tx_links_count', links') BY DEF LinkState
  <1>2. LinkState(todo, nbrs, tx_links_count, links)' BY <1>1
  <1>3. LockUse' BY DEF LockUse, lockVars, Releases
  <1> QED BY <1>2, <1>3 DEF CountInv

(* tsch_get_lock() and tsch_release_lock() *)
LEMMA CountLock == ASSUME CountInv, Lock PROVE CountInv'
  <1>1. CASE get_lock_request \/ get_lock_take \/ get_lock_return
    <2>1. UNCHANGED <<todo, links, nbrs, tx_links_count>>
      BY <1>1 DEF get_lock_request, get_lock_take, get_lock_return, nbrVars
    <2>2. LinkState(todo, nbrs, tx_links_count, links)' BY <2>1 DEF CountInv
    <2>3. WantsLock(todo, nbrs) /\ ~ Releases(todo)
      <3>1. CASE get_lock_request
        BY <3>1 DEF get_lock_request, Locking, Doing, Arg, WantsLock, Releases
      <3>2. CASE get_lock_take \/ get_lock_return
        <4>1. tsch_lock_requested BY <3>2 DEF get_lock_take, get_lock_return
        <4>2. ~ Releases(todo) BY <4>1 DEF CountInv, LockUse
        <4> QED BY <4>1, <4>2 DEF CountInv, LockUse
      <3> QED BY <1>1, <3>1, <3>2
    <2>4. LockUse' BY <2>1, <2>3 DEF LockUse, WantsLock, Releases
    <2> QED BY <2>2, <2>4 DEF CountInv
  <1>2. CASE tsch_release_lock
    <2>1. /\ todo # <<>> /\ Head(todo)[1] = "release" /\ todo' = Tail(todo)
          /\ ~ tsch_locked' /\ tsch_lock_requested' = tsch_lock_requested
          /\ UNCHANGED <<links, nbrs, tx_links_count>>
      BY <1>2 DEF tsch_release_lock, Doing, Return, nbrVars
    <2>2. ~ tsch_lock_requested' BY <2>1 DEF CountInv, LockUse, Releases
    <2>3. PICK c, t : Core(todo, c, t, nbrs, tx_links_count, links)
      BY DEF CountInv, LinkState
    <2>4. Clean(t) /\ Sequence(t) BY <2>3 DEF Core, Clean
    <2>5. Linked(nbrs, tx_links_count, links) BY DEF CountInv, LinkState
    <2>6. /\ Sequence(Cons(c, t)) /\ Cons(c, t) # <<>> /\ Head(Cons(c, t)) = c
      BY <2>4, ConsFacts
    <2>7. CASE todo = Cons(Release, t) /\ c = Release
      <3>1. todo' = t BY <2>1, <2>4, <2>7, ConsFacts
      <3>2. Core(todo', c, t, nbrs, tx_links_count, links)
        BY <2>3, <2>7, <3>1 DEF Core, Stage
      <3>3. ~ Releases(todo') BY <2>4, <3>1, CleanQuiet
      <3> QED BY <2>1, <2>2, <2>5, <3>2, <3>3, ChangeStep
    <2>8. CASE /\ c \in {"count_up", "count_down"} \X Addr
               /\ todo = Cons(Release, Cons(c, t)) /\ c[2] \in nbrs
      <3>1. todo' = Cons(c, t) BY <2>1, <2>6, <2>8, ConsFacts
      <3>2. Core(todo', c, t, nbrs, tx_links_count, links)
        BY <2>3, <2>8, <3>1 DEF Core, Stage
      <3>3. c[1] # "release" BY <2>8
      <3>4. ~ Releases(todo') BY <2>6, <3>1, <3>3 DEF Releases
      <3> QED BY <2>1, <2>2, <2>5, <3>2, <3>4, ChangeStep
    <2>9. CASE /\ c \in {"count_up", "count_down"} \X Addr
               /\ todo = Cons(Release, Cons(<<"add_nbr", c[2]>>, Cons(c, t)))
      <3>1. /\ Sequence(Cons(<<"add_nbr", c[2]>>, Cons(c, t)))
            /\ Head(Cons(<<"add_nbr", c[2]>>, Cons(c, t))) = <<"add_nbr", c[2]>>
        BY <2>6, ConsFacts
      <3>2. todo' = Cons(<<"add_nbr", c[2]>>, Cons(c, t))
        BY <2>1, <2>9, <3>1, ConsFacts
      <3>3. Core(todo', c, t, nbrs, tx_links_count, links)
        BY <2>3, <2>9, <3>2 DEF Core, Stage
      <3>4. ~ Releases(todo') BY <3>1, <3>2 DEF Releases
      <3> QED BY <2>1, <2>2, <2>5, <3>3, <3>4, ChangeStep
    <2> QED BY <2>1, <2>3, <2>4, <2>7, <2>8, <2>9, StageHead DEF Core
  <1> QED BY <1>1, <1>2 DEF Lock

(* There is an entry for every neighbor. *)
RoomForLinks ==
  IsFiniteSet(Addr) /\ Cardinality(Addr) <= MaxNeighbors /\ MaxLinks <= 255

LEMMA EntryFree ==
  ASSUME RoomForLinks, NEW n \in SUBSET Addr, NEW a \in Addr \ n
  PROVE  Cardinality(n) < MaxNeighbors
  <1>1. /\ IsFiniteSet(n) /\ Cardinality(n) <= Cardinality(Addr)
        /\ Cardinality(Addr) = Cardinality(n) => Addr = n
    BY FS_Subset DEF RoomForLinks
  <1>2. Addr # n OBVIOUS
  <1>3. Cardinality(n) \in Nat /\ Cardinality(Addr) \in Nat
    BY <1>1, FS_CardinalityType DEF RoomForLinks
  <1>4. MaxNeighbors \in Nat BY TschAssumption
  <1> QED BY <1>1, <1>2, <1>3, <1>4 DEF RoomForLinks

LEMMA ReleaseFirst ==
  ASSUME NEW t, Sequence(t) PROVE Releases(Cons(Release, t))
  <1>1. Release[1] = "release" BY DEF Release
  <1> QED BY <1>1, ConsFacts DEF Releases

LEMMA CountAddNbr ==
  ASSUME RoomForLinks, CountInv, add_nbr_known \/ tsch_queue_add_nbr
  PROVE  CountInv'
  <1>1. todo # <<>> /\ Head(todo)[1] = "add_nbr" /\ links' = links
    BY DEF add_nbr_known, tsch_queue_add_nbr, Doing
  <1>2. PICK c, t : Core(todo, c, t, nbrs, tx_links_count, links)
    BY DEF CountInv, LinkState
  <1>3. Clean(t) /\ Sequence(t) BY <1>2 DEF Core, Clean
  <1>4. Linked(nbrs, tx_links_count, links) BY DEF CountInv, LinkState
  <1>5. /\ Sequence(Cons(c, t)) /\ Cons(c, t) # <<>> /\ Head(Cons(c, t)) = c
    BY <1>3, ConsFacts
  <1>a. Stage(todo, c, t, nbrs, tx_links_count, links) BY <1>2 DEF Core
  <1>6. \/ todo = t /\ c = Release
        \/ /\ c \in {"count_up", "count_down"} \X Addr
           /\ todo = Cons(<<"add_nbr", c[2]>>, Cons(c, t))
    BY <1>1, <1>3, <1>a, StageHead
  <1>7. ~ Releases(todo) BY <1>1 DEF Releases
  <1>8. c \in {"count_up", "count_down"} \X Addr => c[1] # "release" /\ c[2] \in Addr
    OBVIOUS
  <1>9. ASSUME c \in {"count_up", "count_down"} \X Addr,
               todo = Cons(<<"add_nbr", c[2]>>, Cons(c, t))
        PROVE  Tail(todo) = Cons(c, t) /\ Arg = c[2]
    <2>1. Tail(todo) = Cons(c, t) /\ Head(todo) = <<"add_nbr", c[2]>>
      BY <1>5, <1>9, ConsFacts
    <2> QED BY <2>1 DEF Arg
  <1>10. ASSUME todo = t, c = Release
         PROVE  Clean(Tail(todo)) /\ Fresh(Tail(todo), links \ Outgoing(c)) /\ Arg \in Addr
    <2>1. Fresh(t, links \ Outgoing(c)) BY <1>2 DEF Core
    <2> QED BY <1>1, <1>3, <1>10, <2>1, CleanTail DEF Typed, Arg
  <1>11. CASE add_nbr_known
    <2>1. /\ Arg \in nbrs /\ ~ tsch_locked /\ todo' = Tail(todo)
          /\ UNCHANGED <<nbrs, tx_links_count, lockVars>>
      BY <1>11 DEF add_nbr_known, Return, nbrVars
    <2>2. ~ tsch_lock_requested
      BY <1>1, <1>7, <2>1 DEF CountInv, LockUse, WantsLock, Arg
    <2>3. CASE todo = t /\ c = Release
      <3>1. Clean(todo') /\ Fresh(todo', links \ Outgoing(c)) BY <1>10, <2>1, <2>3
      <3>2. Core(todo', c, todo', nbrs, tx_links_count, links)
        BY <1>2, <2>3, <3>1 DEF Core, Stage
      <3>3. ~ Releases(todo') BY <3>1, CleanQuiet
      <3> QED BY <1>1, <1>4, <2>1, <2>2, <3>2, <3>3, ChangeStep DEF lockVars
    <2>4. CASE /\ c \in {"count_up", "count_down"} \X Addr
               /\ todo = Cons(<<"add_nbr", c[2]>>, Cons(c, t))
      <3>1. todo' = Cons(c, t) /\ c[2] \in nbrs BY <1>9, <2>1, <2>4
      <3>2. Core(todo', c, t, nbrs, tx_links_count, links)
        BY <1>2, <2>4, <3>1 DEF Core, Stage
      <3>3. ~ Releases(todo') BY <1>5, <1>8, <2>4, <3>1 DEF Releases
      <3> QED BY <1>1, <1>4, <2>1, <2>2, <3>2, <3>3, ChangeStep DEF lockVars
    <2> QED BY <1>6, <2>3, <2>4
  <1>12. CASE tsch_queue_add_nbr
    <2>1. /\ tsch_locked /\ ~ tsch_lock_requested /\ UNCHANGED lockVars
          /\ todo' = <<Release>> \o Tail(todo)
      BY <1>12 DEF tsch_queue_add_nbr, Inside, ReturnTo
    <2>2. Arg \notin nbrs
      BY <1>1, <1>7, <2>1 DEF CountInv, LockUse, WantsLock, Arg
    <2>3. Arg \in Addr BY <1>6, <1>8, <1>9, <1>10
    <2>4. nbrs \in SUBSET Addr /\ tx_links_count \in [Addr -> 0..255]
      BY <1>4 DEF Linked
    <2>5. Cardinality(nbrs) < MaxNeighbors BY <2>2, <2>3, <2>4, EntryFree
    <2>6. /\ nbrs' = nbrs \cup {Arg}
          /\ tx_links_count' = [tx_links_count EXCEPT ![Arg] = 0]
      BY <1>12, <2>5 DEF tsch_queue_add_nbr
    <2>7. PICK a : a = Arg OBVIOUS
    <2>8. Linked(nbrs', tx_links_count', links')
      BY <1>1, <1>4, <2>3, <2>4, <2>6 DEF Linked
    <2>9. \A b \in Addr : Count(nbrs', tx_links_count', b) = Count(nbrs, tx_links_count, b)
      BY <2>2, <2>3, <2>4, <2>6 DEF Count
    <2>10. Agree(c, nbrs', tx_links_count', links')
      BY <1>1, <1>2, <2>9 DEF Core, Agree
    <2>11. CASE todo = t /\ c = Release
      <3>1. Clean(Tail(todo)) /\ Fresh(Tail(todo), links \ Outgoing(c))
        BY <1>10, <2>11
      <3>2. todo' = Cons(Release, Tail(todo)) BY <2>1 DEF Cons
      <3>3. Core(todo', c, Tail(todo), nbrs', tx_links_count', links')
        BY <1>1, <2>10, <2>11, <3>1, <3>2 DEF Core, Stage
      <3>4. Releases(todo') BY <3>1, <3>2, ReleaseFirst DEF Clean
      <3> QED BY <2>1, <2>8, <3>3, <3>4, ChangeStep
    <2>12. CASE /\ c \in {"count_up", "count_down"} \X Addr
                /\ todo = Cons(<<"add_nbr", c[2]>>, Cons(c, t))
      <3>1. todo' = Cons(Release, Cons(c, t)) /\ c[2] \in nbrs'
        BY <1>9, <2>1, <2>6, <2>12 DEF Cons
      <3>2. Core(todo', c, t, nbrs', tx_links_count', links')
        BY <1>1, <1>2, <2>10, <2>12, <3>1 DEF Core, Stage
      <3>3. Releases(todo') BY <1>5, <3>1, ReleaseFirst
      <3> QED BY <2>1, <2>8, <3>2, <3>3, ChangeStep
    <2> QED BY <1>6, <2>11, <2>12
  <1> QED BY <1>11, <1>12

(* tsch_queue_remove_nbr(): the neighbor has no link. *)
LEMMA CountRemoveNbr == ASSUME CountInv, tsch_queue_remove_nbr PROVE CountInv'
  <1>1. /\ todo # <<>> /\ Head(todo)[1] = "remove_nbr" /\ tsch_locked
        /\ ~ tsch_lock_requested /\ UNCHANGED <<lockVars, links, tx_links_count>>
        /\ nbrs' = nbrs \ {Arg}
        /\ todo' = <<Release, <<"flush", Arg>>>> \o Tail(todo)
    BY DEF tsch_queue_remove_nbr, Doing, Inside, ReturnTo
  <1>2. PICK c, t : Core(todo, c, t, nbrs, tx_links_count, links)
    BY DEF CountInv, LinkState
  <1>3. /\ Clean(t) /\ Sequence(t) /\ Stage(todo, c, t, nbrs, tx_links_count, links)
        /\ Fresh(t, links \ Outgoing(c)) /\ Agree(c, nbrs, tx_links_count, links)
    BY <1>2 DEF Core, Clean
  <1>4. todo = Cons(c, t) /\ c[1] = "remove_nbr" /\ Linkless(tx_links_count, c[2])
    BY <1>1, <1>3, StageHead
  <1>5. Arg = c[2] /\ Tail(todo) = t BY <1>3, <1>4, ConsFacts DEF Arg
  <1>6. PICK f : f = <<"flush", Arg>> OBVIOUS
  <1>7. f[1] = "flush" BY <1>6
  <1>8. Clean(Cons(f, t)) /\ Fresh(Cons(f, t), links \ Outgoing(c))
    BY <1>3, <1>7, CleanCons DEF Typed, Steps
  <1>d. <<Release, f>> \o t = Cons(Release, Cons(f, t)) BY <1>3, ConsTwo
  <1>9. todo' = Cons(Release, Cons(f, t)) BY <1>1, <1>5, <1>6, <1>d
  <1>10. Outgoing(c) = Outgoing(Release) BY <1>4 DEF Outgoing, Release
  <1>11. \A a \in Addr : Due(c, a) = 0 /\ Due(Release, a) = 0
    BY <1>4 DEF Due, Release
  <1>12. \A a \in Addr : Count(nbrs', tx_links_count', a) = Count(nbrs, tx_links_count, a)
    BY <1>1, <1>4, <1>5 DEF Count, Linkless
  <1>13. Agree(Release, nbrs', tx_links_count', links')
    BY <1>1, <1>3, <1>11, <1>12 DEF Agree
  <1>14. Core(todo', Release, Cons(f, t), nbrs', tx_links_count', links')
    BY <1>1, <1>8, <1>9, <1>10, <1>13 DEF Core, Stage
  <1>15. Linked(nbrs', tx_links_count', links')
    <2>1. Linked(nbrs, tx_links_count, links) BY DEF CountInv, LinkState
    <2> QED BY <1>1, <2>1 DEF Linked
  <1>16. Releases(todo') BY <1>8, <1>9, ReleaseFirst DEF Clean
  <1> QED BY <1>1, <1>14, <1>15, <1>16, ChangeStep

LEMMA ByteUp == ASSUME NEW k \in 0..255, k + 1 <= 255 PROVE (k + 1) % 256 = k + 1
  OBVIOUS
LEMMA ByteDown == ASSUME NEW k \in 0..255, k >= 1 PROVE (k + 255) % 256 = k - 1
  OBVIOUS

(* The counter is corrected; it does not wrap. *)
LEMMA CountCounts == ASSUME RoomForLinks, CountInv, count_links PROVE CountInv'
  <1>1. /\ todo # <<>> /\ Head(todo)[1] \in {"count_up", "count_down"}
        /\ UNCHANGED <<lockVars, links, nbrs>> /\ todo' = Tail(todo)
    BY DEF count_links, Doing, Return
  <1>2. PICK c, t : Core(todo, c, t, nbrs, tx_links_count, links)
    BY DEF CountInv, LinkState
  <1>3. /\ Clean(t) /\ Sequence(t) /\ Stage(todo, c, t, nbrs, tx_links_count, links)
        /\ Fresh(t, links \ Outgoing(c)) /\ Agree(c, nbrs, tx_links_count, links)
    BY <1>2 DEF Core, Clean
  <1>4. /\ c \in {"count_up", "count_down"} \X Addr
        /\ todo = Cons(c, t) /\ c[2] \in nbrs
    BY <1>1, <1>3, StageHead
  <1>5. Head(todo) = c /\ Arg = c[2] /\ todo' = t BY <1>1, <1>3, <1>4, ConsFacts DEF Arg
  <1>6. c[1] \in {"count_up", "count_down"} /\ c[2] \in Addr BY <1>4
  <1>7. PICK a : a = c[2] OBVIOUS
  <1>8. PICK k : k = tx_links_count OBVIOUS
  <1>9. Linked(nbrs, k, links) BY <1>8 DEF CountInv, LinkState
  <1>10. /\ k \in [Addr -> 0..255] /\ IsFiniteSet(links) /\ Cardinality(links) <= MaxLinks
    BY <1>9 DEF Linked
  <1>11. tx_links_count' =
           [k EXCEPT ![a] = (IF c[1] = "count_up" THEN k[a] + 1 ELSE k[a] + 255) % 256]
    <2>1. Arg \in nbrs BY <1>4, <1>5
    <2>2. Doing("count_up") <=> c[1] = "count_up" BY <1>1, <1>5 DEF Doing
    <2> QED BY <1>5, <1>7, <1>8, <2>1, <2>2 DEF count_links
  <1>12. /\ Cardinality(Sends(links, a)) \in Nat
         /\ Cardinality(Sends(links, a)) <= 255
    <2>1. /\ Cardinality(Sends(links, a)) \in Nat
          /\ Cardinality(Sends(links, a)) <= Cardinality(links)
      BY <1>10, SendsFinite
    <2>2. Cardinality(links) \in Nat BY <1>10, FS_CardinalityType
    <2>3. MaxLinks \in Nat /\ MaxLinks <= 255 BY TschAssumption DEF RoomForLinks
    <2> QED BY <1>10, <2>1, <2>2, <2>3
  <1>13. Cardinality(Sends(links, a)) = k[a] + Due(c, a)
    BY <1>3, <1>4, <1>6, <1>7, <1>8 DEF Agree, Count
  <1>14. k[a] \in 0..255 BY <1>6, <1>7, <1>10
  <1>15. PICK v : v = (IF c[1] = "count_up" THEN k[a] + 1 ELSE k[a] + 255) % 256 OBVIOUS
  <1>16. v \in 0..255 /\ Cardinality(Sends(links, a)) = v
    <2>1. CASE c[1] = "count_up"
      <3>1. Cardinality(Sends(links, a)) = k[a] + 1 BY <1>7, <1>13, <2>1 DEF Due
      <3>2. v = (k[a] + 1) % 256 BY <1>15, <2>1
      <3>3. v = k[a] + 1 BY <1>12, <1>14, <3>1, <3>2, ByteUp
      <3> QED BY <1>12, <3>1, <3>3
    <2>2. CASE c[1] = "count_down"
      <3>1. Cardinality(Sends(links, a)) = k[a] - 1 BY <1>7, <1>13, <1>14, <2>2 DEF Due
      <3>2. v = (k[a] + 255) % 256 BY <1>15, <2>2
      <3>3. k[a] >= 1 BY <1>12, <1>14, <3>1
      <3>4. v = k[a] - 1 BY <1>14, <3>2, <3>3, ByteDown
      <3>5. v \in 0..255 BY <1>14, <3>3, <3>4
      <3> QED BY <3>1, <3>4, <3>5
    <2> QED BY <1>6, <2>1, <2>2
  <1>17. tx_links_count' = [k EXCEPT ![a] = v] BY <1>11, <1>15
  <1>18. Linked(nbrs', tx_links_count', links')
    BY <1>1, <1>9, <1>16, <1>17 DEF Linked
  <1>19. Agree(Release, nbrs', tx_links_count', links')
    <2> SUFFICES ASSUME NEW b \in Addr
                 PROVE  Cardinality(Sends(links, b)) =
                          Count(nbrs, tx_links_count', b) + Due(Release, b)
      BY <1>1 DEF Agree
    <2>1. Due(Release, b) = 0 BY DEF Due, Release
    <2>2. CASE b = a
      <3>1. Count(nbrs, tx_links_count', b) = v
        BY <1>4, <1>7, <1>10, <1>17, <2>2 DEF Count
      <3> QED BY <1>16, <2>1, <2>2, <3>1
    <2>3. CASE b # a
      <3>1. Count(nbrs, tx_links_count', b) = Count(nbrs, k, b)
        BY <1>10, <1>17, <2>3 DEF Count
      <3>2. Due(c, b) = 0 BY <1>7, <2>3 DEF Due
      <3>3. Cardinality(Sends(links, b)) = Count(nbrs, k, b) + Due(c, b)
        BY <1>3, <1>8 DEF Agree
      <3> QED BY <2>1, <3>1, <3>2, <3>3
    <2> QED BY <2>2, <2>3
  <1>20. Outgoing(c) = Outgoing(Release) BY <1>6 DEF Outgoing, Release
  <1>21. Core(todo', Release, t, nbrs', tx_links_count', links')
    BY <1>1, <1>3, <1>5, <1>19, <1>20 DEF Core, Stage
  <1>22. ~ Releases(todo') BY <1>3, <1>5, CleanQuiet
  <1>23. ~ tsch_locked /\ ~ tsch_lock_requested
    BY <1>1 DEF CountInv, LockUse, WantsLock, Releases
  <1> QED BY <1>1, <1>18, <1>21, <1>22, <1>23, ChangeStep DEF lockVars

(* The calls that follow a change of the links. *)
LEMMA CountedStage ==
  ASSUME NEW l \in Link, NEW op \in {"count_up", "count_down"}, NEW t, Sequence(t),
         NEW n, NEW k, NEW ls
  PROVE  /\ Has(l, "TX") =>
              Stage((<<Release>> \o Counted(l, op)) \o t, <<op, LinkAddr[l]>>, t, n, k, ls)
         /\ ~ Has(l, "TX") =>
              Stage((<<Release>> \o Counted(l, op)) \o t, Release, t, n, k, ls)
         /\ Releases((<<Release>> \o Counted(l, op)) \o t)
  <1>1. PICK a : a = LinkAddr[l] OBVIOUS
  <1>2. a \in Addr BY <1>1, TschAssumption
  <1>3. PICK c : c = <<op, a>> OBVIOUS
  <1>4. c \in {"count_up", "count_down"} \X Addr /\ c[2] = a BY <1>2, <1>3
  <1>5. CASE Has(l, "TX")
    <2>1. Counted(l, op) = <<<<"add_nbr", a>>, c>> BY <1>1, <1>3, <1>5 DEF Counted
    <2>2. PICK d : d = <<"add_nbr", a>> OBVIOUS
    <2>a. PICK r : r = Release OBVIOUS
    <2>b. <<r, d, c>> = <<r>> \o <<d, c>> OBVIOUS
    <2>3. <<Release>> \o <<d, c>> = <<Release, d, c>> BY <2>a, <2>b
    <2>4. <<Release, d, c>> \o t = Cons(Release, Cons(d, Cons(c, t))) BY ConsThree
    <2>5. (<<Release>> \o Counted(l, op)) \o t = Cons(Release, Cons(d, Cons(c, t)))
      BY <2>1, <2>2, <2>3, <2>4
    <2>6. Sequence(Cons(d, Cons(c, t))) BY ConsFacts
    <2> QED BY <1>1, <1>3, <1>4, <1>5, <2>2, <2>5, <2>6, ReleaseFirst DEF Stage
  <1>6. CASE ~ Has(l, "TX")
    <2>1. Counted(l, op) = <<>> BY <1>6 DEF Counted
    <2>2. <<Release>> \o <<>> = <<Release>> OBVIOUS
    <2>3. (<<Release>> \o Counted(l, op)) \o t = Cons(Release, t)
      BY <2>1, <2>2 DEF Cons
    <2> QED BY <1>6, <2>3, ReleaseFirst DEF Stage
  <1> QED BY <1>5, <1>6

LEMMA CountAddLink == ASSUME CountInv, tsch_schedule_add_link PROVE CountInv'
  <1>1. /\ todo # <<>> /\ Head(todo)[1] = "add_link" /\ tsch_locked
        /\ ~ tsch_lock_requested /\ UNCHANGED <<lockVars, nbrs, tx_links_count>>
    BY DEF tsch_schedule_add_link, Doing, Inside, nbrVars
  <1>2. /\ Clean(todo) /\ Fresh(todo, links)
        /\ Agree(Release, nbrs, tx_links_count, links)
        /\ Clean(Tail(todo)) /\ Sequence(Tail(todo)) /\ Fresh(Tail(todo), links)
    BY <1>1, Planned DEF Steps
  <1>3. PICK l : l = Arg OBVIOUS
  <1>4. PICK t : t = Tail(todo) OBVIOUS
  <1>5. Head(todo)[2] = l BY <1>3 DEF Arg
  <1>6. l \in Link BY <1>1, <1>2, <1>5, CleanTail DEF Typed
  <1>7. /\ ~ Waits(todo, "remove_all")
        /\ \A i \in DOMAIN t : t[i][1] = "add_link" => ~ SameSlot(l, t[i][2])
    <2>1. Sequence(todo) BY <1>2 DEF Clean
    <2>2. todo = Cons(Head(todo), t) BY <1>1, <1>4, <2>1, ConsHead
    <2>3. todo[1] = Head(todo) BY <1>2, <1>4, <2>2, ConsFacts
    <2> QED BY <1>1, <1>2, <1>4, <1>5, <2>3, CleanTail
  <1>8. Linked(nbrs, tx_links_count, links) BY DEF CountInv, LinkState
  <1>9. CASE Cardinality(links) < MaxLinks
    <2>1. links' = links \cup {l} /\ todo' = (<<Release>> \o Counted(l, "count_up")) \o t
      BY <1>3, <1>4, <1>9 DEF tsch_schedule_add_link, ReturnTo
    <2>2. \A m \in links : ~ SameSlot(m, l)
      <3>1. Sequence(todo) BY <1>2 DEF Clean
      <3>2. todo = Cons(Head(todo), t) BY <1>1, <1>4, <3>1, ConsHead
      <3>3. 1 \in DOMAIN todo /\ todo[1] = Head(todo) BY <1>2, <1>4, <3>2, ConsFacts
      <3>4. \A i \in DOMAIN todo : \A m \in links :
              todo[i][1] = "add_link" => ~ SameSlot(m, todo[i][2])
        BY <1>2, <1>7 DEF Fresh
      <3> QED BY <1>1, <1>5, <3>3, <3>4
    <2>3. SameSlot(l, l) BY DEF SameSlot
    <2>4. l \notin links BY <2>2, <2>3
    <2>5. Linked(nbrs', tx_links_count', links')
      <3>1. /\ IsFiniteSet(links) /\ Cardinality(links) <= MaxLinks /\ OnePerSlot(links)
            /\ links \subseteq Link
        BY <1>8 DEF Linked
      <3>2. IsFiniteSet(links \cup {l}) /\ Cardinality(links \cup {l}) = Cardinality(links) + 1
        BY <2>4, <3>1, FS_AddElement
      <3>3. Cardinality(links) \in Nat /\ MaxLinks \in Nat
        BY <3>1, FS_CardinalityType, TschAssumption
      <3>4. Cardinality(links \cup {l}) <= MaxLinks BY <1>9, <3>2, <3>3
      <3>5. \A m \in links : ~ SameSlot(l, m) BY <2>2 DEF SameSlot
      <3>6. OnePerSlot(links \cup {l})
        BY <2>2, <3>1, <3>5 DEF OnePerSlot
      <3> QED BY <1>1, <1>6, <1>8, <2>1, <3>1, <3>2, <3>4, <3>6 DEF Linked
    <2>6. Fresh(t, links')
      <3>1. CASE Waits(t, "remove_all") BY <3>1 DEF Fresh
      <3>2. CASE \A i \in DOMAIN t : \A m \in links :
                   t[i][1] = "add_link" => ~ SameSlot(m, t[i][2])
        BY <1>7, <2>1, <3>2 DEF Fresh
      <3> QED BY <1>2, <1>4, <3>1, <3>2 DEF Fresh
    <2>7. \A a \in Addr : Cardinality(Sends(links', a)) =
             Count(nbrs, tx_links_count, a)
               + Adds(l, a)
      <3> SUFFICES ASSUME NEW a \in Addr
                   PROVE  Cardinality(Sends(links', a)) =
                            Count(nbrs, tx_links_count, a)
                              + Adds(l, a)
        OBVIOUS
      <3>1. IsFiniteSet(links) BY <1>8 DEF Linked
      <3>2. Cardinality(Sends(links, a)) \in Nat BY <3>1, SendsFinite
      <3>3. Cardinality(Sends(links, a)) = Count(nbrs, tx_links_count, a) + 0
        BY <1>2 DEF Agree, Due, Release
      <3>4. Count(nbrs, tx_links_count, a) \in 0..255 BY <1>8 DEF Linked, Count
      <3>5. Cardinality(Sends(links \cup {l}, a)) =
              Cardinality(Sends(links, a))
                + Adds(l, a)
        BY <2>4, <3>1, SendsAdd
      <3>6. PICK x : x = Count(nbrs, tx_links_count, a) OBVIOUS
      <3>7. Cardinality(Sends(links, a)) = x BY <3>3, <3>4, <3>6
      <3> QED BY <2>1, <3>5, <3>6, <3>7
    <2>8. Clean(t) /\ Sequence(t) BY <1>2, <1>4
    <2>9. Releases(todo') BY <1>6, <2>1, <2>8, CountedStage
    <2>10. CASE Has(l, "TX")
      <3>1. PICK c : c = <<"count_up", LinkAddr[l]>> OBVIOUS
      <3>2. c[1] = "count_up" /\ c[2] = LinkAddr[l] BY <3>1
      <3>3. Stage(todo', c, t, nbrs', tx_links_count', links')
        BY <1>6, <2>1, <2>8, <2>10, <3>1, CountedStage
      <3>4. Outgoing(c) = {} BY <3>2 DEF Outgoing
      <3>5. \A a \in Addr : Due(c, a) = Adds(l, a) BY <2>10, <3>2 DEF Due, Adds
      <3>6. Agree(c, nbrs', tx_links_count', links')
        BY <1>1, <2>7, <3>5 DEF Agree
      <3>7. Core(todo', c, t, nbrs', tx_links_count', links')
        BY <2>6, <2>8, <3>3, <3>4, <3>6 DEF Core
      <3> QED BY <1>1, <2>5, <2>9, <3>7, ChangeStep
    <2>11. CASE ~ Has(l, "TX")
      <3>1. Stage(todo', Release, t, nbrs', tx_links_count', links')
        BY <1>6, <2>1, <2>8, <2>11, CountedStage
      <3>2. Outgoing(Release) = {} BY DEF Outgoing, Release
      <3>3. \A a \in Addr : Due(Release, a) = Adds(l, a)
        BY <2>11 DEF Due, Release, Adds
      <3>4. Agree(Release, nbrs', tx_links_count', links')
        BY <1>1, <2>7, <3>3 DEF Agree
      <3>5. Core(todo', Release, t, nbrs', tx_links_count', links')
        BY <2>6, <2>8, <3>1, <3>2, <3>4 DEF Core
      <3> QED BY <1>1, <2>5, <2>9, <3>5, ChangeStep
    <2> QED BY <2>10, <2>11
  <1>10. CASE ~ (Cardinality(links) < MaxLinks)
    <2>1. links' = links /\ todo' = Cons(Release, t)
      BY <1>4, <1>10 DEF tsch_schedule_add_link, ReturnTo, Cons
    <2>2. Outgoing(Release) = {} BY DEF Outgoing, Release
    <2>3. Core(todo', Release, t, nbrs', tx_links_count', links')
      BY <1>1, <1>2, <1>4, <2>1, <2>2 DEF Core, Stage
    <2>4. Releases(todo') BY <1>2, <1>4, <2>1, ReleaseFirst
    <2> QED BY <1>1, <1>8, <2>1, <2>3, <2>4, ChangeStep
  <1> QED BY <1>9, <1>10

LEMMA CountRemoveLink == ASSUME CountInv, tsch_schedule_remove_link PROVE CountInv'
  <1>1. /\ todo # <<>> /\ Head(todo)[1] = "remove_link" /\ tsch_locked
        /\ ~ tsch_lock_requested /\ UNCHANGED <<lockVars, nbrs, tx_links_count>>
        /\ links' = links \ {Arg}
        /\ todo' = (<<Release>> \o Counted(Arg, "count_down")) \o Tail(todo)
    BY DEF tsch_schedule_remove_link, Doing, Inside, nbrVars, ReturnTo
  <1>2. PICK c, t : Core(todo, c, t, nbrs, tx_links_count, links)
    BY DEF CountInv, LinkState
  <1>3. /\ Clean(t) /\ Sequence(t) /\ Stage(todo, c, t, nbrs, tx_links_count, links)
        /\ Fresh(t, links \ Outgoing(c)) /\ Agree(c, nbrs, tx_links_count, links)
    BY <1>2 DEF Core, Clean
  <1>4. todo = Cons(c, t) /\ c[1] = "remove_link" /\ c[2] \in links
    BY <1>1, <1>3, StageHead
  <1>5. PICK l : l = Arg OBVIOUS
  <1>6. l = c[2] /\ Tail(todo) = t BY <1>3, <1>4, <1>5, ConsFacts DEF Arg
  <1>7. Linked(nbrs, tx_links_count, links) BY DEF CountInv, LinkState
  <1>8. l \in links /\ l \in Link BY <1>4, <1>6, <1>7 DEF Linked
  <1>9. /\ links' = links \ {l}
        /\ todo' = (<<Release>> \o Counted(l, "count_down")) \o t
    BY <1>1, <1>5, <1>6
  <1>10. Fresh(t, links') BY <1>3, <1>4, <1>6, <1>9 DEF Outgoing
  <1>11. Linked(nbrs', tx_links_count', links')
    <2>1. /\ IsFiniteSet(links) /\ Cardinality(links) <= MaxLinks /\ OnePerSlot(links)
          /\ links \subseteq Link
      BY <1>7 DEF Linked
    <2>2. IsFiniteSet(links \ {l}) /\ Cardinality(links \ {l}) = Cardinality(links) - 1
      BY <1>8, <2>1, FS_RemoveElement
    <2>3. Cardinality(links) \in Nat /\ MaxLinks \in Nat
      BY <2>1, FS_CardinalityType, TschAssumption
    <2>4. Cardinality(links \ {l}) <= MaxLinks BY <2>1, <2>2, <2>3
    <2>5. OnePerSlot(links \ {l}) BY <2>1 DEF OnePerSlot
    <2> QED BY <1>1, <1>7, <1>9, <2>1, <2>2, <2>4, <2>5 DEF Linked
  <1>12. \A a \in Addr :
           /\ Cardinality(Sends(links', a)) \in Nat
           /\ Count(nbrs, tx_links_count, a) =
                Cardinality(Sends(links', a))
                  + Adds(l, a)
    <2> SUFFICES ASSUME NEW a \in Addr
                 PROVE  /\ Cardinality(Sends(links', a)) \in Nat
                        /\ Count(nbrs, tx_links_count, a) =
                             Cardinality(Sends(links', a))
                               + Adds(l, a)
      OBVIOUS
    <2>1. IsFiniteSet(links) /\ IsFiniteSet(links') BY <1>7, <1>11 DEF Linked
    <2>2. Cardinality(Sends(links', a)) \in Nat BY <2>1, SendsFinite
    <2>3. Cardinality(Sends(links, a)) = Count(nbrs, tx_links_count, a) + Due(c, a)
      BY <1>3 DEF Agree
    <2>4. Due(c, a) = 0 BY <1>4 DEF Due
    <2>5. Count(nbrs, tx_links_count, a) \in 0..255 BY <1>7 DEF Linked, Count
    <2>6. Cardinality(Sends(links, a)) =
            Cardinality(Sends(links \ {l}, a))
              + Adds(l, a)
      BY <1>8, <2>1, SendsRemove
    <2>7. PICK x : x = Count(nbrs, tx_links_count, a) OBVIOUS
    <2>8. Cardinality(Sends(links, a)) = x BY <2>3, <2>4, <2>5, <2>7
    <2> QED BY <1>9, <2>2, <2>6, <2>7, <2>8
  <1>13. Releases(todo') BY <1>3, <1>8, <1>9, CountedStage
  <1>16. \A a \in Addr : Cardinality(Sends(links', a)) =
                            Count(nbrs', tx_links_count', a) + (0 - Adds(l, a))
    <2> SUFFICES ASSUME NEW a \in Addr
                 PROVE  Cardinality(Sends(links', a)) =
                          Count(nbrs, tx_links_count, a) + (0 - Adds(l, a))
      BY <1>1
    <2>1. PICK x, y, z : /\ x = Cardinality(Sends(links', a))
                         /\ y = Count(nbrs, tx_links_count, a) /\ z = Adds(l, a)
      OBVIOUS
    <2>2. x \in Nat /\ y = x + z /\ z \in {0, 1} BY <1>12, <2>1 DEF Adds
    <2>3. x = y + (0 - z) BY <2>2
    <2> QED BY <2>1, <2>3
  <1>14. CASE Has(l, "TX")
    <2>1. PICK d : d = <<"count_down", LinkAddr[l]>> OBVIOUS
    <2>2. d[1] = "count_down" /\ d[2] = LinkAddr[l] BY <2>1
    <2>3. Stage(todo', d, t, nbrs', tx_links_count', links')
      BY <1>3, <1>8, <1>9, <1>14, <2>1, CountedStage
    <2>4. Outgoing(d) = {} BY <2>2 DEF Outgoing
    <2>5. \A a \in Addr : Due(d, a) = 0 - Adds(l, a) BY <1>14, <2>2 DEF Due, Adds
    <2>6. Agree(d, nbrs', tx_links_count', links')
      BY <1>16, <2>5 DEF Agree
    <2>7. Core(todo', d, t, nbrs', tx_links_count', links')
      BY <1>3, <1>10, <2>3, <2>4, <2>6 DEF Core
    <2> QED BY <1>1, <1>11, <1>13, <2>7, ChangeStep
  <1>15. CASE ~ Has(l, "TX")
    <2>1. Stage(todo', Release, t, nbrs', tx_links_count', links')
      BY <1>3, <1>8, <1>9, <1>15, CountedStage
    <2>2. Outgoing(Release) = {} BY DEF Outgoing, Release
    <2>a. \A a \in Addr : Adds(l, a) = 0 BY <1>15 DEF Adds
    <2>b. \A a \in Addr : Due(Release, a) = 0 BY DEF Due, Release
    <2>3. \A a \in Addr : Due(Release, a) = 0 - Adds(l, a) BY <2>a, <2>b
    <2>4. Agree(Release, nbrs', tx_links_count', links')
      BY <1>16, <2>3 DEF Agree
    <2>5. Core(todo', Release, t, nbrs', tx_links_count', links')
      BY <1>3, <1>10, <2>1, <2>2, <2>4 DEF Core
    <2> QED BY <1>1, <1>11, <1>13, <2>5, ChangeStep
  <1> QED BY <1>14, <1>15

(* A change begins with the call c, before the planned calls t. *)
LEMMA ChangeBegins ==
  ASSUME CountInv, UNCHANGED <<links, nbrs, tx_links_count, lockVars>>,
         ~ tsch_locked, ~ tsch_lock_requested,
         Agree(Release, nbrs, tx_links_count, links),
         NEW c, NEW t, Clean(t), todo' = Cons(c, t), Fresh(t, links \ Outgoing(c)),
         \/ c[1] = "remove_link" /\ c[2] \in links
         \/ c[1] = "remove_nbr" /\ Linkless(tx_links_count, c[2])
  PROVE  CountInv'
  <1>1. \A a \in Addr : Due(c, a) = Due(Release, a) BY DEF Due, Release
  <1>2. Agree(c, nbrs, tx_links_count, links) BY <1>1 DEF Agree
  <1>3. Core(todo', c, t, nbrs, tx_links_count, links) BY <1>2 DEF Core, Stage
  <1>4. Linked(nbrs, tx_links_count, links) BY DEF CountInv, LinkState
  <1>5. Sequence(t) BY DEF Clean
  <1>6. Head(todo') = c BY <1>5, ConsFacts
  <1>7. ~ Releases(todo') BY <1>6 DEF Releases
  <1> QED BY <1>3, <1>4, <1>7, ChangeStep DEF lockVars

LEMMA CountRemoveAll == ASSUME CountInv, tsch_schedule_remove_all PROVE CountInv'
  <1>1. /\ todo # <<>> /\ Head(todo)[1] = "remove_all"
        /\ UNCHANGED <<links, nbrs, tx_links_count, lockVars>>
    BY DEF tsch_schedule_remove_all, Doing, nbrVars
  <1>2. /\ Clean(todo) /\ Agree(Release, nbrs, tx_links_count, links)
        /\ Clean(Tail(todo)) /\ Sequence(Tail(todo))
        /\ ~ tsch_locked /\ ~ tsch_lock_requested
    BY <1>1, Planned DEF Steps
  <1>3. CASE links = {}
    <2>1. todo' = Tail(todo) BY <1>3 DEF tsch_schedule_remove_all, Return
    <2>2. Fresh(todo', links) BY <1>3 DEF Fresh
    <2> QED BY <1>1, <1>2, <2>1, <2>2, PlanStep
  <1>4. CASE links # {}
    <2>1. PICK l \in links : todo' = <<<<"remove_link", l>>, Head(todo)>> \o Tail(todo)
      BY <1>4 DEF tsch_schedule_remove_all, ReturnTo
    <2>2. PICK c : c = <<"remove_link", l>> OBVIOUS
    <2>3. c[1] = "remove_link" /\ c[2] = l BY <2>2
    <2>4. Cons(Head(todo), Tail(todo)) = todo BY <1>1, <1>2, ConsHead DEF Clean
    <2>a. PICK h, T : h = Head(todo) /\ T = Tail(todo) OBVIOUS
    <2>b. Sequence(T) BY <1>2, <2>a
    <2>5. <<c, h>> \o T = Cons(c, Cons(h, T)) BY <2>b, ConsTwo
    <2>6. todo' = Cons(c, todo) BY <2>1, <2>2, <2>4, <2>5, <2>a
    <2>7. Waits(todo, "remove_all")
      <3>1. 1 \in DOMAIN todo /\ todo[1] = Head(todo) BY <1>2, <2>4, ConsFacts
      <3> QED BY <1>1, <3>1 DEF Waits
    <2>8. Fresh(todo, links \ Outgoing(c)) BY <2>7 DEF Fresh
    <2> QED BY <1>1, <1>2, <2>3, <2>6, <2>8, ChangeBegins
  <1> QED BY <1>3, <1>4

LEMMA CountFreeUnused ==
  ASSUME CountInv, tsch_queue_free_unused_neighbors PROVE CountInv'
  <1>1. /\ todo # <<>> /\ Head(todo)[1] = "free_unused"
        /\ UNCHANGED <<links, nbrs, tx_links_count, lockVars>>
    BY DEF tsch_queue_free_unused_neighbors, Doing, nbrVars
  <1>2. CASE Return BY <1>1, <1>2, PlanReturn DEF Steps
  <1>3. ASSUME NEW a \in Arg, Unused(a),
               todo' = <<<<"remove_nbr", a>>, <<"free_unused", Arg \ {a}>>>> \o Tail(todo)
        PROVE  CountInv'
    <2>1. /\ Agree(Release, nbrs, tx_links_count, links)
          /\ Clean(Tail(todo)) /\ Sequence(Tail(todo)) /\ Fresh(Tail(todo), links)
          /\ ~ tsch_locked /\ ~ tsch_lock_requested
      BY <1>1, Planned DEF Steps
    <2>2. PICK c : c = <<"remove_nbr", a>> OBVIOUS
    <2>3. PICK d : d = <<"free_unused", Arg \ {a}>> OBVIOUS
    <2>4. c[1] = "remove_nbr" /\ c[2] = a /\ d[1] = "free_unused" BY <2>2, <2>3
    <2>a. PICK T : T = Tail(todo) OBVIOUS
    <2>b. Sequence(T) BY <2>1, <2>a
    <2>5. <<c, d>> \o T = Cons(c, Cons(d, T)) BY <2>b, ConsTwo
    <2>6. todo' = Cons(c, Cons(d, Tail(todo))) BY <1>3, <2>2, <2>3, <2>5, <2>a
    <2>7. Clean(Cons(d, Tail(todo))) /\ Fresh(Cons(d, Tail(todo)), links)
      BY <2>1, <2>4, CleanCons DEF Typed, Steps
    <2>8. links \ Outgoing(c) = links BY <2>4 DEF Outgoing
    <2>9. Linkless(tx_links_count, c[2]) BY <1>3, <2>4 DEF Unused, Linkless
    <2> QED BY <1>1, <2>1, <2>4, <2>6, <2>7, <2>8, <2>9, ChangeBegins
  <1> QED BY <1>2, <1>3 DEF tsch_queue_free_unused_neighbors, ReturnTo

(* The calls that leave links, neighbors and lock alone. *)
LEMMA CountPlain ==
  ASSUME CountInv,
         \/ tsch_queue_flush_nbr_queue \/ tsch_queue_reset \/ tsch_queue_add_packet
         \/ tsch_queue_update_time_source \/ tsch_rx_process_pending
         \/ tsch_tx_process_pending \/ dequeued_get \/ reset_done \/ associate_done
  PROVE  CountInv'
  <1>1. /\ todo # <<>>
        /\ Head(todo)[1] \in {"flush", "queue_reset", "add_packet", "set_source",
             "rx_pending", "tx_pending", "dequeued_get", "reset_done", "associate_done"}
        /\ UNCHANGED <<links, nbrs, tx_links_count, lockVars>>
    <2> USE DEF Doing, nbrVars
    <2>1. CASE tsch_queue_flush_nbr_queue BY <2>1 DEF tsch_queue_flush_nbr_queue
    <2>2. CASE tsch_queue_reset BY <2>2 DEF tsch_queue_reset
    <2>3. CASE tsch_queue_add_packet BY <2>3 DEF tsch_queue_add_packet
    <2>4. CASE tsch_queue_update_time_source BY <2>4 DEF tsch_queue_update_time_source
    <2>5. CASE tsch_rx_process_pending BY <2>5 DEF tsch_rx_process_pending
    <2>6. CASE tsch_tx_process_pending BY <2>6 DEF tsch_tx_process_pending
    <2>7. CASE dequeued_get BY <2>7 DEF dequeued_get
    <2>8. CASE reset_done BY <2>8 DEF reset_done
    <2>9. CASE associate_done BY <2>9 DEF associate_done
    <2> QED BY <2>1, <2>2, <2>3, <2>4, <2>5, <2>6, <2>7, <2>8, <2>9
  <1>2. PICK T : T = Tail(todo) OBVIOUS
  <1>3. /\ Clean(todo) /\ Fresh(todo, links)
        /\ Agree(Release, nbrs, tx_links_count, links)
        /\ Clean(T) /\ Sequence(T) /\ Fresh(T, links)
        /\ ~ tsch_locked /\ ~ tsch_lock_requested
        /\ Head(todo)[1] \notin Steps /\ Typed(Head(todo))
    BY <1>1, <1>2, Planned, CleanTail DEF Steps
  <1>4. CASE Return BY <1>1, <1>4, PlanReturn DEF Steps
  <1>5. CASE UNCHANGED todo BY <1>1, <1>3, <1>5, PlanStep
  <1>6. ASSUME NEW a \in Arg,
               todo' = <<<<"flush", a>>, <<"queue_reset", Arg \ {a}>>>> \o Tail(todo)
        PROVE  CountInv'
    <2>1. PICK c : c = <<"flush", a>> OBVIOUS
    <2>2. PICK d : d = <<"queue_reset", Arg \ {a}>> OBVIOUS
    <2>3. c[1] = "flush" /\ d[1] = "queue_reset" BY <2>1, <2>2
    <2>4. <<c, d>> \o T = Cons(c, Cons(d, T)) BY <1>3, ConsTwo
    <2>5. todo' = Cons(c, Cons(d, T)) BY <1>2, <1>6, <2>1, <2>2, <2>4
    <2>6. Clean(Cons(d, T)) /\ Fresh(Cons(d, T), links)
      BY <1>3, <2>3, CleanCons DEF Typed, Steps
    <2>7. Clean(todo') /\ Fresh(todo', links)
      BY <2>3, <2>5, <2>6, CleanCons DEF Typed, Steps
    <2> QED BY <1>1, <1>3, <2>7, PlanStep
  <1>7. ASSUME Head(todo)[1] = "tx_pending",
               todo' = <<<<"free_unused", nbrs \cap Unicast>>,
                         <<"dequeued_get", None>>, Head(todo)>> \o Tail(todo)
        PROVE  CountInv'
    <2>1. PICK c : c = <<"free_unused", nbrs \cap Unicast>> OBVIOUS
    <2>2. PICK d : d = <<"dequeued_get", None>> OBVIOUS
    <2>3. c[1] = "free_unused" /\ d[1] = "dequeued_get" BY <2>1, <2>2
    <2>4. <<c, d, Head(todo)>> \o T = Cons(c, Cons(d, Cons(Head(todo), T)))
      BY <1>3, ConsThree
    <2>5. Cons(Head(todo), T) = todo BY <1>1, <1>2, <1>3, ConsHead DEF Clean
    <2>6. todo' = Cons(c, Cons(d, todo)) BY <1>2, <1>7, <2>1, <2>2, <2>4, <2>5
    <2>7. Clean(Cons(d, todo)) /\ Fresh(Cons(d, todo), links)
      BY <1>3, <2>3, CleanCons DEF Typed, Steps
    <2>8. Clean(todo') /\ Fresh(todo', links)
      BY <2>3, <2>6, <2>7, CleanCons DEF Typed, Steps
    <2> QED BY <1>1, <1>3, <2>8, PlanStep
  <1>8. \/ Return \/ UNCHANGED todo
        \/ \E a \in Arg :
              todo' = <<<<"flush", a>>, <<"queue_reset", Arg \ {a}>>>> \o Tail(todo)
        \/ /\ Head(todo)[1] = "tx_pending"
           /\ todo' = <<<<"free_unused", nbrs \cap Unicast>>,
                        <<"dequeued_get", None>>, Head(todo)>> \o Tail(todo)
    <2>1. CASE tsch_queue_flush_nbr_queue BY <2>1 DEF tsch_queue_flush_nbr_queue
    <2>2. CASE tsch_queue_reset BY <2>2 DEF tsch_queue_reset, ReturnTo
    <2>3. CASE tsch_queue_add_packet BY <2>3 DEF tsch_queue_add_packet
    <2>4. CASE tsch_queue_update_time_source BY <2>4 DEF tsch_queue_update_time_source
    <2>5. CASE tsch_rx_process_pending BY <2>5 DEF tsch_rx_process_pending
    <2>6. CASE tsch_tx_process_pending
      BY <2>6 DEF tsch_tx_process_pending, ReturnTo, Doing
    <2>7. CASE dequeued_get BY <2>7 DEF dequeued_get
    <2>8. CASE reset_done BY <2>8 DEF reset_done
    <2>9. CASE associate_done BY <2>9 DEF associate_done
    <2> QED BY <2>1, <2>2, <2>3, <2>4, <2>5, <2>6, <2>7, <2>8, <2>9
  <1> QED BY <1>4, <1>5, <1>6, <1>7, <1>8

LEMMA CountCall == ASSUME RoomForLinks, CountInv, Call PROVE CountInv'
  <1>1. CASE Lock BY <1>1, CountLock
  <1>2. CASE add_nbr_known \/ tsch_queue_add_nbr BY <1>2, CountAddNbr
  <1>3. CASE tsch_queue_remove_nbr BY <1>3, CountRemoveNbr
  <1>4. CASE count_links BY <1>4, CountCounts
  <1>5. CASE tsch_schedule_add_link BY <1>5, CountAddLink
  <1>6. CASE tsch_schedule_remove_link BY <1>6, CountRemoveLink
  <1>7. CASE tsch_schedule_remove_all BY <1>7, CountRemoveAll
  <1>8. CASE tsch_queue_free_unused_neighbors BY <1>8, CountFreeUnused
  <1> QED BY <1>1, <1>2, <1>3, <1>4, <1>5, <1>6, <1>7, <1>8, CountPlain DEF Call

(* A step of the slot operation, or none. *)
LEMMA CountKept ==
  ASSUME CountInv, UNCHANGED <<todo, links, nbrs, tx_links_count, lockVars>>
  PROVE  CountInv'
  <1>1. LinkState(todo, nbrs, tx_links_count, links)' BY DEF CountInv
  <1>2. LockUse' BY DEF CountInv, LockUse, WantsLock, Releases, lockVars
  <1> QED BY <1>1, <1>2 DEF CountInv

LEMMA CountSlot == ASSUME CountInv, Slot PROVE CountInv'
  <1> USE DEF nbrVars
  <1>1. CASE slot_stop BY <1>1, CountKept DEF slot_stop
  <1>2. CASE slot_skip BY <1>2, CountKept DEF slot_skip
  <1>3. CASE slot_missed BY <1>3, CountKept DEF slot_missed
  <1>4. CASE slot_begin BY <1>4, CountKept DEF slot_begin
  <1>5. CASE tx_slot_end BY <1>5, CountKept DEF tx_slot_end
  <1>6. CASE rx_slot_end BY <1>6, CountKept DEF rx_slot_end
  <1> QED BY <1>1, <1>2, <1>3, <1>4, <1>5, <1>6 DEF Slot

(* Between two calls. *)
LEMMA CountIdle ==
  ASSUME CountInv, NEW s, Start(s)
  PROVE  /\ todo' = s /\ ~ tsch_locked /\ ~ tsch_lock_requested
         /\ Agree(Release, nbrs, tx_links_count, links)
         /\ UNCHANGED <<links, nbrs, tx_links_count, lockVars>>
  <1>1. /\ todo = <<>> /\ todo' = s
        /\ UNCHANGED <<links, nbrs, tx_links_count, lockVars>>
    BY DEF Start, Idle, nbrVars
  <1>2. ~ tsch_locked /\ ~ tsch_lock_requested
    BY <1>1 DEF CountInv, LockUse, WantsLock, Releases
  <1>3. PICK c, t : Core(todo, c, t, nbrs, tx_links_count, links)
    BY DEF CountInv, LinkState
  <1>4. Sequence(t) BY <1>3 DEF Core, Clean
  <1>5. \A e : Cons(e, t) # <<>> /\ Sequence(Cons(e, t)) BY <1>4, ConsFacts
  <1>6. \A e, f : Cons(e, Cons(f, t)) # <<>> /\ Sequence(Cons(e, Cons(f, t)))
    BY <1>5, ConsFacts
  <1>7. \A e, f, g : Cons(e, Cons(f, Cons(g, t))) # <<>> BY <1>6, ConsFacts
  <1>8. c = Release BY <1>1, <1>3, <1>5, <1>6, <1>7 DEF Core, Stage
  <1> QED BY <1>1, <1>2, <1>3, <1>8 DEF Core

LEMMA CountStart ==
  ASSUME CountInv, NEW s, Start(s), Clean(s), Fresh(s, links) PROVE CountInv'
  BY CountIdle, PlanStep

LEMMA CleanEmpty == Clean(<<>>) /\ \A ls : Fresh(<<>>, ls)
  BY Tuples DEF Clean, Fresh

(* Calls that do not add links can be planned at any time. *)
Simple(c) == c[1] \notin Steps \cup {"add_link"} /\ Typed(c)

LEMMA CleanTwo ==
  ASSUME NEW a, NEW b, Simple(a), Simple(b)
  PROVE  Clean(<<a, b>>) /\ \A ls : Fresh(<<a, b>>, ls)
  <1>1. Clean(Cons(b, <<>>)) /\ \A ls : Fresh(Cons(b, <<>>), ls)
    BY CleanEmpty, CleanCons DEF Simple
  <1>2. PICK t : t = Cons(b, <<>>) OBVIOUS
  <1>3. Clean(Cons(a, t)) /\ \A ls : Fresh(Cons(a, t), ls)
    BY <1>1, <1>2, CleanCons DEF Simple
  <1>4. PICK e : e = <<>> OBVIOUS
  <1>5. Sequence(e) BY <1>4, Tuples
  <1>6. <<a, b>> \o e = Cons(a, Cons(b, e)) BY <1>5, ConsTwo
  <1>7. <<a, b>> \o e = <<a, b>> BY <1>4
  <1> QED BY <1>2, <1>3, <1>4, <1>6, <1>7

LEMMA CleanThree ==
  ASSUME NEW a, NEW b, NEW c, Simple(a), Simple(b), Simple(c), NEW t, Clean(t),
         \A ls : Fresh(t, ls)
  PROVE  Clean(<<a, b, c>> \o t) /\ \A ls : Fresh(<<a, b, c>> \o t, ls)
  <1>1. PICK x : x = Cons(c, t) OBVIOUS
  <1>2. Clean(x) /\ \A ls : Fresh(x, ls) BY <1>1, CleanCons DEF Simple
  <1>3. PICK y : y = Cons(b, x) OBVIOUS
  <1>4. Clean(y) /\ \A ls : Fresh(y, ls) BY <1>2, <1>3, CleanCons DEF Simple
  <1>5. Clean(Cons(a, y)) /\ \A ls : Fresh(Cons(a, y), ls)
    BY <1>4, CleanCons DEF Simple
  <1>6. Sequence(t) BY DEF Clean
  <1>7. <<a, b, c>> \o t = Cons(a, Cons(b, Cons(c, t))) BY <1>6, ConsThree
  <1> QED BY <1>1, <1>3, <1>5, <1>7

LEMMA CleanAdd ==
  ASSUME NEW l \in Link
  PROVE  /\ Clean(<<<<"add_link", l>>>>)
         /\ \A ls : (\A m \in ls : ~ SameSlot(m, l)) => Fresh(<<<<"add_link", l>>>>, ls)
  <1>1. PICK c : c = <<"add_link", l>> OBVIOUS
  <1>2. c[1] = "add_link" /\ c[2] = l BY <1>1
  <1>3. PICK s : s = <<c>> OBVIOUS
  <1>4. Sequence(s) /\ DOMAIN s = {1} /\ s[1] = c
    <2>1. Sequence(s) BY <1>3, Tuples
    <2> QED BY <1>3, <2>1
  <1>5. Clean(s) BY <1>2, <1>4 DEF Clean, Typed, Steps
  <1>6. \A ls : (\A m \in ls : ~ SameSlot(m, l)) => Fresh(s, ls)
    BY <1>2, <1>4 DEF Fresh
  <1> QED BY <1>1, <1>3, <1>5, <1>6

LEMMA CountLinkStart ==
  ASSUME CountInv, NEW l \in Dynamic, add_link(l) \/ remove_link(l) PROVE CountInv'
  <1>1. l \in Link BY TschAssumption
  <1>2. Linked(nbrs, tx_links_count, links) BY DEF CountInv, LinkState
  <1>3. OnePerSlot(links) BY <1>2 DEF Linked
  <1>4. CASE add_link(l) /\ {m \in links : SameSlot(m, l)} = {}
    <2>1. Start(<<<<"add_link", l>>>>) BY <1>4 DEF add_link
    <2>2. \A m \in links : ~ SameSlot(m, l) BY <1>4
    <2>3. /\ Clean(<<<<"add_link", l>>>>) /\ Fresh(<<<<"add_link", l>>>>, links)
      BY <1>1, <2>2, CleanAdd
    <2> QED BY <2>1, <2>3, CountStart
  <1>5. CASE add_link(l) /\ {m \in links : SameSlot(m, l)} # {}
    <2>1. PICK m \in links :
            /\ SameSlot(m, l) /\ Start(<<<<"remove_link", m>>, <<"add_link", l>>>>)
      BY <1>5 DEF add_link
    <2>2. PICK c : c = <<"remove_link", m>> OBVIOUS
    <2>3. PICK d : d = <<"add_link", l>> OBVIOUS
    <2>4. PICK t : t = <<d>> OBVIOUS
    <2>5. c[1] = "remove_link" /\ c[2] = m BY <2>2
    <2>6. <<c, d>> = Cons(c, t)
      <3>1. <<c, d>> = <<c>> \o <<d>> OBVIOUS
      <3> QED BY <2>4, <3>1 DEF Cons
    <2>7. Start(Cons(c, t)) BY <2>1, <2>2, <2>3, <2>6
    <2>8. \A k \in links \ {m} : ~ SameSlot(k, l)
      BY <1>3, <2>1 DEF OnePerSlot, SameSlot
    <2>9. Clean(t) /\ Fresh(t, links \ {m}) BY <1>1, <2>3, <2>4, <2>8, CleanAdd
    <2>10. Outgoing(c) = {m} BY <2>5 DEF Outgoing
    <2> QED BY <2>5, <2>7, <2>9, <2>10, CountIdle, ChangeBegins
  <1>6. CASE remove_link(l)
    <2>1. l \in links /\ Start(<<<<"remove_link", l>>>>) BY <1>6 DEF remove_link
    <2>2. PICK c : c = <<"remove_link", l>> OBVIOUS
    <2>3. c[1] = "remove_link" /\ c[2] = l BY <2>2
    <2>4. Start(Cons(c, <<>>)) BY <2>1, <2>2, ConsOne
    <2>5. PICK t : t = <<>> OBVIOUS
    <2>6. Start(Cons(c, t)) /\ Clean(t) /\ Fresh(t, links \ Outgoing(c))
      BY <2>4, <2>5, CleanEmpty
    <2> QED BY <2>1, <2>3, <2>6, CountIdle, ChangeBegins
  <1> QED BY <1>4, <1>5, <1>6

LEMMA CountAssociate ==
  ASSUME CountInv, NEW a \in Sources, tsch_associate(a) PROVE CountInv'
  <1> DEFINE B == [i \in DOMAIN FromBeacon |-> <<"add_link", FromBeacon[i]>>]
             C == <<<<"add_nbr", a>>, <<"set_source", a>>, <<"associate_done", a>>>>
  <1>1. PICK r : r = <<"remove_all", None>> OBVIOUS
  <1>2. r[1] = "remove_all" BY <1>1
  <1>3. Start((<<r>> \o B) \o C) BY <1>1 DEF tsch_associate
  <1>4. /\ FromBeacon \in Seq(Link) /\ DOMAIN FromBeacon = 1..Len(FromBeacon)
        /\ Len(FromBeacon) \in Nat
    BY TschAssumption
  <1>5. \A i \in DOMAIN FromBeacon : FromBeacon[i] \in Link BY <1>4
  <1>6. /\ B \in Seq({"add_link"} \X Link) /\ DOMAIN B = DOMAIN FromBeacon
        /\ Len(B) = Len(FromBeacon)
        /\ \A i \in DOMAIN B : B[i] = <<"add_link", FromBeacon[i]>>
    BY <1>4, <1>5
  <1>7. a \in Addr BY TschAssumption
  <1>8. /\ C \in Seq({"add_nbr", "set_source", "associate_done"} \X Addr)
    BY <1>7
  <1> HIDE DEF B, C
  <1>9. PICK S : S = {r} \cup ({"add_link"} \X Link)
                   \cup ({"add_nbr", "set_source", "associate_done"} \X Addr)
    OBVIOUS
  <1>10. B \in Seq(S) /\ C \in Seq(S) /\ <<r>> \in Seq(S) BY <1>6, <1>8, <1>9
  <1>11. PICK x : x = B \o C OBVIOUS
  <1>12. (<<r>> \o B) \o C = Cons(r, x) BY <1>10, <1>11 DEF Cons
  <1>13. /\ x \in Seq(S) /\ Len(x) = Len(B) + Len(C)
         /\ Len(B) \in Nat /\ Len(C) \in Nat
         /\ \A i \in 1..Len(B) : x[i] = B[i]
         /\ \A i \in 1..Len(x) : i > Len(B) =>
              i - Len(B) \in 1..Len(C) /\ x[i] = C[i - Len(B)]
    BY <1>10, <1>11, Joined
  <1>14. \A i \in 1..Len(x) :
           \/ /\ i \in DOMAIN B
              /\ x[i] = <<"add_link", FromBeacon[i]>> /\ FromBeacon[i] \in Link
           \/ x[i] \in {"add_nbr", "set_source", "associate_done"} \X Addr
    <2> SUFFICES ASSUME NEW i \in 1..Len(x)
                 PROVE  \/ /\ i \in DOMAIN B
                           /\ x[i] = <<"add_link", FromBeacon[i]>>
                           /\ FromBeacon[i] \in Link
                        \/ x[i] \in {"add_nbr", "set_source", "associate_done"} \X Addr
      OBVIOUS
    <2>1. CASE i > Len(B)
      <3>1. i - Len(B) \in 1..Len(C) /\ x[i] = C[i - Len(B)] BY <1>13, <2>1
      <3> QED BY <1>8, <3>1
    <2>2. CASE ~ (i > Len(B))
      <3>1. i \in 1..Len(B) BY <1>13, <2>2
      <3>2. i \in DOMAIN B BY <1>4, <1>6, <3>1
      <3> QED BY <1>5, <1>6, <1>13, <3>1, <3>2
    <2> QED BY <2>1, <2>2
  <1>15. DOMAIN x = 1..Len(x) /\ Sequence(x) BY <1>13 DEF Sequence
  <1>16. \A i \in DOMAIN x :
           /\ x[i][1] \in {"add_link", "add_nbr", "set_source", "associate_done"}
           /\ x[i][1] = "add_link" => /\ i \in DOMAIN FromBeacon
                                      /\ x[i][2] = FromBeacon[i] /\ x[i][2] \in Link
           /\ x[i][1] = "add_nbr" => x[i][2] \in Addr
    BY <1>6, <1>14, <1>15
  <1>17. Clean(x)
    <2>1. \A i \in DOMAIN x : x[i][1] \notin Steps /\ Typed(x[i])
      BY <1>16 DEF Typed, Steps
    <2>2. ASSUME NEW i \in DOMAIN x, NEW j \in DOMAIN x, x[i][1] = "add_link",
                 x[j][1] = "add_link", SameSlot(x[i][2], x[j][2])
          PROVE  i = j
      BY <1>16, <2>2, TschAssumption
    <2>3. \A j \in DOMAIN x : x[j][1] # "remove_all" BY <1>16
    <2> QED BY <1>15, <2>1, <2>2, <2>3 DEF Clean
  <1>18. Clean(Cons(r, x)) /\ \A ls : Fresh(Cons(r, x), ls)
    BY <1>2, <1>17, CleanCons DEF Steps, Typed
  <1> QED BY <1>3, <1>12, <1>18, CountStart

LEMMA CountReset == ASSUME CountInv, tsch_reset PROVE CountInv'
  <1>1. PICK b, c, d, e, f, g :
          /\ b = <<"rx_pending", None>> /\ c = <<"tx_pending", None>>
          /\ d = <<"queue_reset", nbrs>> /\ e = <<"free_unused", nbrs \cap Unicast>>
          /\ f = <<"set_source", None>> /\ g = <<"reset_done", None>>
    OBVIOUS
  <1>2. Start(<<b, c, d, e, f, g>>) BY <1>1 DEF tsch_reset
  <1>3. /\ Simple(b) /\ Simple(c) /\ Simple(d) /\ Simple(e) /\ Simple(f) /\ Simple(g)
    BY <1>1 DEF Simple, Steps, Typed
  <1>4. PICK o : o = <<>> OBVIOUS
  <1>5. Clean(o) /\ \A ls : Fresh(o, ls) BY <1>4, CleanEmpty
  <1>6. PICK t : t = <<e, f, g>> \o o OBVIOUS
  <1>7. Clean(t) /\ \A ls : Fresh(t, ls) BY <1>3, <1>5, <1>6, CleanThree
  <1>8. t = <<e, f, g>> BY <1>4, <1>6
  <1>9. <<b, c, d, e, f, g>> = <<b, c, d>> \o <<e, f, g>> OBVIOUS
  <1>10. Clean(<<b, c, d>> \o t) /\ \A ls : Fresh(<<b, c, d>> \o t, ls)
    BY <1>3, <1>7, CleanThree
  <1> QED BY <1>2, <1>8, <1>9, <1>10, CountStart

LEMMA CountStep == ASSUME RoomForLinks, CountInv, [Next]_vars PROVE CountInv'
  <1>1. CASE Slot BY <1>1, CountSlot
  <1>2. CASE Call BY <1>2, CountCall
  <1>3. ASSUME NEW b, NEW c, Simple(b), Simple(c), Start(<<b, c>>) PROVE CountInv'
    BY <1>3, CleanTwo, CountStart
  <1>4. CASE tsch_pending_events
    <2>1. PICK b, c : b = <<"rx_pending", None>> /\ c = <<"tx_pending", None>> OBVIOUS
    <2>2. Simple(b) /\ Simple(c) BY <2>1 DEF Simple, Steps, Typed
    <2> QED BY <1>3, <1>4, <2>1, <2>2 DEF tsch_pending_events
  <1>5. CASE tsch_reset BY <1>5, CountReset
  <1>6. ASSUME NEW p \in Packet, send_packet(p) PROVE CountInv'
    <2>1. CASE Start(<<>>)
      <3>1. PICK o : o = <<>> OBVIOUS
      <3> QED BY <2>1, <3>1, CleanEmpty, CountStart
    <2>2. CASE Start(<<<<"add_nbr", Dest[p]>>, <<"add_packet", p>>>>)
      <3>1. PICK b, c : b = <<"add_nbr", Dest[p]>> /\ c = <<"add_packet", p>> OBVIOUS
      <3>2. Dest[p] \in Addr BY TschAssumption
      <3>3. Simple(b) /\ Simple(c) BY <3>1, <3>2 DEF Simple, Steps, Typed
      <3> QED BY <1>3, <2>2, <3>1, <3>3
    <2> QED BY <1>6, <2>1, <2>2 DEF send_packet
  <1>7. ASSUME NEW l \in Dynamic, add_link(l) \/ remove_link(l) PROVE CountInv'
    BY <1>7, CountLinkStart
  <1>8. ASSUME NEW a \in Sources, update_time_source(a) PROVE CountInv'
    <2>1. PICK b, c : b = <<"add_nbr", a>> /\ c = <<"set_source", a>> OBVIOUS
    <2>2. a \in Addr BY TschAssumption
    <2>3. Simple(b) /\ Simple(c) BY <2>1, <2>2 DEF Simple, Steps, Typed
    <2> QED BY <1>3, <1>8, <2>1, <2>3 DEF update_time_source
  <1>9. ASSUME NEW a \in Sources, tsch_associate(a) PROVE CountInv'
    BY <1>9, CountAssociate
  <1>10. CASE UNCHANGED vars BY <1>10, CountKept DEF vars, nbrVars
  <1> QED BY <1>1, <1>2, <1>4, <1>5, <1>6, <1>7, <1>8, <1>9, <1>10 DEF Next

LEMMA CountInit == Init => CountInv
  <1> SUFFICES ASSUME Init PROVE CountInv OBVIOUS
  <1>1. /\ todo = <<>> /\ links = {} /\ nbrs = {eb, bc}
        /\ tx_links_count = [a \in Addr |-> 0] /\ ~ tsch_locked /\ ~ tsch_lock_requested
    BY DEF Init
  <1>2. IsFiniteSet(links) /\ Cardinality(links) = 0 BY <1>1, FS_EmptySet
  <1>3. Linked(nbrs, tx_links_count, links)
    BY <1>1, <1>2, TschAssumption DEF Linked, OnePerSlot
  <1>4. Agree(Release, nbrs, tx_links_count, links)
    <2> SUFFICES ASSUME NEW a \in Addr
                 PROVE  Cardinality(Sends(links, a)) =
                          Count(nbrs, tx_links_count, a) + Due(Release, a)
      BY DEF Agree
    <2>1. Sends(links, a) = {} BY <1>1 DEF Sends
    <2>2. Cardinality(Sends(links, a)) = 0 BY <2>1, FS_EmptySet
    <2>3. Count(nbrs, tx_links_count, a) = 0 BY <1>1 DEF Count
    <2>4. Due(Release, a) = 0 BY DEF Due, Release
    <2> QED BY <2>2, <2>3, <2>4
  <1>5. Core(todo, Release, todo, nbrs, tx_links_count, links)
    BY <1>1, <1>4, CleanEmpty DEF Core, Stage
  <1>6. LockUse BY <1>1 DEF LockUse, Releases
  <1> QED BY <1>3, <1>5, <1>6 DEF CountInv, LinkState

(* The calls to come that correct a counter: the one in progress, if any. *)
At(s, d) == {i \in DOMAIN s : s[i] = d}
OneAt(s, d) == \E j : At(s, d) = {j}

LEMMA AtCons ==
  ASSUME NEW t, Sequence(t), NEW c, NEW d
  PROVE  /\ c # d /\ At(t, d) = {} => At(Cons(c, t), d) = {}
         /\ c # d /\ OneAt(t, d) => OneAt(Cons(c, t), d)
         /\ c = d /\ At(t, d) = {} => OneAt(Cons(c, t), d)
  <1>1. PICK y : y = Cons(c, t) OBVIOUS
  <1>2. /\ 1 \in DOMAIN y /\ y[1] = c
        /\ \A i \in DOMAIN t : i + 1 \in DOMAIN y /\ y[i + 1] = t[i]
        /\ \A i \in DOMAIN y : i = 1 \/ (i - 1 \in DOMAIN t /\ y[i] = t[i - 1])
        /\ DOMAIN t \subseteq Nat \ {0} /\ DOMAIN y \subseteq Nat \ {0}
    BY <1>1, ConsFacts
  <1>3. ASSUME c # d, At(t, d) = {} PROVE At(y, d) = {} BY <1>2, <1>3 DEF At
  <1>4. ASSUME c = d, At(t, d) = {} PROVE At(y, d) = {1} BY <1>2, <1>4 DEF At
  <1>5. ASSUME c # d, OneAt(t, d) PROVE OneAt(y, d)
    <2>1. PICK j : At(t, d) = {j} BY <1>5 DEF OneAt
    <2>2. j \in DOMAIN t /\ t[j] = d /\ j \in Nat BY <1>2, <2>1 DEF At
    <2>3. j + 1 \in At(y, d) BY <1>2, <2>2 DEF At
    <2>4. ASSUME NEW i \in At(y, d) PROVE i = j + 1
      <3>1. i \in DOMAIN y /\ y[i] = d BY <2>4 DEF At
      <3>2. i - 1 \in DOMAIN t /\ t[i - 1] = d /\ i \in Nat BY <1>2, <1>5, <3>1
      <3>3. i - 1 \in At(t, d) BY <3>2 DEF At
      <3>4. i - 1 = j BY <2>1, <3>3
      <3> QED BY <2>2, <3>2, <3>4
    <2>5. At(y, d) = {j + 1} BY <2>3, <2>4
    <2> QED BY <2>5 DEF OneAt
  <1> QED BY <1>1, <1>3, <1>4, <1>5 DEF OneAt

LEMMA CorrectionsPlanned ==
  ASSUME NEW s, NEW c, NEW t, NEW n, NEW k, NEW ls, Clean(t),
         Stage(s, c, t, n, k, ls), NEW d \in {"count_up", "count_down"} \X Addr
  PROVE  /\ c = d => OneAt(s, d)
         /\ c # d => At(s, d) = {}
  <1>1. Sequence(t) BY DEF Clean
  <1>2. d[1] \in {"count_up", "count_down"} OBVIOUS
  <1>3. At(t, d) = {}
    <2>1. \A i \in DOMAIN t : t[i][1] \notin Steps BY DEF Clean
    <2> QED BY <1>2, <2>1 DEF At, Steps
  <1>4. PICK e : e = <<"add_nbr", c[2]>> OBVIOUS
  <1>5. Release # d /\ e # d
    <2>1. Release[1] = "release" /\ e[1] = "add_nbr" BY <1>4 DEF Release
    <2> QED BY <1>2, <2>1
  <1>6. PICK u : u = Cons(c, t) OBVIOUS
  <1>7. /\ Sequence(u) /\ c = d => OneAt(u, d)
        /\ c # d => At(u, d) = {}
    BY <1>1, <1>3, <1>6, AtCons
  <1>8. Sequence(u) BY <1>1, <1>6, ConsFacts
  <1>9. PICK v : v = Cons(e, u) OBVIOUS
  <1>10. /\ Sequence(v)
         /\ c = d => OneAt(v, d)
         /\ c # d => At(v, d) = {}
    BY <1>5, <1>7, <1>8, <1>9, AtCons, ConsFacts
  <1>11. CASE s = t /\ c = Release BY <1>3, <1>5, <1>11
  <1>12. CASE s = Cons(Release, t) /\ c = Release BY <1>1, <1>3, <1>5, <1>12, AtCons
  <1>13. CASE s = u BY <1>7, <1>8, <1>13
  <1>14. CASE s = Cons(Release, u) BY <1>5, <1>7, <1>8, <1>14, AtCons
  <1>15. CASE s = v BY <1>10, <1>15
  <1>16. CASE s = Cons(Release, v) BY <1>5, <1>10, <1>16, AtCons
  <1> QED BY <1>4, <1>6, <1>9, <1>11, <1>12, <1>13, <1>14, <1>15, <1>16 DEF Stage

LEMMA CountImplied == ASSUME CountInv PROVE LinksCounted
  <1>1. PICK c, t : Core(todo, c, t, nbrs, tx_links_count, links)
    BY DEF CountInv, LinkState
  <1>2. Clean(t) /\ Stage(todo, c, t, nbrs, tx_links_count, links) BY <1>1 DEF Core
  <1>3. ASSUME NEW op \in {"count_up", "count_down"}, NEW a \in Addr
        PROVE  CallsTo(op, a) = IF c = <<op, a>> THEN 1 ELSE 0
    <2>1. PICK d : d = <<op, a>> OBVIOUS
    <2>2. d \in {"count_up", "count_down"} \X Addr BY <2>1
    <2>3. CallsTo(op, a) = Cardinality(At(todo, d)) BY <2>1 DEF CallsTo, At
    <2>4. CASE c = d
      <3>1. PICK j : At(todo, d) = {j} BY <1>2, <2>2, <2>4, CorrectionsPlanned DEF OneAt
      <3>2. Cardinality({j}) = 1 BY FS_Singleton
      <3> QED BY <2>1, <2>3, <2>4, <3>1, <3>2
    <2>5. CASE c # d
      <3>1. At(todo, d) = {} BY <1>2, <2>2, <2>5, CorrectionsPlanned
      <3>2. Cardinality(At(todo, d)) = 0 BY <3>1, FS_EmptySet
      <3> QED BY <2>1, <2>3, <2>5, <3>2
    <2> QED BY <2>4, <2>5
  <1>4. ASSUME NEW a \in Addr
        PROVE  Due(c, a) = CallsTo("count_up", a) - CallsTo("count_down", a)
    <2>1. CallsTo("count_up", a) = IF c = <<"count_up", a>> THEN 1 ELSE 0 BY <1>3
    <2>2. CallsTo("count_down", a) = IF c = <<"count_down", a>> THEN 1 ELSE 0 BY <1>3
    <2>3. CASE c = <<"count_up", a>>
      <3>1. c[1] = "count_up" /\ c[2] = a /\ c # <<"count_down", a>> BY <2>3
      <3>2. Due(c, a) = 1 BY <3>1 DEF Due
      <3> QED BY <2>1, <2>2, <2>3, <3>1, <3>2
    <2>4. CASE c = <<"count_down", a>>
      <3>1. c[1] = "count_down" /\ c[2] = a /\ c # <<"count_up", a>> BY <2>4
      <3>2. Due(c, a) = 0 - 1 BY <3>1 DEF Due
      <3> QED BY <2>1, <2>2, <2>4, <3>1, <3>2
    <2>5. CASE c # <<"count_up", a>> /\ c # <<"count_down", a>>
      <3>1. c[2] # a \/ c[1] \notin {"count_up", "count_down"}
        <4>1. CASE c \in {"count_up", "count_down"} \X Addr BY <2>5, <4>1
        <4>2. CASE c = Release BY <4>2 DEF Release
        <4>3. CASE c[1] \in {"remove_link", "remove_nbr"} BY <4>3
        <4> QED BY <1>2, <4>1, <4>2, <4>3 DEF Stage
      <3>2. Due(c, a) = 0 BY <3>1 DEF Due
      <3> QED BY <2>1, <2>2, <2>5, <3>2
    <2> QED BY <2>3, <2>4, <2>5
  <1>5. ASSUME NEW a \in Addr
        PROVE  Cardinality({l \in links : Has(l, "TX") /\ LinkAddr[l] = a}) =
               (IF a \in nbrs THEN tx_links_count[a] ELSE 0)
               + CallsTo("count_up", a) - CallsTo("count_down", a)
    <2>1. PICK x, y, u, d : /\ x = Cardinality(Sends(links, a))
                            /\ y = Count(nbrs, tx_links_count, a)
                            /\ u = CallsTo("count_up", a) /\ d = CallsTo("count_down", a)
      OBVIOUS
    <2>2. u \in {0, 1} /\ d \in {0, 1} BY <1>3, <2>1
    <2>3. x = y + (u - d) BY <1>1, <1>4, <2>1 DEF Core, Agree
    <2>4. Linked(nbrs, tx_links_count, links) BY DEF CountInv, LinkState
    <2>5. y \in 0..255 BY <2>1, <2>4 DEF Linked, Count
    <2>6. x = y + u - d BY <2>2, <2>3, <2>5
    <2> QED BY <2>1, <2>6 DEF Sends, Count
  <1> QED BY <1>5 DEF LinksCounted

(* tx_links_count of a neighbor is the number of the links on which the    *)
(* node sends to it, corrected by the call to come while a change is in    *)
(* progress, whatever links a beacon or an application adds or removes,    *)
(* and a neighbor of a link keeps its entry.  There has to be an entry for *)
(* every neighbor, and the counter, a byte, must hold the number of links. *)
THEOREM LinksCountedRight == ASSUME RoomForLinks PROVE Spec => []LinksCounted
  <1>1. CountInv /\ [Next]_vars => CountInv' BY CountStep
  <1>2. CountInv => LinksCounted BY CountImplied
  <1> QED BY CountInit, <1>1, <1>2, PTL DEF Spec

------------------------------------------------------------------------------
(* The service.  What has been sent is mapped to the packets of each       *)
(* receiver by a recursion over the ring, so that its facts need induction *)
(* on the natural numbers, here as a fact about sets of numbers.           *)
LEMMA LeastNumber ==
  ASSUME NEW T, T \subseteq Nat, T # {}
  PROVE  \E x \in T : \A y \in T : x <= y
  <1> DEFINE R == {s \in Nat \X Nat : s[1] < s[2]}
  <1>1. IsWellFoundedOn(R, Nat) BY NatLessThanWellFounded DEF OpToRel
  <1>2. \A x, y \in Nat : <<y, x>> \in R <=> y < x OBVIOUS
  <1> HIDE DEF R
  <1>3. \E x \in T : \A y \in T : ~ (<<y, x>> \in R) BY <1>1, WFMin
  <1>4. \A x, y \in Nat : x <= y <=> ~ (y < x) OBVIOUS
  <1>5. \A x, y \in T : x <= y <=> ~ (<<y, x>> \in R) BY <1>2, <1>4
  <1> QED BY <1>3, <1>5

LEMMA Induction ==
  ASSUME NEW T, T \subseteq Nat, 0 \in T, \A n \in T : n + 1 \in T
  PROVE  T = Nat
  <1> SUFFICES ASSUME T # Nat PROVE FALSE OBVIOUS
  <1>1. PICK x \in Nat \ T : \A y \in Nat \ T : x <= y BY LeastNumber
  <1>2. x # 0 /\ x - 1 \in Nat /\ x - 1 \in T BY <1>1
  <1> QED BY <1>1, <1>2

(* The packets for a among the first n of s, as computed by For. *)
Added(w, p, a) == IF Dest[p] = a THEN Append(w, p) ELSE w
Computes(f, a, s, n) ==
    f = [i \in 0..n |-> IF i = 0 THEN <<>> ELSE Added(f[i - 1], s[i], a)]

LEMMA Computed ==
  ASSUME NEW a, NEW s, NEW n \in Nat PROVE \E f : Computes(f, a, s, n)
  <1> DEFINE T == {k \in Nat : \E f : Computes(f, a, s, k)}
  <1>1. 0 \in T
    <2> DEFINE g == [i \in 0..0 |-> <<>>]
    <2>1. Computes(g, a, s, 0) BY DEF Computes
    <2> QED BY <2>1
  <1>2. ASSUME NEW k \in T PROVE k + 1 \in T
    <2>1. PICK f : Computes(f, a, s, k) OBVIOUS
    <2>2. /\ k \in Nat
          /\ f = [i \in 0..k |-> IF i = 0 THEN <<>> ELSE Added(f[i - 1], s[i], a)]
      BY <2>1 DEF Computes
    <2> DEFINE g == [i \in 0..(k + 1) |->
                       IF i <= k THEN f[i] ELSE Added(f[i - 1], s[i], a)]
    <2>3. ASSUME NEW i \in 0..(k + 1)
          PROVE  g[i] = IF i = 0 THEN <<>> ELSE Added(g[i - 1], s[i], a)
      <3>1. CASE i = 0 BY <2>2, <3>1
      <3>2. CASE i # 0
        <4>1. i - 1 \in 0..k /\ g[i - 1] = f[i - 1] BY <2>2, <3>2
        <4>2. CASE i <= k BY <2>2, <3>2, <4>1, <4>2
        <4>3. CASE i = k + 1 BY <2>2, <4>1, <4>3
        <4> QED BY <2>2, <4>2, <4>3
      <3> QED BY <3>1, <3>2
    <2>4. g = [i \in 0..(k + 1) |-> g[i]] OBVIOUS
    <2> HIDE DEF g
    <2>5. Computes(g, a, s, k + 1) BY <2>3, <2>4 DEF Computes
    <2> QED BY <2>2, <2>5
  <1> HIDE DEF T
  <1>3. T = Nat
    <2>1. T \subseteq Nat BY DEF T
    <2> QED BY <1>1, <1>2, <2>1, Induction
  <1> QED BY <1>3 DEF T

LEMMA ForComputes ==
  ASSUME NEW a, NEW s, Len(s) \in Nat
  PROVE  \E f : Computes(f, a, s, Len(s)) /\ For(a, s) = f[Len(s)]
  <1> DEFINE f == CHOOSE g : Computes(g, a, s, Len(s))
  <1>1. For(a, s) = f[Len(s)] BY DEF For, Computes, Added
  <1>2. Computes(f, a, s, Len(s)) BY Computed
  <1> QED BY <1>1, <1>2

(* What is computed for a prefix does not depend on the rest. *)
LEMMA SameComputed ==
  ASSUME NEW a, NEW s, NEW t, NEW m \in Nat, NEW n \in Nat, NEW f, NEW g,
         Computes(f, a, s, m), Computes(g, a, t, n),
         NEW l \in Nat, l <= m, l <= n, \A i \in 1..l : s[i] = t[i]
  PROVE  f[l] = g[l]
  <1> DEFINE T == {k \in Nat : k <= l => f[k] = g[k]}
  <1>1. 0 \in T BY DEF Computes
  <1>2. ASSUME NEW k \in T PROVE k + 1 \in T BY DEF Computes
  <1> HIDE DEF T
  <1>3. T = Nat
    <2>1. T \subseteq Nat BY DEF T
    <2> QED BY <1>1, <1>2, <2>1, Induction
  <1> QED BY <1>3 DEF T

LEMMA ComputedTyped ==
  ASSUME NEW a, NEW s \in Seq(Packet), NEW f, Computes(f, a, s, Len(s)),
         NEW l \in 0..Len(s)
  PROVE  f[l] \in Seq(Packet)
  <1> DEFINE T == {k \in Nat : k <= Len(s) => f[k] \in Seq(Packet)}
  <1>0. Len(s) \in Nat /\ \A i \in 1..Len(s) : s[i] \in Packet OBVIOUS
  <1>1. 0 \in T BY <1>0 DEF Computes
  <1>2. ASSUME NEW k \in T PROVE k + 1 \in T
    <2> SUFFICES ASSUME k + 1 <= Len(s) PROVE f[k + 1] \in Seq(Packet) OBVIOUS
    <2>1. f[k] \in Seq(Packet) /\ s[k + 1] \in Packet BY <1>0
    <2>2. f[k + 1] = Added(f[k], s[k + 1], a) BY <1>0 DEF Computes
    <2> QED BY <2>1, <2>2 DEF Added
  <1> HIDE DEF T
  <1>3. T = Nat
    <2>1. T \subseteq Nat BY DEF T
    <2> QED BY <1>1, <1>2, <2>1, Induction
  <1> QED BY <1>0, <1>3 DEF T

LEMMA ForTyped == ASSUME NEW a, NEW s \in Seq(Packet) PROVE For(a, s) \in Seq(Packet)
  <1>1. Len(s) \in Nat /\ Len(s) \in 0..Len(s) OBVIOUS
  <1>2. PICK f : Computes(f, a, s, Len(s)) /\ For(a, s) = f[Len(s)]
    BY <1>1, ForComputes
  <1> QED BY <1>1, <1>2, ComputedTyped

LEMMA ForNone == ASSUME NEW a PROVE For(a, <<>>) = <<>>
  <1>1. Len(<<>>) = 0 OBVIOUS
  <1>2. PICK f : Computes(f, a, <<>>, 0) /\ For(a, <<>>) = f[0]
    BY <1>1, ForComputes
  <1> QED BY <1>2 DEF Computes

(* A packet more at the end, *)
LEMMA ForAppend ==
  ASSUME NEW a, NEW s \in Seq(Packet), NEW p \in Packet
  PROVE  For(a, Append(s, p)) = Added(For(a, s), p, a)
  <1>1. PICK t : t = Append(s, p) OBVIOUS
  <1>2. PICK n : n = Len(s) OBVIOUS
  <1>3. /\ n \in Nat /\ Len(t) = n + 1 /\ t[n + 1] = p /\ n + 1 \in Nat
        /\ \A i \in 1..n : t[i] = s[i]
    BY <1>1, <1>2
  <1>4. PICK f : Computes(f, a, s, n) /\ For(a, s) = f[n]
    BY <1>2, <1>3, ForComputes
  <1>5. PICK g : Computes(g, a, t, n + 1) /\ For(a, t) = g[n + 1]
    BY <1>3, ForComputes
  <1>6. f[n] = g[n]
    <2>1. PICK m : m = n + 1 OBVIOUS
    <2>2. /\ n \in Nat /\ m \in Nat /\ n <= n /\ n <= m
          /\ \A i \in 1..n : s[i] = t[i]
      BY <1>3, <2>1
    <2>3. Computes(f, a, s, n) /\ Computes(g, a, t, m) BY <1>4, <1>5, <2>1
    <2> QED BY <2>2, <2>3, SameComputed
  <1>7. g[n + 1] = Added(g[n], t[n + 1], a) BY <1>3, <1>5 DEF Computes
  <1> QED BY <1>1, <1>3, <1>4, <1>5, <1>6, <1>7

(* and one at the front. *)
Before(p, w, a) == IF Dest[p] = a THEN <<p>> \o w ELSE w

LEMMA BeforeAdded ==
  ASSUME NEW a, NEW w \in Seq(Packet), NEW p \in Packet, NEW r \in Packet
  PROVE  Before(p, Added(w, r, a), a) = Added(Before(p, w, a), r, a)
  <1>1. <<p>> \o Append(w, r) = Append(<<p>> \o w, r) OBVIOUS
  <1> QED BY <1>1 DEF Before, Added

LEMMA ForHead ==
  ASSUME NEW a, NEW s \in Seq(Packet), s # <<>>
  PROVE  For(a, s) = Before(Head(s), For(a, Tail(s)), a)
  <1>1. PICK t, n, p : t = Tail(s) /\ n = Len(t) /\ p = Head(s) OBVIOUS
  <1>2. /\ t \in Seq(Packet) /\ n \in Nat /\ Len(s) = n + 1 /\ p = s[1]
        /\ p \in Packet /\ n + 1 \in Nat
        /\ \A i \in 1..n : t[i] = s[i + 1] /\ t[i] \in Packet
    BY <1>1
  <1>3. PICK f : Computes(f, a, s, n + 1) /\ For(a, s) = f[n + 1]
    BY <1>2, ForComputes
  <1>4. PICK g : Computes(g, a, t, n) /\ For(a, t) = g[n]
    BY <1>1, <1>2, ForComputes
  <1> DEFINE T == {k \in Nat : k <= n => f[k + 1] = Before(p, g[k], a)}
  <1>5. 0 \in T
    <2>1. f[0] = <<>> /\ g[0] = <<>> /\ f[1] = Added(f[0], s[1], a)
      BY <1>2, <1>3, <1>4 DEF Computes
    <2>2. Append(<<>>, p) = <<p>> \o <<>> OBVIOUS
    <2>3. f[1] = Before(p, g[0], a) BY <1>2, <2>1, <2>2 DEF Added, Before
    <2> QED BY <2>3
  <1>6. ASSUME NEW k \in T PROVE k + 1 \in T
    <2> SUFFICES ASSUME k + 1 <= n PROVE f[(k + 1) + 1] = Before(p, g[k + 1], a)
      OBVIOUS
    <2>1. k \in Nat /\ k + 1 \in 1..n /\ k \in 0..n /\ (k + 1) + 1 \in 0..(n + 1)
          /\ ((k + 1) + 1) - 1 = k + 1 /\ (k + 1) + 1 # 0 /\ (k + 1) - 1 = k
          /\ k + 1 # 0 /\ k + 1 \in 0..n /\ k <= n
      BY <1>2
    <2>2. f[k + 1] = Before(p, g[k], a) BY <2>1
    <2>3. f[(k + 1) + 1] = Added(f[k + 1], s[(k + 1) + 1], a)
      BY <1>3, <2>1 DEF Computes
    <2>4. g[k + 1] = Added(g[k], t[k + 1], a) BY <1>4, <2>1 DEF Computes
    <2>5. t[k + 1] = s[(k + 1) + 1] /\ t[k + 1] \in Packet BY <1>2, <2>1
    <2>6. g[k] \in Seq(Packet) BY <1>1, <1>2, <1>4, <2>1, ComputedTyped
    <2>7. Before(p, Added(g[k], t[k + 1], a), a) = Added(Before(p, g[k], a), t[k + 1], a)
      BY <1>2, <2>5, <2>6, BeforeAdded
    <2> QED BY <2>2, <2>3, <2>4, <2>5, <2>7
  <1> HIDE DEF T
  <1>7. T = Nat
    <2>1. T \subseteq Nat BY DEF T
    <2> QED BY <1>5, <1>6, <2>1, Induction
  <1>8. f[n + 1] = Before(p, g[n], a) BY <1>2, <1>7 DEF T
  <1> QED BY <1>1, <1>3, <1>4, <1>8

------------------------------------------------------------------------------
(* Whose turn it is.  A neighbor that is removed has no packets; a queue   *)
(* is flushed when it is empty or, by tsch_reset(), when no sent packet is *)
(* left, since tsch_tx_process_pending() was called before.                *)
Ready(s, q, d) ==
    \A i \in 1..Len(s) :
        /\ s[i][1] = "remove_nbr" => q[s[i][2]] = <<>>
        /\ s[i][1] = "flush" => q[s[i][2]] = <<>> \/ (d = <<>> /\ Leaving(s))
        /\ s[i][1] = "queue_reset" =>
             d = <<>> \/ \E j \in 1..(i - 1) : s[j][1] = "tx_pending"

(* A packet waits in the queue of its receiver. *)
Addressed(q) == \A a \in Addr : \A i \in 1..Len(q[a]) : Dest[q[a][i]] = a

MacInv == Addressed(queue) /\ Ready(todo, queue, dequeued)

LEMMA ReadyTail ==
  ASSUME NEW s, Shape(s), s # <<>>, NEW q, NEW d, Ready(s, q, d),
         Head(s)[1] = "tx_pending" => d = <<>>
  PROVE  Ready(Tail(s), q, d)
  <1>1. s \in Seq(Calls) BY DEF Shape
  <1>2. PICK r : r = Tail(s) OBVIOUS
  <1>3. /\ Head(s) = s[1] /\ Len(s) \in Nat \ {0} /\ Len(r) = Len(s) - 1
        /\ \A i \in 1..Len(r) : i + 1 \in 1..Len(s) /\ r[i] = s[i + 1]
        /\ \A i \in 1..Len(s) : i # 1 => i - 1 \in 1..Len(r) /\ r[i - 1] = s[i]
    BY <1>1, <1>2, TailIndex
  <1>4. /\ s[1][1] # "release" => NoFlush(r)
        /\ Leaving(s) /\ s[1][1] = "release" => Leaving(r)
    BY <1>2, TailShape
  <1>5. ASSUME NEW i \in 1..Len(r)
        PROVE  /\ r[i][1] = "remove_nbr" => q[r[i][2]] = <<>>
               /\ r[i][1] = "flush" => q[r[i][2]] = <<>> \/ (d = <<>> /\ Leaving(r))
               /\ r[i][1] = "queue_reset" =>
                    d = <<>> \/ \E j \in 1..(i - 1) : r[j][1] = "tx_pending"
    <2>1. PICK k : k = i + 1 OBVIOUS
    <2>2. k \in 1..Len(s) /\ r[i] = s[k] /\ i \in Nat \ {0} BY <1>3, <2>1
    <2>3. /\ s[k][1] = "remove_nbr" => q[s[k][2]] = <<>>
          /\ s[k][1] = "flush" => q[s[k][2]] = <<>> \/ (d = <<>> /\ Leaving(s))
          /\ s[k][1] = "queue_reset" =>
               d = <<>> \/ \E j \in 1..(k - 1) : s[j][1] = "tx_pending"
      BY <2>2 DEF Ready
    <2>4. r[i][1] = "flush" => q[r[i][2]] = <<>> \/ (d = <<>> /\ Leaving(r))
      BY <1>4, <2>2, <2>3 DEF NoFlush
    <2>5. ASSUME r[i][1] = "queue_reset"
          PROVE  d = <<>> \/ \E j \in 1..(i - 1) : r[j][1] = "tx_pending"
      <3>1. CASE d = <<>> BY <3>1
      <3>2. ASSUME NEW j \in 1..(k - 1), s[j][1] = "tx_pending"
            PROVE  d = <<>> \/ \E l \in 1..(i - 1) : r[l][1] = "tx_pending"
        <4>1. CASE j = 1 BY <1>3, <3>2, <4>1
        <4>2. CASE j # 1
          <5>1. j \in 1..Len(s) /\ j - 1 \in 1..(i - 1) BY <1>3, <2>1, <2>2, <4>2
          <5>2. r[j - 1] = s[j] BY <1>3, <4>2, <5>1
          <5> QED BY <3>2, <5>1, <5>2
        <4> QED BY <4>1, <4>2
      <3> QED BY <2>2, <2>3, <2>5, <3>1, <3>2
    <2> QED BY <2>2, <2>3, <2>4, <2>5
  <1>6. Ready(r, q, d) BY <1>5 DEF Ready
  <1> QED BY <1>2, <1>6

(* The calls that replace another one. *)
Replacing(x, q, d) ==
    \A i \in 1..Len(x) :
        /\ x[i][1] = "remove_nbr" => q[x[i][2]] = <<>>
        /\ x[i][1] = "flush" => q[x[i][2]] = <<>> \/ (d = <<>> /\ Leaving(x))
        /\ x[i][1] = "queue_reset" => d = <<>>

LEMMA ReadyPush ==
  ASSUME NEW s, Shape(s), s # <<>>, NEW q, NEW d, Ready(s, q, d),
         Head(s)[1] \notin {"flush", "release"}, NEW x \in Seq(Calls),
         Replacing(x, q, d),
         Head(s)[1] = "tx_pending" => \E k \in 1..Len(x) : x[k][1] = "tx_pending"
  PROVE  Ready(x \o Tail(s), q, d)
  <1>1. s \in Seq(Calls) BY DEF Shape
  <1>2. PICK r : r = Tail(s) OBVIOUS
  <1>3. /\ Head(s) = s[1] /\ Len(s) \in Nat \ {0} /\ Len(r) = Len(s) - 1
        /\ r \in Seq(Calls)
        /\ \A i \in 1..Len(r) : i + 1 \in 1..Len(s) /\ r[i] = s[i + 1]
        /\ \A i \in 1..Len(s) : i # 1 => i - 1 \in 1..Len(r) /\ r[i - 1] = s[i]
    BY <1>1, <1>2, TailIndex
  <1>4. NoFlush(r) BY <1>2, <1>3, TailShape
  <1>5. PICK y : y = x \o r OBVIOUS
  <1>6. /\ Len(y) = Len(x) + Len(r) /\ Len(x) \in Nat /\ Len(r) \in Nat
        /\ \A i \in 1..Len(x) : y[i] = x[i]
        /\ \A i \in 1..Len(y) : i > Len(x) =>
              i - Len(x) \in 1..Len(r) /\ y[i] = r[i - Len(x)]
    BY <1>3, <1>5, Joined
  <1>7. Leaving(x) => Leaving(y)
    <2>1. \A i \in 1..Len(x) : i \in 1..Len(y) BY <1>6
    <2> QED BY <1>6, <2>1 DEF Leaving
  <1>8. ASSUME NEW i \in 1..Len(y)
        PROVE  /\ y[i][1] = "remove_nbr" => q[y[i][2]] = <<>>
               /\ y[i][1] = "flush" => q[y[i][2]] = <<>> \/ (d = <<>> /\ Leaving(y))
               /\ y[i][1] = "queue_reset" =>
                    d = <<>> \/ \E j \in 1..(i - 1) : y[j][1] = "tx_pending"
    <2>1. CASE i \in 1..Len(x) BY <1>6, <1>7, <2>1 DEF Replacing
    <2>2. CASE i > Len(x)
      <3>1. PICK l : l = i - Len(x) OBVIOUS
      <3>2. l \in 1..Len(r) /\ y[i] = r[l] BY <1>6, <2>2, <3>1
      <3>3. PICK k : k = l + 1 OBVIOUS
      <3>4. k \in 1..Len(s) /\ y[i] = s[k] /\ k \in Nat BY <1>3, <3>2, <3>3
      <3>5. /\ s[k][1] = "remove_nbr" => q[s[k][2]] = <<>>
            /\ s[k][1] = "queue_reset" =>
                 d = <<>> \/ \E j \in 1..(k - 1) : s[j][1] = "tx_pending"
        BY <3>4 DEF Ready
      <3>6. y[i][1] # "flush" BY <1>4, <3>2 DEF NoFlush
      <3>7. ASSUME NEW j \in 1..(k - 1), s[j][1] = "tx_pending"
            PROVE  \E h \in 1..(i - 1) : y[h][1] = "tx_pending"
        <4>1. CASE j = 1
          <5>1. PICK h \in 1..Len(x) : x[h][1] = "tx_pending" BY <1>3, <3>7, <4>1
          <5>2. h \in 1..(i - 1) /\ y[h] = x[h] BY <1>6, <2>2
          <5> QED BY <5>1, <5>2
        <4>2. CASE j # 1
          <5>1. j \in 1..Len(s) BY <1>3, <3>4
          <5>2. PICK m : m = j - 1 OBVIOUS
          <5>3. m \in 1..Len(r) /\ r[m] = s[j] BY <1>3, <4>2, <5>1, <5>2
          <5>4. PICK h : h = Len(x) + m OBVIOUS
          <5>5. h \in 1..Len(y) /\ h > Len(x) /\ h - Len(x) = m /\ h \in 1..(i - 1)
            BY <1>6, <2>2, <3>1, <3>2, <3>3, <3>7, <5>2, <5>3, <5>4
          <5>6. y[h] = r[m] BY <1>6, <5>5
          <5> QED BY <3>7, <5>3, <5>5, <5>6
        <4> QED BY <4>1, <4>2
      <3> QED BY <3>4, <3>5, <3>6, <3>7
    <2> QED BY <1>6, <2>1, <2>2
  <1>9. Ready(y, q, d) BY <1>8 DEF Ready
  <1> QED BY <1>2, <1>5, <1>9

(* Packets leave their queues; sent packets come only while no network is  *)
(* left.                                                                   *)
LEMMA ReadyFewer ==
  ASSUME NEW s \in Seq(Calls), NEW q, NEW d, Ready(s, q, d), NEW r, NEW e,
         \A a \in Addr : q[a] = <<>> => r[a] = <<>>,
         d = <<>> /\ Leaving(s) => e = <<>>
  PROVE  Ready(s, r, e)
  <1> SUFFICES ASSUME NEW i \in 1..Len(s)
               PROVE  /\ s[i][1] = "remove_nbr" => r[s[i][2]] = <<>>
                      /\ s[i][1] = "flush" =>
                           r[s[i][2]] = <<>> \/ (e = <<>> /\ Leaving(s))
                      /\ s[i][1] = "queue_reset" =>
                           e = <<>> \/ \E j \in 1..(i - 1) : s[j][1] = "tx_pending"
    BY DEF Ready
  <1>1. s[i] \in Calls OBVIOUS
  <1>2. s[i][1] \in {"remove_nbr", "flush"} => s[i][2] \in Addr BY <1>1, CallArg
  <1>3. s[i][1] = "queue_reset" => Leaving(s) BY DEF Leaving
  <1> QED BY <1>2, <1>3 DEF Ready

(* A step that the layer above does not see. *)
LEMMA WaitingSame ==
  ASSUME Undelivered' = Undelivered, queue' = queue PROVE Waiting' = Waiting
  BY DEF Waiting, For

LEMMA MacKept ==
  ASSUME IInv, IInv', PacketInv, MacInv, UNCHANGED packetVars,
         Getting(todo') <=> Getting(todo), Ready(todo', queue, dequeued)
  PROVE  MacInv' /\ UNCHANGED (Mac!vars)
  <1>1. queue' = queue /\ dequeued' = dequeued /\ outcome' = outcome
    BY DEF packetVars
  <1>2. Undelivered' = Undelivered BY <1>1, TodoTyped, UndeliveredIs, UndeliveredNext
  <1>3. Waiting' = Waiting BY <1>1, <1>2, WaitingSame
  <1>4. Addressed(queue)' BY <1>1 DEF MacInv, Addressed
  <1>5. Ready(todo, queue, dequeued)' BY <1>1 DEF Ready, Leaving
  <1> QED BY <1>1, <1>3, <1>4, <1>5 DEF MacInv, Mac!vars

LEMMA MacSame ==
  ASSUME IInv, IInv', PacketInv, MacInv, UNCHANGED packetVars, todo' = todo
  PROVE  MacInv' /\ UNCHANGED (Mac!vars)
  <1>1. (Getting(todo') <=> Getting(todo)) /\ Ready(todo', queue, dequeued)
    BY DEF MacInv
  <1> QED BY <1>1, MacKept

LEMMA MacReturn ==
  ASSUME IInv, IInv', PacketInv, MacInv, UNCHANGED packetVars, todo # <<>>,
         Head(todo)[1] # "dequeued_get", Return,
         Head(todo)[1] = "tx_pending" => dequeued = <<>>
  PROVE  MacInv' /\ UNCHANGED (Mac!vars)
  <1>1. todo' = Tail(todo) /\ Form(todo) BY DEF Return, PacketInv, Pending
  <1>2. Getting(todo') <=> Getting(todo) BY <1>1, TodoTyped, FormTail
  <1>3. Shape(todo) /\ Ready(todo, queue, dequeued) BY DEF IInv, TodoInv, MacInv
  <1>4. Ready(todo', queue, dequeued) BY <1>1, <1>3, ReadyTail
  <1> QED BY <1>2, <1>4, MacKept

LEMMA MacPush ==
  ASSUME IInv, IInv', PacketInv, MacInv, UNCHANGED packetVars, todo # <<>>,
         Head(todo)[1] \notin {"dequeued_get", "flush", "release", "tx_pending"},
         NEW x \in Seq(Calls), ReturnTo(x), Replacing(x, queue, dequeued),
         \A i \in 1..Len(x) :
            x[i][1] \in FreeCalls \/ (Head(todo)[1] \notin FreeCalls
                                      /\ x[i][1] \notin {"dequeued_get", "add_packet"})
  PROVE  MacInv' /\ UNCHANGED (Mac!vars)
  <1>1. todo' = x \o Tail(todo) /\ Form(todo)
    BY DEF ReturnTo, PacketInv, Pending
  <1>2. Getting(todo') <=> Getting(todo) BY <1>1, TodoTyped, FormPush
  <1>3. Shape(todo) /\ Ready(todo, queue, dequeued) BY DEF IInv, TodoInv, MacInv
  <1>4. Ready(todo', queue, dequeued) BY <1>1, <1>3, ReadyPush
  <1> QED BY <1>2, <1>4, MacKept

(* Calls that are about no queue. *)
Apart == {c \in Other : c[1] \notin {"remove_nbr", "flush", "queue_reset"}}

LEMMA ApartCalls ==
  /\ \A a \in Addr : /\ <<"add_nbr", a>> \in Apart
                      /\ <<"count_up", a>> \in Apart /\ <<"count_down", a>> \in Apart
  /\ \A l \in Link : <<"add_link", l>> \in Apart /\ <<"remove_link", l>> \in Apart
  /\ \A n \in SUBSET Addr : <<"free_unused", n>> \in Apart
  /\ \A a \in Addr \cup {None} : <<"set_source", a>> \in Apart
                                  /\ <<"associate_done", a>> \in Apart
  /\ <<"rx_pending", None>> \in Apart /\ <<"tx_pending", None>> \in Apart
  /\ <<"remove_all", None>> \in Apart /\ <<"reset_done", None>> \in Apart
  /\ Release \in Apart
  BY OtherCalls DEF Apart, Release

LEMMA ApartSeq ==
  ASSUME NEW x \in Seq(Apart)
  PROVE  /\ x \in Seq(Calls)
         /\ \A i \in 1..Len(x) : /\ x[i][1] \notin {"dequeued_get", "add_packet"}
                                 /\ x[i][1] \notin {"remove_nbr", "flush", "queue_reset"}
  <1>1. \A i \in 1..Len(x) : x[i] \in Apart OBVIOUS
  <1>2. \A c \in Apart : /\ c \in Calls /\ c[1] \notin {"dequeued_get", "add_packet"}
                         /\ c[1] \notin {"remove_nbr", "flush", "queue_reset"}
    BY DEF Apart, Other
  <1>3. Apart \subseteq Calls BY <1>2
  <1>4. x \in Seq(Calls) BY <1>3
  <1> QED BY <1>1, <1>2, <1>4

LEMMA MacPushApart ==
  ASSUME IInv, IInv', PacketInv, MacInv, UNCHANGED packetVars, todo # <<>>,
         Head(todo)[1] \notin FreeCalls \cup {"dequeued_get", "tx_pending"},
         NEW x \in Seq(Apart), ReturnTo(x)
  PROVE  MacInv' /\ UNCHANGED (Mac!vars)
  <1>1. x \in Seq(Calls) BY ApartSeq
  <1>2. Replacing(x, queue, dequeued) BY ApartSeq DEF Replacing
  <1>3. \A i \in 1..Len(x) : x[i][1] \notin {"dequeued_get", "add_packet"} BY ApartSeq
  <1>4. Head(todo)[1] \notin {"dequeued_get", "flush", "release", "tx_pending"}
    BY DEF FreeCalls
  <1> QED BY <1>1, <1>2, <1>3, <1>4, MacPush

LEMMA MacStart ==
  ASSUME IInv, IInv', PacketInv, MacInv, UNCHANGED packetVars, NEW s, Start(s),
         Ready(s, queue, dequeued), ~ Getting(s)
  PROVE  MacInv' /\ UNCHANGED (Mac!vars)
  <1>1. todo = <<>> /\ Len(todo) = 0 /\ todo' = s BY DEF Start, Idle
  <1>2. ~ Getting(todo) /\ ~ Getting(todo') BY <1>1 DEF Getting
  <1> QED BY <1>1, <1>2, MacKept

LEMMA MacStartApart ==
  ASSUME IInv, IInv', PacketInv, MacInv, UNCHANGED packetVars, NEW s \in Seq(Apart),
         Start(s)
  PROVE  MacInv' /\ UNCHANGED (Mac!vars)
  <1>1. Ready(s, queue, dequeued) BY ApartSeq DEF Ready
  <1>2. ~ Getting(s) BY ApartSeq DEF Getting
  <1> QED BY <1>1, <1>2, MacStart

(* The calls that do not touch a packet. *)
LEMMA MacQuiet ==
  ASSUME IInv, IInv', PacketInv, MacInv,
         \/ Lock \/ add_nbr_known \/ tsch_queue_add_nbr
         \/ tsch_queue_remove_nbr \/ tsch_queue_reset
         \/ tsch_queue_free_unused_neighbors \/ count_links
         \/ tsch_schedule_add_link \/ tsch_schedule_remove_link
         \/ tsch_schedule_remove_all \/ tsch_queue_update_time_source
         \/ tsch_rx_process_pending \/ reset_done \/ associate_done
  PROVE  MacInv' /\ UNCHANGED (Mac!vars)
  <1> USE DEF Doing
  <1>0. todo # <<>> =>
          /\ Head(todo) \in Calls /\ Head(todo) = todo[1] /\ 1 \in 1..Len(todo)
          /\ Ready(todo, queue, dequeued)
    BY HeadCall, TodoTyped DEF MacInv
  <1>1. CASE get_lock_request \/ get_lock_take \/ get_lock_return
    BY <1>1, MacSame DEF get_lock_request, get_lock_take, get_lock_return
  <1>2. CASE \/ tsch_release_lock \/ add_nbr_known \/ count_links \/ reset_done
             \/ associate_done \/ tsch_queue_update_time_source
    <2>1. /\ todo # <<>> /\ Return /\ UNCHANGED packetVars
          /\ Head(todo)[1] \notin {"dequeued_get", "tx_pending"}
      BY <1>2 DEF tsch_release_lock, add_nbr_known, count_links, reset_done,
                  associate_done, tsch_queue_update_time_source
    <2> QED BY <2>1, MacReturn
  <1>3. CASE tsch_rx_process_pending
    <2>1. /\ todo # <<>> /\ (Return \/ todo' = todo) /\ UNCHANGED packetVars
          /\ Head(todo)[1] \notin {"dequeued_get", "tx_pending"}
      BY <1>3 DEF tsch_rx_process_pending
    <2> QED BY <2>1, MacReturn, MacSame
  <1>4. CASE tsch_queue_add_nbr
    <2>1. /\ todo # <<>> /\ Head(todo)[1] = "add_nbr" /\ UNCHANGED packetVars
          /\ ReturnTo(<<Release>>)
      BY <1>4 DEF tsch_queue_add_nbr
    <2>2. <<Release>> \in Seq(Apart) BY ApartCalls
    <2> QED BY <2>1, <2>2, MacPushApart DEF FreeCalls
  <1>5. CASE tsch_queue_remove_nbr
    <2>1. /\ todo # <<>> /\ Head(todo)[1] = "remove_nbr" /\ UNCHANGED packetVars
          /\ ReturnTo(<<Release, <<"flush", Arg>>>>)
      BY <1>5 DEF tsch_queue_remove_nbr
    <2>2. Arg \in Addr BY <1>0, <2>1, CallArg DEF Arg
    <2>3. PICK b : b = Arg OBVIOUS
    <2>4. queue[b] = <<>> BY <1>0, <2>1, <2>3 DEF Ready, Arg
    <2>5. PICK x : x = <<Release, <<"flush", b>>>> OBVIOUS
    <2>6. Release \in Calls /\ <<"flush", b>> \in Calls
      BY <2>2, <2>3, OtherCalls DEF Other
    <2>7. x \in Seq(Calls) /\ Len(x) = 2 BY <2>5, <2>6
    <2>8. x[1][1] = "release" /\ x[2] = <<"flush", b>> BY <2>5 DEF Release
    <2>9. \A i \in 1..Len(x) : i = 1 \/ i = 2 BY <2>7
    <2>10. \A i \in 1..Len(x) : x[i][1] \in FreeCalls
      BY <2>8, <2>9 DEF FreeCalls
    <2>11. Replacing(x, queue, dequeued) BY <2>4, <2>8, <2>9 DEF Replacing
    <2>12. ReturnTo(x) BY <2>1, <2>3, <2>5
    <2> QED BY <2>1, <2>7, <2>10, <2>11, <2>12, MacPush
  <1>6. CASE tsch_queue_free_unused_neighbors
    <2>1. /\ todo # <<>> /\ Head(todo)[1] = "free_unused" /\ UNCHANGED packetVars
          /\ \/ \E a \in Arg :
                 /\ Unused(a)
                 /\ ReturnTo(<<<<"remove_nbr", a>>, <<"free_unused", Arg \ {a}>>>>)
             \/ Return
      BY <1>6 DEF tsch_queue_free_unused_neighbors
    <2>2. Arg \subseteq Addr BY <1>0, <2>1, CallArg DEF Arg
    <2>3. ASSUME NEW a \in Arg, Unused(a),
                 ReturnTo(<<<<"remove_nbr", a>>, <<"free_unused", Arg \ {a}>>>>)
          PROVE  MacInv' /\ UNCHANGED (Mac!vars)
      <3>1. PICK x : x = <<<<"remove_nbr", a>>, <<"free_unused", Arg \ {a}>>>> OBVIOUS
      <3>2. <<"remove_nbr", a>> \in Calls /\ <<"free_unused", Arg \ {a}>> \in Calls
        BY <2>2, OtherCalls DEF Other
      <3>3. x \in Seq(Calls) /\ Len(x) = 2 BY <3>1, <3>2
      <3>4. x[1] = <<"remove_nbr", a>> /\ x[2][1] = "free_unused" BY <3>1
      <3>5. \A i \in 1..Len(x) : i = 1 \/ i = 2 BY <3>3
      <3>6. \A i \in 1..Len(x) : x[i][1] \in FreeCalls
        BY <3>4, <3>5 DEF FreeCalls
      <3>7. Replacing(x, queue, dequeued) BY <2>3, <3>4, <3>5 DEF Replacing, Unused
      <3>8. ReturnTo(x) BY <2>3, <3>1
      <3> QED BY <2>1, <3>3, <3>6, <3>7, <3>8, MacPush
    <2>4. CASE Return BY <2>1, <2>4, MacReturn
    <2> QED BY <2>1, <2>3, <2>4
  <1>7. CASE tsch_queue_reset
    <2>1. /\ todo # <<>> /\ Head(todo)[1] = "queue_reset" /\ UNCHANGED packetVars
          /\ \/ \E a \in Arg :
                 ReturnTo(<<<<"flush", a>>, <<"queue_reset", Arg \ {a}>>>>)
             \/ Return
      BY <1>7 DEF tsch_queue_reset
    <2>2. Arg \subseteq Addr BY <1>0, <2>1, CallArg DEF Arg
    <2>3. ASSUME NEW a \in Arg,
                 ReturnTo(<<<<"flush", a>>, <<"queue_reset", Arg \ {a}>>>>)
          PROVE  MacInv' /\ UNCHANGED (Mac!vars)
      <3>1. PICK x : x = <<<<"flush", a>>, <<"queue_reset", Arg \ {a}>>>> OBVIOUS
      <3>2. <<"flush", a>> \in Calls /\ <<"queue_reset", Arg \ {a}>> \in Calls
        BY <2>2, OtherCalls DEF Other
      <3>3. x \in Seq(Calls) /\ Len(x) = 2 BY <3>1, <3>2
      <3>4. x[1][1] = "flush" /\ x[2][1] = "queue_reset" BY <3>1
      <3>5. \A i \in 1..Len(x) : i = 1 \/ i = 2 BY <3>3
      <3>6. \A i \in 1..Len(x) : x[i][1] \notin {"dequeued_get", "add_packet"}
        BY <3>4, <3>5
      <3>7. dequeued = <<>>
        <4>1. \A j \in 1..(1 - 1) : FALSE OBVIOUS
        <4> QED BY <1>0, <2>1, <4>1 DEF Ready
      <3>8. Leaving(x)
        <4>1. 2 \in 1..Len(x) BY <3>3
        <4> QED BY <3>4, <4>1 DEF Leaving
      <3>9. Replacing(x, queue, dequeued) BY <3>4, <3>5, <3>7, <3>8 DEF Replacing
      <3>10. ReturnTo(x) BY <2>3, <3>1
      <3> QED BY <2>1, <3>3, <3>6, <3>9, <3>10, MacPush DEF FreeCalls
    <2>4. CASE Return BY <2>1, <2>4, MacReturn
    <2> QED BY <2>1, <2>3, <2>4
  <1>8. ASSUME NEW l \in Link, NEW op \in {"count_up", "count_down"}
        PROVE  <<Release>> \o Counted(l, op) \in Seq(Apart)
    <2>1. LinkAddr[l] \in Addr BY TschAssumption
    <2>2. <<"add_nbr", LinkAddr[l]>> \in Apart /\ <<op, LinkAddr[l]>> \in Apart
      BY <2>1, ApartCalls
    <2>3. Counted(l, op) \in Seq(Apart) BY <2>2 DEF Counted
    <2>4. <<Release>> \in Seq(Apart) BY ApartCalls
    <2> QED BY <2>3, <2>4
  <1>9. CASE tsch_schedule_add_link \/ tsch_schedule_remove_link
    <2>1. /\ todo # <<>> /\ Head(todo)[1] \in {"add_link", "remove_link"}
          /\ UNCHANGED packetVars
          /\ \/ ReturnTo(<<Release>> \o Counted(Arg, "count_up"))
             \/ ReturnTo(<<Release>> \o Counted(Arg, "count_down"))
             \/ ReturnTo(<<Release>>)
      BY <1>9 DEF tsch_schedule_add_link, tsch_schedule_remove_link
    <2>2. Arg \in Link BY <1>0, <2>1, CallArg DEF Arg
    <2>3. <<Release>> \in Seq(Apart) BY ApartCalls
    <2>4. PICK x \in Seq(Apart) : ReturnTo(x) BY <1>8, <2>1, <2>2, <2>3
    <2> QED BY <2>1, <2>4, MacPushApart DEF FreeCalls
  <1>10. CASE tsch_schedule_remove_all
    <2>1. /\ todo # <<>> /\ Head(todo)[1] = "remove_all" /\ UNCHANGED packetVars
          /\ \/ \E l \in links : ReturnTo(<<<<"remove_link", l>>, Head(todo)>>)
             \/ Return
      BY <1>10 DEF tsch_schedule_remove_all
    <2>2. ASSUME NEW l \in links, ReturnTo(<<<<"remove_link", l>>, Head(todo)>>)
          PROVE  MacInv' /\ UNCHANGED (Mac!vars)
      <3>1. <<"remove_link", l>> \in Apart BY ApartCalls DEF IInv, Types
      <3>2. Head(todo) \in Apart BY <1>0, <2>1 DEF Apart, Other
      <3>3. <<<<"remove_link", l>>, Head(todo)>> \in Seq(Apart) BY <3>1, <3>2
      <3> QED BY <2>1, <2>2, <3>3, MacPushApart DEF FreeCalls
    <2>3. CASE Return BY <2>1, <2>3, MacReturn
    <2> QED BY <2>1, <2>2, <2>3
  <1> QED BY <1>1, <1>2, <1>3, <1>4, <1>5, <1>6, <1>7, <1>9, <1>10 DEF Lock

(* The calls that begin and do not touch a packet yet. *)
LEMMA MacBegins ==
  ASSUME IInv, IInv', PacketInv, MacInv,
         \/ tsch_pending_events \/ tsch_reset
         \/ \E l \in Dynamic : add_link(l) \/ remove_link(l)
         \/ \E a \in Sources : update_time_source(a) \/ tsch_associate(a)
  PROVE  MacInv' /\ UNCHANGED (Mac!vars)
  <1>1. CASE tsch_pending_events
    <2>1. <<<<"rx_pending", None>>, <<"tx_pending", None>>>> \in Seq(Apart)
      BY ApartCalls
    <2> QED BY <1>1, <2>1, MacStartApart DEF tsch_pending_events
  <1>2. CASE tsch_reset
    <2>1. PICK c : c = <<"queue_reset", nbrs>> OBVIOUS
    <2>2. PICK d : d = <<"free_unused", nbrs \cap Unicast>> OBVIOUS
    <2>3. PICK e, f, g, h : /\ e = <<"rx_pending", None>> /\ f = <<"tx_pending", None>>
                            /\ g = <<"set_source", None>> /\ h = <<"reset_done", None>>
      OBVIOUS
    <2>4. PICK s : s = <<e, f, c, d, g, h>> OBVIOUS
    <2>5. Start(s) /\ UNCHANGED packetVars
      BY <1>2, <2>1, <2>2, <2>3, <2>4 DEF tsch_reset
    <2>6. /\ Len(s) = 6 /\ s[1] = e /\ s[2] = f /\ s[3] = c /\ s[4] = d
          /\ s[5] = g /\ s[6] = h
      BY <2>4
    <2>7. /\ s[1][1] = "rx_pending" /\ s[2][1] = "tx_pending"
          /\ s[3][1] = "queue_reset" /\ s[4][1] = "free_unused"
          /\ s[5][1] = "set_source" /\ s[6][1] = "reset_done"
      BY <2>1, <2>2, <2>3, <2>6
    <2>8. \A i \in 1..Len(s) : i = 1 \/ i = 2 \/ i = 3 \/ i = 4 \/ i = 5 \/ i = 6
      BY <2>6
    <2>9. ~ Getting(s) BY <2>7, <2>8 DEF Getting
    <2>10. 2 \in 1..(3 - 1) OBVIOUS
    <2>11. Ready(s, queue, dequeued) BY <2>7, <2>8, <2>10 DEF Ready
    <2> QED BY <2>5, <2>9, <2>11, MacStart
  <1>3. ASSUME NEW l \in Dynamic, add_link(l) \/ remove_link(l)
        PROVE  MacInv' /\ UNCHANGED (Mac!vars)
    <2>1. l \in Link /\ links \subseteq Link BY TschAssumption DEF IInv, Types
    <2>2. UNCHANGED packetVars BY <1>3 DEF add_link, remove_link
    <2>3. \/ Start(<<<<"add_link", l>>>>) \/ Start(<<<<"remove_link", l>>>>)
          \/ \E m \in links : Start(<<<<"remove_link", m>>, <<"add_link", l>>>>)
      BY <1>3 DEF add_link, remove_link
    <2>4. \A m \in Link : <<"add_link", m>> \in Apart /\ <<"remove_link", m>> \in Apart
      BY ApartCalls
    <2>5. PICK c, d : c = <<"add_link", l>> /\ d = <<"remove_link", l>> OBVIOUS
    <2>6. c \in Apart /\ d \in Apart BY <2>1, <2>4, <2>5
    <2>7. <<c>> \in Seq(Apart) /\ <<d>> \in Seq(Apart) BY <2>6
    <2>8. ASSUME NEW m \in links, Start(<<<<"remove_link", m>>, c>>)
          PROVE  MacInv' /\ UNCHANGED (Mac!vars)
      <3>1. PICK e : e = <<"remove_link", m>> OBVIOUS
      <3>2. e \in Apart BY <2>1, <2>4, <3>1
      <3>3. <<e, c>> \in Seq(Apart) /\ Start(<<e, c>>) BY <2>6, <2>8, <3>1, <3>2
      <3> QED BY <2>2, <3>3, MacStartApart
    <2> QED BY <2>2, <2>3, <2>5, <2>7, <2>8, MacStartApart
  <1>4. ASSUME NEW a \in Sources, update_time_source(a)
        PROVE  MacInv' /\ UNCHANGED (Mac!vars)
    <2>1. a \in Addr BY TschAssumption
    <2>2. <<"add_nbr", a>> \in Apart /\ <<"set_source", a>> \in Apart
      BY <2>1, ApartCalls
    <2>3. <<<<"add_nbr", a>>, <<"set_source", a>>>> \in Seq(Apart) BY <2>2
    <2> QED BY <1>4, <2>3, MacStartApart DEF update_time_source
  <1>5. ASSUME NEW a \in Sources, tsch_associate(a)
        PROVE  MacInv' /\ UNCHANGED (Mac!vars)
    <2> DEFINE A == <<<<"remove_all", None>>>>
               B == [i \in DOMAIN FromBeacon |-> <<"add_link", FromBeacon[i]>>]
               C == <<<<"add_nbr", a>>, <<"set_source", a>>, <<"associate_done", a>>>>
               s == A \o B \o C
    <2>1. a \in Addr BY TschAssumption
    <2>2. A \in Seq(Apart) BY ApartCalls
    <2>3. B \in Seq(Apart)
      <3>1. FromBeacon \in Seq(Link) BY TschAssumption
      <3>2. DOMAIN FromBeacon = 1..Len(FromBeacon) /\ Len(FromBeacon) \in Nat
        BY <3>1
      <3>3. \A i \in DOMAIN FromBeacon : FromBeacon[i] \in Link BY <3>1
      <3>4. \A i \in DOMAIN FromBeacon : <<"add_link", FromBeacon[i]>> \in Apart
        BY <3>3, ApartCalls
      <3> QED BY <3>2, <3>4
    <2>4. C \in Seq(Apart)
      <3>1. /\ <<"add_nbr", a>> \in Apart /\ <<"set_source", a>> \in Apart
            /\ <<"associate_done", a>> \in Apart
        BY <2>1, ApartCalls
      <3> QED BY <3>1
    <2>5. Start(s) /\ UNCHANGED packetVars BY <1>5 DEF tsch_associate
    <2>6. s \in Seq(Apart)
      <3> HIDE DEF A, B, C
      <3>1. A \o B \in Seq(Apart) BY <2>2, <2>3
      <3> QED BY <2>4, <3>1
    <2> HIDE DEF s
    <2> QED BY <2>5, <2>6, MacStartApart
  <1> QED BY <1>1, <1>2, <1>3, <1>4, <1>5

------------------------------------------------------------------------------
(* What the layer above sees. *)
LEMMA Sequences ==
  ASSUME NEW S, NEW u \in Seq(S), NEW v \in Seq(S), NEW p \in S
  PROVE  /\ u \o Append(v, p) = Append(u \o v, p)
         /\ v # <<>> => Append(u, Head(v)) \o Tail(v) = u \o v
         /\ (<<p>> \o u) \o v # <<>>
         /\ Head((<<p>> \o u) \o v) = p /\ Tail((<<p>> \o u) \o v) = u \o v
         /\ <<>> \o v = v
  <1>1. u \o Append(v, p) = Append(u \o v, p) OBVIOUS
  <1>2. ASSUME v # <<>> PROVE Append(u, Head(v)) \o Tail(v) = u \o v
    <2>1. /\ Len(u) \in Nat /\ Len(v) \in Nat \ {0} /\ Tail(v) \in Seq(S)
          /\ Len(Tail(v)) = Len(v) - 1 /\ Head(v) = v[1] /\ Head(v) \in S
          /\ \A i \in 1..Len(Tail(v)) : Tail(v)[i] = v[i + 1]
      BY <1>2, TailIndex
    <2>2. PICK x, t, y, z : /\ x = Append(u, Head(v)) /\ t = Tail(v)
                            /\ y = x \o t /\ z = u \o v
      OBVIOUS
    <2>3. /\ x \in Seq(S) /\ Len(x) = Len(u) + 1 /\ x[Len(u) + 1] = v[1]
          /\ \A i \in 1..Len(u) : x[i] = u[i]
      BY <2>1, <2>2, AppendIndex
    <2>4. /\ y \in Seq(S) /\ Len(y) = Len(x) + Len(t)
          /\ \A i \in 1..Len(x) : y[i] = x[i]
          /\ \A i \in 1..Len(y) : i > Len(x) => y[i] = t[i - Len(x)]
      BY <2>1, <2>2, <2>3, Joined
    <2>5. /\ z \in Seq(S) /\ Len(z) = Len(u) + Len(v)
          /\ \A i \in 1..Len(u) : z[i] = u[i]
          /\ \A i \in 1..Len(z) : i > Len(u) => z[i] = v[i - Len(u)]
      BY <2>2, Joined
    <2>6. Len(y) = Len(z) BY <2>1, <2>2, <2>3, <2>4, <2>5
    <2>7. ASSUME NEW i \in 1..Len(z) PROVE y[i] = z[i]
      <3>1. CASE i \in 1..Len(u)
        <4>1. i \in 1..Len(x) BY <2>1, <2>3, <3>1
        <4> QED BY <2>3, <2>4, <2>5, <3>1, <4>1
      <3>2. CASE i = Len(u) + 1
        <4>1. i \in 1..Len(x) /\ i > Len(u) /\ i - Len(u) = 1 BY <2>1, <2>3, <3>2
        <4>2. y[i] = v[1] BY <2>3, <2>4, <3>2, <4>1
        <4>3. z[i] = v[1] BY <2>5, <2>7, <4>1
        <4> QED BY <4>2, <4>3
      <3>3. CASE i > Len(u) + 1
        <4>1. PICK k : k = i - Len(x) OBVIOUS
        <4>2. /\ i > Len(x) /\ i > Len(u) /\ k \in 1..Len(t) /\ i - Len(u) = k + 1
              /\ i \in 1..Len(y)
          BY <2>1, <2>2, <2>3, <2>5, <2>6, <3>3, <4>1
        <4>3. y[i] = t[k] BY <2>4, <4>1, <4>2
        <4>4. z[i] = v[k + 1] BY <2>5, <2>7, <4>2
        <4> QED BY <2>1, <2>2, <4>2, <4>3, <4>4
      <3> QED BY <2>1, <2>5, <3>1, <3>2, <3>3
    <2>8. y = z BY <2>4, <2>5, <2>6, <2>7
    <2> QED BY <2>2, <2>8
  <1>3. PICK w : w = u \o v OBVIOUS
  <1>4. w \in Seq(S) /\ (<<p>> \o u) \o v = <<p>> \o w BY <1>3
  <1>5. <<p>> \o w # <<>> /\ Head(<<p>> \o w) = p /\ Tail(<<p>> \o w) = w
    BY <1>4
  <1>6. <<>> \o v = v OBVIOUS
  <1> QED BY <1>1, <1>2, <1>3, <1>4, <1>5, <1>6

LEMMA WaitingAt ==
  \A b \in Addr : /\ Waiting[b] = For(b, Undelivered) \o queue[b]
                  /\ Waiting'[b] = For(b, Undelivered') \o queue'[b]
  BY DEF Waiting, For

LEMMA WaitingChanges ==
  ASSUME NEW a \in Addr, \A b \in Addr : b # a => Waiting'[b] = Waiting[b]
  PROVE  Waiting' = [Waiting EXCEPT ![a] = Waiting'[a]]
  <1>1. /\ Waiting = [b \in Addr |-> Waiting[b]]
        /\ Waiting' = [b \in Addr |-> Waiting'[b]]
    BY DEF Waiting
  <1> QED BY <1>1

LEMMA MacTypes ==
  ASSUME IInv, PacketInv
  PROVE  /\ queue \in [Addr -> Seq(Packet)] /\ dequeued \in Seq(Packet)
         /\ Undelivered \in Seq(Packet) /\ todo \in Seq(Calls)
         /\ \A b \in Addr : For(b, Undelivered) \in Seq(Packet)
  BY CurrentLink, UndeliveredTyped, TodoTyped, ForTyped

(* A packet is refused, *)
LEMMA MacRefuses ==
  ASSUME IInv, IInv', PacketInv, MacInv, NEW p \in Packet, outcome[p] = "new",
         outcome' = [outcome EXCEPT ![p] = "ERR"], todo' = <<>>, ~ Getting(todo),
         UNCHANGED <<queue, packet_memb, transmissions, ret, dequeued>>
  PROVE  MacInv' /\ Mac!Refuse(p)
  <1>1. Len(todo') = 0 OBVIOUS
  <1>2. ~ Getting(todo') /\ Ready(todo, queue, dequeued)' BY <1>1 DEF Getting, Ready
  <1>3. Addressed(queue)' BY DEF MacInv, Addressed
  <1>4. Undelivered' = Undelivered BY <1>2, TodoTyped, UndeliveredIs, UndeliveredNext
  <1>5. Waiting' = Waiting BY <1>4, WaitingSame
  <1> QED BY <1>2, <1>3, <1>5 DEF MacInv, Mac!Refuse

(* or queued for its receiver. *)
LEMMA MacAdds ==
  ASSUME IInv, IInv', PacketInv, MacInv, tsch_queue_add_packet
  PROVE  MacInv' /\ [Mac!Next]_(Mac!vars)
  <1>1. PICK p, a : p = Arg /\ a = Dest[p] OBVIOUS
  <1>2. /\ todo # <<>> /\ Head(todo)[1] = "add_packet" /\ todo' = Tail(todo)
        /\ Head(todo)[2] = p
    BY <1>1 DEF tsch_queue_add_packet, Doing, Return, Arg
  <1>3. p \in Packet BY <1>2, HeadCall, CallArg
  <1>4. a \in Addr BY <1>1, <1>3, TschAssumption
  <1>5. 1 \in 1..Len(todo) /\ Head(todo) = todo[1] BY <1>2, TodoTyped
  <1>6. 1 = Len(todo) /\ outcome[p] = "new"
    BY <1>2, <1>5, PacketFacts DEF Form, AddsNew
  <1>7. todo' = <<>> /\ Len(todo') = 0 BY <1>2, <1>6, TodoTyped
  <1>8. ~ Getting(todo)
    <2>1. \A n : n = 1 => \A i \in 1..n : i = 1 OBVIOUS
    <2>2. \A i \in 1..Len(todo) : i = 1 BY <1>6, <2>1
    <2> QED BY <1>2, <1>5, <2>2 DEF Getting
  <1>9. CASE /\ outcome' = [outcome EXCEPT ![p] = "ERR"]
             /\ UNCHANGED <<queue, packet_memb, transmissions, ret, dequeued>>
    <2>1. MacInv' /\ Mac!Refuse(p) BY <1>3, <1>6, <1>7, <1>8, <1>9, MacRefuses
    <2> QED BY <1>3, <2>1 DEF Mac!Next
  <1>10. CASE /\ queue' = [queue EXCEPT ![a] = Append(@, p)]
              /\ outcome' = [outcome EXCEPT ![p] = "queued"]
              /\ dequeued' = dequeued
    <2>1. ~ Getting(todo') /\ Ready(todo, queue, dequeued)'
      BY <1>7 DEF Getting, Ready
    <2>2. Undelivered' = Undelivered
      BY <1>8, <1>10, <2>1, TodoTyped, UndeliveredIs, UndeliveredNext
    <2>3. queue[a] \in Seq(Packet) /\ For(a, Undelivered) \in Seq(Packet)
      BY <1>4, MacTypes
    <2>4. /\ queue'[a] = Append(queue[a], p)
          /\ \A b \in Addr : b # a => queue'[b] = queue[b]
      BY <1>4, <1>10, MacTypes
    <2>5. Addressed(queue)'
      <3> SUFFICES ASSUME NEW b \in Addr, NEW i \in 1..Len(queue'[b])
                   PROVE  Dest[queue'[b][i]] = b
        BY DEF Addressed
      <3>1. CASE b # a BY <2>4, <3>1 DEF MacInv, Addressed
      <3>2. CASE b = a
        <4>1. /\ Len(queue'[a]) = Len(queue[a]) + 1 /\ Len(queue[a]) \in Nat
              /\ queue'[a][Len(queue[a]) + 1] = p
              /\ \A j \in 1..Len(queue[a]) : queue'[a][j] = queue[a][j]
          BY <1>3, <2>3, <2>4, AppendIndex
        <4>2. i = Len(queue[a]) + 1 \/ i \in 1..Len(queue[a]) BY <3>2, <4>1
        <4> QED BY <1>1, <1>4, <3>2, <4>1, <4>2 DEF MacInv, Addressed
      <3> QED BY <3>1, <3>2
    <2>6. Waiting'[a] = Append(Waiting[a], p)
      <3>1. Waiting'[a] = For(a, Undelivered) \o Append(queue[a], p)
        BY <1>4, <2>2, <2>4, WaitingAt
      <3>2. PICK u, v : u = For(a, Undelivered) /\ v = queue[a] OBVIOUS
      <3>3. u \in Seq(Packet) /\ v \in Seq(Packet) BY <2>3, <3>2
      <3>4. u \o Append(v, p) = Append(u \o v, p) BY <1>3, <3>3, Sequences
      <3>5. Waiting[a] = u \o v BY <1>4, <3>2, WaitingAt
      <3> QED BY <3>1, <3>2, <3>4, <3>5
    <2>7. \A b \in Addr : b # a => Waiting'[b] = Waiting[b]
      BY <2>2, <2>4, WaitingAt
    <2>8. Waiting' = [Waiting EXCEPT ![a] = Append(Waiting[a], p)]
      BY <1>4, <2>6, <2>7, WaitingChanges
    <2>9. Mac!Accept(p) BY <1>1, <1>6, <1>10, <2>8 DEF Mac!Accept
    <2> QED BY <1>3, <2>1, <2>5, <2>9 DEF MacInv, Mac!Next
  <1> QED BY <1>1, <1>9, <1>10 DEF tsch_queue_add_packet

LEMMA MacSends ==
  ASSUME IInv, IInv', PacketInv, MacInv, NEW p \in Packet, send_packet(p)
  PROVE  MacInv' /\ [Mac!Next]_(Mac!vars)
  <1>1. outcome[p] = "new" BY DEF send_packet
  <1>2. CASE Start(<<>>) /\ outcome' = [outcome EXCEPT ![p] = "ERR"]
             /\ UNCHANGED <<queue, packet_memb, transmissions, ret, dequeued>>
    <2>1. todo = <<>> /\ Len(todo) = 0 /\ todo' = <<>> BY <1>2 DEF Start, Idle
    <2>2. ~ Getting(todo) BY <2>1 DEF Getting
    <2>3. MacInv' /\ Mac!Refuse(p) BY <1>1, <1>2, <2>1, <2>2, MacRefuses
    <2> QED BY <2>3 DEF Mac!Next
  <1>3. CASE Start(<<<<"add_nbr", Dest[p]>>, <<"add_packet", p>>>>)
             /\ UNCHANGED packetVars
    <2>1. PICK s : s = <<<<"add_nbr", Dest[p]>>, <<"add_packet", p>>>> OBVIOUS
    <2>2. Len(s) = 2 /\ s[1][1] = "add_nbr" /\ s[2][1] = "add_packet" BY <2>1
    <2>3. \A i \in 1..Len(s) : i = 1 \/ i = 2 BY <2>2
    <2>4. ~ Getting(s) /\ Ready(s, queue, dequeued) BY <2>2, <2>3 DEF Getting, Ready
    <2> QED BY <1>3, <2>1, <2>4, MacStart
  <1> QED BY <1>2, <1>3 DEF send_packet

(* A packet in its receiver's queue is a packet that waits. *)
LEMMA HeadQueued ==
  ASSUME IInv, PacketInv, NEW a \in Addr, queue[a] # <<>>
  PROVE  Head(queue[a]) \in Packet /\ outcome[Head(queue[a])] = "queued"
  <1>1. queue[a] \in Seq(Packet) BY MacTypes
  <1>2. 1 \in 1..Len(queue[a]) /\ Head(queue[a]) = queue[a][1]
        /\ Head(queue[a]) \in Packet
    BY <1>1
  <1>3. Head(queue[a]) \in packet_memb BY <1>2, PacketFacts DEF Single
  <1> QED BY <1>2, <1>3 DEF PacketInv, Attempts

LEMMA AddressedTail ==
  ASSUME IInv, Addressed(queue), NEW a \in Addr, queue[a] # <<>>,
         queue' = [queue EXCEPT ![a] = Tail(@)]
  PROVE  /\ Addressed(queue)' /\ Dest[Head(queue[a])] = a
         /\ queue'[a] = Tail(queue[a])
         /\ \A b \in Addr : b # a => queue'[b] = queue[b]
         /\ \A b \in Addr : queue[b] = <<>> => queue'[b] = <<>>
  <1>1. queue \in [Addr -> Seq(Packet)] /\ queue[a] \in Seq(Packet) BY CurrentLink
  <1>2. /\ queue'[a] = Tail(queue[a])
        /\ \A b \in Addr : b # a => queue'[b] = queue[b]
    BY <1>1
  <1>3. /\ Len(queue'[a]) = Len(queue[a]) - 1 /\ Len(queue[a]) \in Nat \ {0}
        /\ \A i \in 1..Len(queue'[a]) : queue'[a][i] = queue[a][i + 1]
        /\ Head(queue[a]) = queue[a][1]
    BY <1>1, <1>2, TailIndex
  <1>4. Addressed(queue)'
    <2> SUFFICES ASSUME NEW b \in Addr, NEW i \in 1..Len(queue'[b])
                 PROVE  Dest[queue'[b][i]] = b
      BY DEF Addressed
    <2>1. CASE b # a BY <1>2, <2>1 DEF Addressed
    <2>2. CASE b = a
      <3>1. i + 1 \in 1..Len(queue[a]) /\ queue'[a][i] = queue[a][i + 1]
        BY <1>3, <2>2
      <3> QED BY <2>2, <3>1 DEF Addressed
    <2> QED BY <2>1, <2>2
  <1>5. Dest[Head(queue[a])] = a
    <2>1. 1 \in 1..Len(queue[a]) BY <1>3
    <2> QED BY <1>3, <2>1 DEF Addressed
  <1> QED BY <1>2, <1>4, <1>5

(* The first packet that waits for a is given back with status o. *)
LEMMA MacFinishes ==
  ASSUME NEW a \in Addr, NEW p, NEW o \in {"OK", "ERR"} \cup Failures,
         Waiting[a] # <<>>, Head(Waiting[a]) = p, outcome[p] = "queued",
         outcome' = [outcome EXCEPT ![p] = o], Waiting'[a] = Tail(Waiting[a]),
         \A b \in Addr : b # a => Waiting'[b] = Waiting[b]
  PROVE  Mac!Next
  <1>1. Waiting' = [Waiting EXCEPT ![a] = Tail(Waiting[a])] BY WaitingChanges
  <1>2. Mac!Finish(a, o) BY <1>1 DEF Mac!Finish
  <1> QED BY <1>2 DEF Mac!Next

(* A queue is flushed when nothing sent is left. *)
LEMMA MacFlushes ==
  ASSUME IInv, IInv', PacketInv, MacInv, tsch_queue_flush_nbr_queue
  PROVE  MacInv' /\ [Mac!Next]_(Mac!vars)
  <1>1. todo # <<>> /\ Head(todo)[1] = "flush"
    BY DEF tsch_queue_flush_nbr_queue, Doing
  <1>2. CASE Return /\ UNCHANGED packetVars
    <2>1. MacInv' /\ UNCHANGED (Mac!vars) BY <1>1, <1>2, MacReturn
    <2> QED BY <2>1
  <1>3. CASE /\ queue[Arg] # <<>>
             /\ queue' = [queue EXCEPT ![Arg] = Tail(@)]
             /\ outcome' = [outcome EXCEPT ![Head(queue[Arg])] = "ERR"]
             /\ tsch_queue_free_packet(Head(queue[Arg]))
             /\ UNCHANGED <<todo, dequeued>>
    <2>1. PICK a, p : a = Arg /\ p = Head(queue[Arg]) OBVIOUS
    <2>2. a \in Addr BY <1>1, <2>1, HeadCall, CallArg DEF Arg
    <2>3. queue[a] # <<>> /\ queue' = [queue EXCEPT ![a] = Tail(@)]
          /\ outcome' = [outcome EXCEPT ![p] = "ERR"] /\ p = Head(queue[a])
      BY <1>3, <2>1
    <2>4. dequeued = <<>>
      <3>1. 1 \in 1..Len(todo) /\ Head(todo) = todo[1] BY <1>1, TodoTyped
      <3>2. todo[1][1] = "flush" /\ todo[1][2] = a BY <1>1, <2>1, <3>1 DEF Arg
      <3> QED BY <2>3, <3>1, <3>2 DEF MacInv, Ready
    <2>5. ~ Getting(todo) BY <2>4 DEF PacketInv, Pending
    <2>6. Undelivered = <<>> /\ Undelivered' = <<>>
      BY <1>3, <2>4, <2>5, TodoTyped, UndeliveredIs, UndeliveredNext
    <2>7. /\ Addressed(queue)' /\ queue'[a] = Tail(queue[a])
          /\ \A b \in Addr : b # a => queue'[b] = queue[b]
          /\ \A b \in Addr : queue[b] = <<>> => queue'[b] = <<>>
      BY <2>2, <2>3, AddressedTail DEF MacInv
    <2>8. queue \in [Addr -> Seq(Packet)] /\ queue' \in [Addr -> Seq(Packet)]
      BY DEF IInv, Types
    <2>9. \A b \in Addr : Waiting[b] = queue[b] /\ Waiting'[b] = queue'[b]
      <3> SUFFICES ASSUME NEW b \in Addr
                   PROVE  Waiting[b] = queue[b] /\ Waiting'[b] = queue'[b]
        OBVIOUS
      <3>1. Waiting[b] = <<>> \o queue[b] /\ Waiting'[b] = <<>> \o queue'[b]
        BY <2>6, WaitingAt, ForNone
      <3>2. queue[b] \in Seq(Packet) /\ queue'[b] \in Seq(Packet) BY <2>8
      <3>3. <<>> \o queue[b] = queue[b] /\ <<>> \o queue'[b] = queue'[b] BY <3>2
      <3> QED BY <3>1, <3>3
    <2>10. outcome[p] = "queued" BY <2>2, <2>3, HeadQueued
    <2>11. Mac!Next
      <3>1. /\ Waiting[a] # <<>> /\ Head(Waiting[a]) = p
            /\ Waiting'[a] = Tail(Waiting[a])
        BY <2>2, <2>3, <2>7, <2>9
      <3>2. \A b \in Addr : b # a => Waiting'[b] = Waiting[b] BY <2>7, <2>9
      <3>3. "ERR" \in {"OK", "ERR"} \cup Failures OBVIOUS
      <3>4. outcome' = [outcome EXCEPT ![p] = "ERR"] BY <2>3
      <3> QED BY <2>2, <2>10, <3>1, <3>2, <3>3, <3>4, MacFinishes
    <2>12. Ready(todo, queue, dequeued)'
      <3>1. Ready(todo, queue', dequeued) BY <2>7, TodoTyped, ReadyFewer DEF MacInv
      <3> QED BY <1>3, <3>1 DEF Ready, Leaving
    <2> QED BY <2>7, <2>11, <2>12 DEF MacInv
  <1> QED BY <1>2, <1>3 DEF tsch_queue_flush_nbr_queue

(* The callback of a sent packet is called. *)
LEMMA MacCallback ==
  ASSUME IInv, IInv', PacketInv, MacInv, tsch_tx_process_pending
  PROVE  MacInv' /\ [Mac!Next]_(Mac!vars)
  <1>1. todo # <<>> /\ Head(todo)[1] = "tx_pending"
    BY DEF tsch_tx_process_pending, Doing
  <1>2. CASE dequeued = <<>> /\ Return /\ UNCHANGED packetVars
    <2>1. MacInv' /\ UNCHANGED (Mac!vars) BY <1>1, <1>2, MacReturn
    <2> QED BY <2>1
  <1>3. CASE /\ dequeued # <<>>
             /\ outcome' = [outcome EXCEPT ![Head(dequeued)] = ret[Head(dequeued)]]
             /\ tsch_queue_free_packet(Head(dequeued))
             /\ ReturnTo(<<<<"free_unused", nbrs \cap Unicast>>,
                             <<"dequeued_get", None>>, Head(todo)>>)
             /\ UNCHANGED <<queue, dequeued>>
    <2>1. PICK p, o, a : p = Head(dequeued) /\ o = ret[p] /\ a = Dest[p] OBVIOUS
    <2>2. nbrs \cap Unicast \in SUBSET Addr BY DEF IInv, Types
    <2>3. Getting(todo') /\ ~ Getting(todo)
      BY <1>1, <1>3, <2>2, TodoTyped, PacketFacts, FormTurn DEF ReturnTo
    <2>4. /\ Undelivered = dequeued /\ Undelivered' = Tail(dequeued)
          /\ dequeued \in Seq(Packet)
      BY <1>3, <2>3, TodoTyped, UndeliveredIs, UndeliveredNext DEF IInv, Types
    <2>5. 1 \in 1..Len(dequeued) /\ p = dequeued[1] /\ p \in Packet
          /\ Tail(dequeued) \in Seq(Packet)
      BY <1>3, <2>1, <2>4
    <2>6. a \in Addr BY <2>1, <2>5, TschAssumption
    <2>7. o \in {"OK", "ERR"} \cup Failures
      <3>1. ret[dequeued[1]] \in {"OK"} \cup Failures
        BY <2>4, <2>5 DEF PacketInv, Attempts
      <3> QED BY <2>1, <2>5, <3>1
    <2>8. outcome[p] = "queued"
      <3>1. p \in packet_memb BY <2>4, <2>5, PacketFacts DEF Single
      <3> QED BY <2>5, <3>1 DEF PacketInv, Attempts
    <2>9. outcome' = [outcome EXCEPT ![p] = o] /\ queue' = queue /\ dequeued' = dequeued
      BY <1>3, <2>1
    <2>10. ASSUME NEW b \in Addr
           PROVE  /\ b # a => Waiting'[b] = Waiting[b]
                  /\ b = a => /\ Waiting[b] # <<>> /\ Head(Waiting[b]) = p
                              /\ Waiting'[b] = Tail(Waiting[b])
      <3>1. PICK u, v : u = For(b, Tail(dequeued)) /\ v = queue[b] OBVIOUS
      <3>2. u \in Seq(Packet) /\ v \in Seq(Packet) BY <2>5, <3>1, ForTyped, MacTypes
      <3>3. For(b, dequeued) = Before(p, u, b) BY <1>3, <2>1, <2>4, <3>1, ForHead
      <3>4. Waiting[b] = Before(p, u, b) \o v BY <2>4, <3>1, <3>3, WaitingAt
      <3>5. Waiting'[b] = u \o v BY <2>4, <2>9, <3>1, WaitingAt
      <3>6. CASE b # a BY <2>1, <3>4, <3>5, <3>6 DEF Before
      <3>7. CASE b = a
        <4>1. Waiting[b] = (<<p>> \o u) \o v BY <2>1, <3>4, <3>7 DEF Before
        <4>2. /\ (<<p>> \o u) \o v # <<>> /\ Head((<<p>> \o u) \o v) = p
              /\ Tail((<<p>> \o u) \o v) = u \o v
          BY <2>5, <3>2, Sequences
        <4> QED BY <3>5, <3>7, <4>1, <4>2
      <3> QED BY <3>6, <3>7
    <2>11. Mac!Next
      <3>1. /\ Waiting[a] # <<>> /\ Head(Waiting[a]) = p
            /\ Waiting'[a] = Tail(Waiting[a])
        BY <2>6, <2>10
      <3>2. \A b \in Addr : b # a => Waiting'[b] = Waiting[b] BY <2>10
      <3> QED BY <2>6, <2>7, <2>8, <2>9, <3>1, <3>2, MacFinishes
    <2>12. Ready(todo, queue, dequeued)'
      <3>1. PICK x, n : x = <<<<"free_unused", n>>, <<"dequeued_get", None>>, Head(todo)>>
                        /\ n = nbrs \cap Unicast
        OBVIOUS
      <3>2. <<"free_unused", n>> \in Calls /\ <<"dequeued_get", None>> \in Calls
        BY <2>2, <3>1 DEF Calls
      <3>3. Head(todo) \in Calls BY <1>1, HeadCall
      <3>4. x \in Seq(Calls) /\ Len(x) = 3 BY <3>1, <3>2, <3>3
      <3>5. /\ x[1][1] = "free_unused" /\ x[2][1] = "dequeued_get"
            /\ x[3][1] = "tx_pending" /\ 3 \in 1..Len(x)
            /\ \A i \in 1..Len(x) : i = 1 \/ i = 2 \/ i = 3
        BY <1>1, <3>1, <3>4
      <3>6. Replacing(x, queue, dequeued) BY <3>5 DEF Replacing
      <3>7. \E k \in 1..Len(x) : x[k][1] = "tx_pending" BY <3>5
      <3>8. Shape(todo) /\ Ready(todo, queue, dequeued) BY DEF IInv, TodoInv, MacInv
      <3>9. Ready(x \o Tail(todo), queue, dequeued)
        BY <1>1, <3>4, <3>6, <3>7, <3>8, ReadyPush
      <3>10. todo' = x \o Tail(todo) BY <1>3, <3>1 DEF ReturnTo
      <3>11. Ready(todo', queue, dequeued) BY <3>9, <3>10
      <3> QED BY <2>9, <3>11 DEF Ready, Leaving
    <2>13. Addressed(queue)' BY <2>9 DEF MacInv, Addressed
    <2> QED BY <2>11, <2>12, <2>13 DEF MacInv
  <1> QED BY <1>2, <1>3 DEF tsch_tx_process_pending

(* The ring is advanced, which the layer above does not see. *)
LEMMA MacGets ==
  ASSUME IInv, IInv', PacketInv, MacInv, dequeued_get
  PROVE  MacInv' /\ UNCHANGED (Mac!vars)
  <1>1. /\ todo # <<>> /\ Head(todo)[1] = "dequeued_get" /\ todo' = Tail(todo)
        /\ dequeued' = IF dequeued = <<>> THEN dequeued ELSE Tail(dequeued)
        /\ UNCHANGED <<queue, outcome>>
    BY DEF dequeued_get, Doing, Return
  <1>2. ~ Getting(todo') BY <1>1, TodoTyped, FormTail, PacketFacts DEF FreeCalls
  <1>3. Getting(todo)
    <2>1. 1 \in 1..Len(todo) /\ Head(todo) = todo[1] BY <1>1, TodoTyped
    <2> QED BY <1>1, <2>1 DEF Getting
  <1>4. dequeued # <<>> BY <1>3 DEF PacketInv, Pending
  <1>5. Undelivered' = Undelivered
    BY <1>1, <1>2, <1>3, <1>4, TodoTyped, UndeliveredIs, UndeliveredNext
  <1>6. Waiting' = Waiting BY <1>1, <1>5, WaitingSame
  <1>7. Shape(todo) /\ Ready(todo, queue, dequeued) BY DEF IInv, TodoInv, MacInv
  <1>8. Ready(todo', queue, dequeued) BY <1>1, <1>7, ReadyTail
  <1>9. todo' \in Seq(Calls) BY TodoTypedNext
  <1>10. Ready(todo', queue, dequeued') BY <1>4, <1>8, <1>9, ReadyFewer
  <1>11. Ready(todo, queue, dequeued)' BY <1>1, <1>10 DEF Ready, Leaving
  <1>12. Addressed(queue)' BY <1>1 DEF MacInv, Addressed
  <1> QED BY <1>1, <1>6, <1>11, <1>12 DEF MacInv, Mac!vars

(* A packet that was sent for good goes from the front of its queue to the *)
(* end of the ring: its receiver's packets keep their order.               *)
LEMMA MacSlot ==
  ASSUME IInv, IInv', PacketInv, MacInv, tx_slot_end
  PROVE  MacInv' /\ UNCHANGED (Mac!vars)
  <1>1. PICK p, a : p = current_packet /\ a = current_neighbor OBVIOUS
  <1>2. /\ a \in Addr /\ queue[a] # <<>> /\ p = Head(queue[a]) /\ ~ tsch_locked
        /\ queue \in [Addr -> Seq(Packet)] /\ dequeued \in Seq(Packet)
        /\ phase = "tx"
    BY <1>1 DEF tx_slot_end, IInv, SlotKept, Types
  <1>3. p \in Packet BY <1>2
  <1>4. \/ queue' = queue /\ dequeued' = dequeued
        \/ queue' = Removed(a) /\ dequeued' = Append(dequeued, p)
    BY <1>1 DEF tx_slot_end
  <1>5. todo' = todo /\ outcome' = outcome BY DEF tx_slot_end
  <1>6. Getting(todo') <=> Getting(todo) BY <1>5
  <1>7. Undelivered \in Seq(Packet) /\ todo \in Seq(Calls) BY MacTypes
  <1>8. CASE queue' = queue /\ dequeued' = dequeued
    <2>1. Undelivered' = Undelivered
      BY <1>6, <1>7, <1>8, UndeliveredIs, UndeliveredNext
    <2>2. Waiting' = Waiting BY <1>8, <2>1, WaitingSame
    <2>3. Ready(todo, queue, dequeued)' BY <1>5, <1>8 DEF MacInv, Ready, Leaving
    <2>4. Addressed(queue)' BY <1>8 DEF MacInv, Addressed
    <2> QED BY <1>5, <2>2, <2>3, <2>4 DEF MacInv, Mac!vars
  <1>9. CASE queue' = Removed(a) /\ dequeued' = Append(dequeued, p)
    <2>1. queue' = [queue EXCEPT ![a] = Tail(@)] BY <1>2, <1>9 DEF Removed
    <2>2. Undelivered' = Append(Undelivered, p)
      <3>1. CASE ~ Getting(todo)
        BY <1>6, <1>7, <1>9, <3>1, UndeliveredIs, UndeliveredNext
      <3>2. CASE Getting(todo)
        <4>1. dequeued # <<>> BY <3>2 DEF PacketInv, Pending
        <4>2. Tail(Append(dequeued, p)) = Append(Tail(dequeued), p)
          BY <1>2, <1>3, <4>1
        <4> QED BY <1>6, <1>7, <1>9, <3>2, <4>2, UndeliveredIs, UndeliveredNext
      <3> QED BY <3>1, <3>2
    <2>3. /\ Addressed(queue)' /\ Dest[p] = a /\ queue'[a] = Tail(queue[a])
          /\ \A b \in Addr : b # a => queue'[b] = queue[b]
          /\ \A b \in Addr : queue[b] = <<>> => queue'[b] = <<>>
      BY <1>2, <2>1, AddressedTail DEF MacInv
    <2>4. ASSUME NEW b \in Addr PROVE Waiting'[b] = Waiting[b]
      <3>1. PICK u, v : u = For(b, Undelivered) /\ v = queue[b] OBVIOUS
      <3>2. u \in Seq(Packet) /\ v \in Seq(Packet) BY <1>2, <1>7, <3>1, ForTyped
      <3>3. For(b, Undelivered') = Added(u, p, b)
        BY <1>3, <1>7, <2>2, <3>1, ForAppend
      <3>4. Waiting[b] = u \o v BY <3>1, WaitingAt
      <3>5. Waiting'[b] = Added(u, p, b) \o queue'[b] BY <3>3, WaitingAt
      <3>6. CASE b # a
        <4>1. Added(u, p, b) = u /\ queue'[b] = v BY <2>3, <3>1, <3>6 DEF Added
        <4> QED BY <3>4, <3>5, <4>1
      <3>7. CASE b = a
        <4>1. /\ Added(u, p, b) = Append(u, Head(v)) /\ queue'[b] = Tail(v)
              /\ v # <<>>
          BY <1>2, <2>3, <3>1, <3>7 DEF Added
        <4>2. Append(u, Head(v)) \o Tail(v) = u \o v BY <1>3, <3>2, <4>1, Sequences
        <4> QED BY <3>4, <3>5, <4>1, <4>2
      <3> QED BY <3>6, <3>7
    <2>5. Waiting' = Waiting
      <3>1. /\ Waiting = [b \in Addr |-> Waiting[b]]
            /\ Waiting' = [b \in Addr |-> Waiting'[b]]
        BY DEF Waiting
      <3> QED BY <2>4, <3>1
    <2>6. ~ Leaving(todo) BY <1>2 DEF IInv, TodoInv
    <2>7. Ready(todo, queue', dequeued')
      BY <1>7, <2>3, <2>6, ReadyFewer DEF MacInv
    <2>8. Ready(todo, queue, dequeued)' BY <1>5, <2>7 DEF Ready, Leaving
    <2> QED BY <1>5, <2>3, <2>5, <2>8 DEF MacInv, Mac!vars
  <1> QED BY <1>4, <1>8, <1>9

LEMMA MacStep ==
  ASSUME IInv, IInv', PacketInv, MacInv, [Next]_vars
  PROVE  MacInv' /\ [Mac!Next]_(Mac!vars)
  <1>1. CASE slot_stop \/ slot_skip \/ slot_missed \/ slot_begin \/ rx_slot_end
    <2>1. UNCHANGED packetVars /\ todo' = todo
      BY <1>1 DEF slot_stop, slot_skip, slot_missed, slot_begin, rx_slot_end
    <2>2. MacInv' /\ UNCHANGED (Mac!vars) BY <2>1, MacSame
    <2> QED BY <2>2
  <1>2. CASE tx_slot_end
    <2>1. MacInv' /\ UNCHANGED (Mac!vars) BY <1>2, MacSlot
    <2> QED BY <2>1
  <1>3. CASE tsch_queue_flush_nbr_queue BY <1>3, MacFlushes
  <1>4. CASE tsch_tx_process_pending BY <1>4, MacCallback
  <1>5. CASE tsch_queue_add_packet BY <1>5, MacAdds
  <1>6. CASE dequeued_get
    <2>1. MacInv' /\ UNCHANGED (Mac!vars) BY <1>6, MacGets
    <2> QED BY <2>1
  <1>7. CASE \/ Lock \/ add_nbr_known \/ tsch_queue_add_nbr
             \/ tsch_queue_remove_nbr \/ tsch_queue_reset
             \/ tsch_queue_free_unused_neighbors \/ count_links
             \/ tsch_schedule_add_link \/ tsch_schedule_remove_link
             \/ tsch_schedule_remove_all \/ tsch_queue_update_time_source
             \/ tsch_rx_process_pending \/ reset_done \/ associate_done
    <2>1. MacInv' /\ UNCHANGED (Mac!vars) BY <1>7, MacQuiet
    <2> QED BY <2>1
  <1>8. CASE \/ tsch_pending_events \/ tsch_reset
             \/ \E l \in Dynamic : add_link(l) \/ remove_link(l)
             \/ \E a \in Sources : update_time_source(a) \/ tsch_associate(a)
    <2>1. MacInv' /\ UNCHANGED (Mac!vars) BY <1>8, MacBegins
    <2> QED BY <2>1
  <1>9. CASE \E p \in Packet : send_packet(p) BY <1>9, MacSends
  <1>10. CASE UNCHANGED vars
    <2>1. UNCHANGED packetVars /\ todo' = todo BY <1>10 DEF vars
    <2>2. MacInv' /\ UNCHANGED (Mac!vars) BY <2>1, MacSame
    <2> QED BY <2>2
  <1> QED BY <1>1, <1>2, <1>3, <1>4, <1>5, <1>6, <1>7, <1>8, <1>9, <1>10
       DEF Next, Slot, Call

(* To the layer above, the queues, the ring of sent packets and the calls  *)
(* that give packets back are one queue per receiver: packets come back in *)
(* their order, each once, whatever the slots and the processes interleave *)
(* and also when the network is left, as long as tsch_reset() does not     *)
(* begin in a slot that sends.                                             *)
THEOREM TschIsMac == Spec => ImplementsMac
  <1> DEFINE Inv == cut \/ (IInv /\ PacketInv /\ MacInv)
  <1>1. Init => Inv /\ Mac!Init
    <2> SUFFICES ASSUME Init PROVE IInv /\ PacketInv /\ MacInv /\ Mac!Init
      OBVIOUS
    <2>1. IInv /\ PacketInv BY InitInv, PacketsBegin
    <2>2. todo = <<>> /\ Len(todo) = 0 /\ dequeued = <<>> BY DEF Init
    <2>3. ~ Getting(todo) BY <2>2 DEF Getting
    <2>4. Undelivered = <<>> BY <2>1, <2>2, <2>3, TodoTyped, UndeliveredIs
    <2>5. \A a \in Addr : queue[a] = <<>> /\ Len(queue[a]) = 0 BY DEF Init
    <2>6. MacInv BY <2>2, <2>5 DEF MacInv, Addressed, Ready
    <2>7. \A a \in Addr : For(a, Undelivered) \o queue[a] = <<>>
      <3>1. \A a \in Addr : For(a, Undelivered) = <<>> BY <2>4, ForNone
      <3>2. <<>> \o <<>> = <<>> OBVIOUS
      <3> QED BY <2>5, <3>1, <3>2
    <2>8. Waiting = [a \in Addr |-> <<>>] BY <2>7 DEF Waiting
    <2>9. Mac!Init BY <2>8 DEF Mac!Init, Init
    <2> QED BY <2>1, <2>6, <2>9
  <1>2. Inv /\ [Next]_vars => Inv' /\ [cut' \/ Mac!Next]_(Mac!vars)
    <2> SUFFICES ASSUME Inv, [Next]_vars
                 PROVE  Inv' /\ [cut' \/ Mac!Next]_(Mac!vars)
      OBVIOUS
    <2>1. CASE cut' BY <2>1
    <2>2. CASE ~ cut'
      <3>1. ~ cut BY <2>2, CutGrows
      <3>2. IInv' BY <2>2, <3>1, StepInv
      <3>3. PacketInv' BY <3>1, <3>2, PacketsStep
      <3>4. MacInv' /\ [Mac!Next]_(Mac!vars) BY <3>1, <3>2, MacStep
      <3> QED BY <3>2, <3>3, <3>4
    <2> QED BY <2>1, <2>2
  <1> HIDE DEF Inv
  <1> QED BY <1>1, <1>2, PTL DEF Spec, ImplementsMac
==============================================================================
