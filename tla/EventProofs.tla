----------------------------- MODULE EventProofs ------------------------------
(***************************************************************************)
(* Events and timers, from the kernel to a thread that lives on them:      *)
(*                                                                         *)
(* EventQueue, for every size of the queue: its index and count stay in    *)
(* range although they are unsigned chars, and it is a FIFO.               *)
(*                                                                         *)
(* Timers, for any set of timers, any width of the clock and any intervals *)
(* below half of it: the list is sound, timer_expired() tells the truth    *)
(* although the clock wraps, and no expiration goes unnoticed.             *)
(*                                                                         *)
(* RmhbNode, for any number of neighbors, blocks and sleeps: the thread    *)
(* serves every timer, and its table loses and misuses no block.           *)
(***************************************************************************)
EXTENDS EventQueue, Timers, RmhbNode,
        SequenceTheorems, WellFoundedInduction, TLAPS

(* Induction on the natural numbers, as a fact about sets of numbers. *)
LEMMA LessIsWellFounded ==
  \E R : IsWellFoundedOn(R, Nat) /\ \A x, y \in Nat : x < y => <<x, y>> \in R
  <1>1. IsWellFoundedOn(OpToRel(<, Nat), Nat)
    BY NatLessThanWellFounded
  <1>2. \A x, y \in Nat : x < y => <<x, y>> \in OpToRel(<, Nat)
    BY DEF OpToRel
  <1> QED BY <1>1, <1>2, Zenon

LEMMA LeastNumber ==
  ASSUME NEW T, T \subseteq Nat, T # {}
  PROVE  \E x \in T : \A y \in T : x <= y
  <1>1. PICK R : /\ IsWellFoundedOn(R, Nat)
                 /\ \A x, y \in Nat : x < y => <<x, y>> \in R
    BY LessIsWellFounded
  <1>2. \E x \in T : \A y \in T : ~ (<<y, x>> \in R)
    <2>1. IsWellFoundedOn(R, Nat)
      BY <1>1
    <2> QED BY <2>1, WFMin, Zenon
  <1>3. PICK x \in T : \A y \in T : ~ (<<y, x>> \in R)
    BY <1>2
  <1>4. \A y \in T : ~ (y < x)
    BY <1>1, <1>3
  <1> QED BY <1>4

LEMMA Induction ==
  ASSUME NEW S, 0 \in S, \A n \in Nat : n \in S => n + 1 \in S
  PROVE  Nat \subseteq S
  <1>1. SUFFICES ASSUME Nat \ S # {} PROVE FALSE
    OBVIOUS
  <1>2. PICK x \in Nat \ S : \A y \in Nat \ S : x <= y
    BY <1>1, LeastNumber
  <1>3. x # 0 /\ x - 1 \in Nat
    BY <1>2
  <1> QED BY <1>2, <1>3

------------------------------------------------------------------------------
(* The event queue. *)

(* The conversions to unsigned char lose nothing below CharWidth, *)
LEMMA CharSmall == \A x \in 0..(2 * NumEvents - 2) : Char(x) = x
  BY EventQueueAssumption DEF Char

LEMMA CharCount == \A x \in 0..NumEvents : Char(x) = x
  BY EventQueueAssumption DEF Char

(* and the remainder by NumEvents wraps once. *)
LEMMA SlotRange == \A x \in Int : Wrap(x) \in Slot
  BY EventQueueAssumption DEF Slot, Wrap

LEMMA SlotSmall == \A x \in Slot : Wrap(x) = x
  BY EventQueueAssumption DEF Slot, Wrap

LEMMA SlotWrap ==
  \A x \in NumEvents..(2 * NumEvents - 1) : Wrap(x) = x - NumEvents
  BY EventQueueAssumption DEF Slot, Wrap

(* The slot that process_post() fills, and the index after do_event(). *)
LEMMA FreeSlot ==
  ASSUME NEW f \in Slot, NEW n \in 0..(NumEvents - 1)
  PROVE  Wrap(Char(f + n)) = Wrap(f + n)
  BY CharSmall, EventQueueAssumption DEF Slot

LEMMA NextSlot ==
  ASSUME NEW f \in Slot
  PROVE  /\ Char(Wrap(f + 1)) \in Slot
         /\ NumEvents > 1 =>
              Char(Wrap(f + 1)) = IF f = NumEvents - 1 THEN 0 ELSE f + 1
         /\ NumEvents = 1 => Char(Wrap(f + 1)) = f
  <1>0. Wrap(f + 1) \in Slot /\ Char(Wrap(f + 1)) = Wrap(f + 1)
    <2>1. f + 1 \in Int
      BY EventQueueAssumption DEF Slot
    <2>2. Wrap(f + 1) \in Slot
      BY <2>1, SlotRange
    <2> QED BY <2>2, CharCount, EventQueueAssumption DEF Slot
  <1>1. Char(Wrap(f + 1)) \in Slot
    BY <1>0
  <1>2. ASSUME NumEvents > 1
        PROVE  Char(Wrap(f + 1)) = IF f = NumEvents - 1 THEN 0 ELSE f + 1
    <2>2. CASE f = NumEvents - 1
      <3>1. f + 1 \in NumEvents..(2 * NumEvents - 1) /\ f + 1 - NumEvents = 0
        BY <2>2, EventQueueAssumption
      <3>2. Wrap(f + 1) = 0
        BY <3>1, SlotWrap, EventQueueAssumption DEF Slot
      <3> QED BY <1>0, <2>2, <3>2
    <2>3. CASE f # NumEvents - 1
      BY <1>0, <2>3, SlotSmall, EventQueueAssumption DEF Slot
    <2> QED BY <2>2, <2>3
  <1>3. ASSUME NumEvents = 1 PROVE Char(Wrap(f + 1)) = f
    BY <1>1, <1>3, EventQueueAssumption DEF Slot
  <1> QED BY <1>1, <1>2, <1>3

(* Two places that are less than a round apart are different slots. *)
LEMMA Apart ==
  ASSUME NEW a \in Int, NEW b \in Int, 0 <= a, a < b,
         b <= 2 * NumEvents - 2, b - a < NumEvents
  PROVE  Wrap(a) # Wrap(b)
  <1>1. CASE b < NumEvents
    BY <1>1, SlotSmall, EventQueueAssumption DEF Slot
  <1>2. CASE b >= NumEvents /\ a < NumEvents
    BY <1>2, SlotSmall, SlotWrap, EventQueueAssumption DEF Slot
  <1>3. CASE a >= NumEvents
    BY <1>3, SlotWrap, EventQueueAssumption DEF Slot
  <1> QED BY <1>1, <1>2, <1>3, EventQueueAssumption

LEMMA Distinct ==
  ASSUME NEW f \in Slot, NEW n \in 0..(NumEvents - 1), NEW i \in 1..n
  PROVE  Wrap(f + i - 1) # Wrap(f + n)
  <1> DEFINE a == f + i - 1
             b == f + n
  <1>1. /\ a \in Int /\ b \in Int /\ 0 <= a /\ a < b
        /\ b <= 2 * NumEvents - 2 /\ b - a < NumEvents
    BY EventQueueAssumption DEF Slot
  <1> HIDE DEF a, b
  <1>2. Wrap(a) # Wrap(b)
    BY <1>1, Apart
  <1> QED BY <1>2 DEF a, b

LEMMA ShiftOne ==
  ASSUME NEW f \in Slot, NEW i \in 1..(NumEvents - 1)
  PROVE  Wrap(Char(Wrap(f + 1)) + i - 1) = Wrap(f + i)
  <1>1. NumEvents > 1
    BY EventQueueAssumption
  <1>2. CASE f = NumEvents - 1
    <2>1. Char(Wrap(f + 1)) = 0
      BY <1>1, <1>2, NextSlot
    <2>2. f + i \in NumEvents..(2 * NumEvents - 1) /\ i - 1 \in Slot
      BY <1>2, EventQueueAssumption DEF Slot
    <2>3. Wrap(f + i) = i - 1
      BY <1>2, <2>2, SlotWrap, EventQueueAssumption
    <2>4. Wrap(i - 1) = i - 1
      BY <2>2, SlotSmall
    <2>5. 0 + i - 1 = i - 1
      BY EventQueueAssumption
    <2> QED BY <2>1, <2>3, <2>4, <2>5
  <1>3. CASE f # NumEvents - 1
    <2>1. Char(Wrap(f + 1)) = f + 1
      BY <1>1, <1>3, NextSlot
    <2>2. f + 1 + i - 1 = f + i
      BY EventQueueAssumption DEF Slot
    <2> QED BY <2>1, <2>2
  <1> QED BY <1>2, <1>3

------------------------------------------------------------------------------
LEMMA QueueInitTyped == QueueInit => QueueTypeOK
  BY EventQueueAssumption DEF QueueInit, process_init, QueueTypeOK, Slot

LEMMA QueueStep == QueueTypeOK /\ [QueueNext]_queueVars => QueueTypeOK'
  <1> SUFFICES ASSUME QueueTypeOK, [QueueNext]_queueVars PROVE QueueTypeOK'
    OBVIOUS
  <1>1. ASSUME NEW e \in Event, process_post(e) PROVE QueueTypeOK'
    <2>1. CASE nevents = NumEvents
      BY <1>1, <2>1 DEF process_post, QueueTypeOK
    <2>2. CASE nevents # NumEvents
      <3>1. events' \in [Slot -> Event]
        BY <1>1, <2>2 DEF process_post, QueueTypeOK
      <3>2. nevents' \in 0..NumEvents
        <4>1. nevents \in 0..(NumEvents - 1) /\ nevents' = Char(nevents + 1)
          BY <1>1, <2>2, EventQueueAssumption DEF process_post, QueueTypeOK
        <4> QED BY <4>1, CharCount, EventQueueAssumption
      <3>3. post_ret' \in BOOLEAN
        BY <1>1, <2>2, Zenon DEF process_post
      <3> QED BY <1>1, <2>2, <3>1, <3>2, <3>3 DEF process_post, QueueTypeOK
    <2> QED BY <2>1, <2>2
  <1>2. CASE do_event
    <2>1. nevents' \in 0..NumEvents
      BY <1>2, EventQueueAssumption DEF do_event, QueueTypeOK
    <2>2. fevent' \in Slot
      BY <1>2, NextSlot DEF do_event, QueueTypeOK
    <2>3. taken' \in Event
      BY <1>2 DEF do_event, QueueTypeOK
    <2> QED BY <1>2, <2>1, <2>2, <2>3 DEF do_event, QueueTypeOK
  <1>3. CASE UNCHANGED queueVars
    BY <1>3 DEF queueVars, QueueTypeOK
  <1> QED BY <1>1, <1>2, <1>3 DEF QueueNext

(* fevent stays in the array and nevents below its size, although both are *)
(* computed in unsigned chars: nothing outside events[] is ever accessed.  *)
THEOREM QueueTyped == QueueSpec => []QueueTypeOK
  BY QueueInitTyped, QueueStep, PTL DEF QueueSpec

------------------------------------------------------------------------------
(* The events in an array d, n of them from index f on. *)
Window(d, n, f) == [i \in 1..n |-> d[Wrap(f + i - 1)]]

LEMMA WindowSeq ==
  ASSUME NEW d \in [Slot -> Event], NEW n \in 0..NumEvents, NEW f \in Slot
  PROVE  Window(d, n, f) \in Seq(Event) /\ Len(Window(d, n, f)) = n
  <1>1. \A i \in 1..n : d[Wrap(f + i - 1)] \in Event
    <2>1. \A i \in 1..n : f + i - 1 \in Int
      BY DEF Slot
    <2> QED BY <2>1, SlotRange
  <1>2. Window(d, n, f) \in [1..n -> Event]
    BY <1>1 DEF Window
  <1>3. Window(d, n, f) \in Seq(Event)
    BY <1>2, SeqDef
  <1>4. DOMAIN Window(d, n, f) = 1..n
    BY DEF Window
  <1> QED BY <1>3, <1>4, LenProperties

LEMMA WindowPost ==
  ASSUME NEW d \in [Slot -> Event], NEW n \in 0..(NumEvents - 1),
         NEW f \in Slot, NEW e \in Event
  PROVE  Window([d EXCEPT ![Wrap(f + n)] = e], n + 1, f)
           = Append(Window(d, n, f), e)
  <1> DEFINE s == Wrap(f + n)
             d1 == [d EXCEPT ![s] = e]
             w == Window(d, n, f)
             w1 == Window(d1, n + 1, f)
  <1>1. s \in Slot /\ d1 \in [Slot -> Event] /\ n \in Nat
    BY SlotRange, EventQueueAssumption DEF Slot
  <1>2. w \in Seq(Event) /\ Len(w) = n
    BY WindowSeq, EventQueueAssumption
  <1>3. w1 \in Seq(Event) /\ Len(w1) = n + 1
    <2>1. n + 1 \in 0..NumEvents
      BY EventQueueAssumption
    <2> HIDE DEF d1
    <2> QED BY <1>1, <2>1, WindowSeq
  <1>4. /\ Append(w, e) \in Seq(Event)
        /\ Len(Append(w, e)) = n + 1
        /\ \A i \in 1..n : Append(w, e)[i] = w[i]
        /\ Append(w, e)[n + 1] = e
    BY <1>1, <1>2, AppendProperties
  <1>5. ASSUME NEW i \in 1..(n + 1) PROVE w1[i] = Append(w, e)[i]
    <2>1. w1[i] = d1[Wrap(f + i - 1)]
      BY DEF Window
    <2>2. CASE i = n + 1
      <3>1. f + i - 1 = f + n
        BY <2>2 DEF Slot
      <3>2. d1[s] = e
        BY <1>1
      <3> QED BY <2>1, <2>2, <3>1, <3>2, <1>4
    <2>3. CASE i # n + 1
      <3>1. i \in 1..n
        BY <2>3
      <3>2. Wrap(f + i - 1) \in Slot /\ Wrap(f + i - 1) # s
        BY <3>1, Distinct, SlotRange DEF Slot
      <3>3. d1[Wrap(f + i - 1)] = d[Wrap(f + i - 1)]
        BY <3>2, <1>1
      <3>4. w[i] = d[Wrap(f + i - 1)]
        BY <3>1 DEF Window
      <3> QED BY <2>1, <3>1, <3>3, <3>4, <1>4
    <2> QED BY <2>2, <2>3
  <1> HIDE DEF w, w1
  <1>6. w1 = Append(w, e)
    BY <1>3, <1>4, <1>5, SeqEqual
  <1> QED BY <1>6 DEF w, w1

LEMMA WindowTake ==
  ASSUME NEW d \in [Slot -> Event], NEW n \in 1..NumEvents, NEW f \in Slot
  PROVE  /\ Window(d, n, f) # <<>>
         /\ Window(d, n - 1, Char(Wrap(f + 1))) = Tail(Window(d, n, f))
         /\ Head(Window(d, n, f)) = d[f]
  <1> DEFINE g == Char(Wrap(f + 1))
             w == Window(d, n, f)
             w1 == Window(d, n - 1, g)
  <1>1. g \in Slot /\ n \in 0..NumEvents /\ n - 1 \in 0..NumEvents
    BY NextSlot, EventQueueAssumption
  <1>2. w \in Seq(Event) /\ Len(w) = n
    BY <1>1, WindowSeq
  <1>3. w1 \in Seq(Event) /\ Len(w1) = n - 1
    BY <1>1, WindowSeq
  <1>4. w # <<>>
    BY <1>2, EventQueueAssumption
  <1>5. /\ Tail(w) \in Seq(Event)
        /\ Len(Tail(w)) = n - 1
        /\ \A i \in 1..(n - 1) : Tail(w)[i] = w[i + 1]
    BY <1>2, <1>4, HeadTailProperties
  <1>6. ASSUME NEW i \in 1..(n - 1) PROVE w1[i] = Tail(w)[i]
    <2>1. w1[i] = d[Wrap(g + i - 1)]
      BY DEF Window
    <2>2. /\ i \in 1..(NumEvents - 1) /\ i + 1 \in 1..n
          /\ f + (i + 1) - 1 = f + i
      BY EventQueueAssumption DEF Slot
    <2>3. w[i + 1] = d[Wrap(f + i)]
      BY <2>2 DEF Window
    <2> QED BY <2>1, <2>2, <2>3, <1>5, ShiftOne
  <1>7. w[1] = d[f]
    <2>1. f + 1 - 1 = f /\ 1 \in 1..n /\ Wrap(f) = f
      BY SlotSmall, EventQueueAssumption DEF Slot
    <2> QED BY <2>1 DEF Window
  <1> HIDE DEF w, w1, g
  <1>8. w1 = Tail(w)
    BY <1>3, <1>5, <1>6, SeqEqual
  <1>9. Head(w) = w[1]
    BY <1>2, <1>4
  <1> QED BY <1>4, <1>7, <1>8, <1>9 DEF w, w1, g

------------------------------------------------------------------------------
LEMMA WaitingWindow == Waiting = Window(events, nevents, fevent)
  BY DEF Waiting, Window

LEMMA FifoStep == QueueTypeOK /\ [QueueNext]_queueVars => [Fifo!Next]_(Fifo!vars)
  <1> SUFFICES ASSUME QueueTypeOK, [QueueNext]_queueVars PROVE [Fifo!Next]_(Fifo!vars)
    OBVIOUS
  <1>0. /\ Waiting \in Seq(Event) /\ Len(Waiting) = nevents
        /\ events \in [Slot -> Event] /\ nevents \in 0..NumEvents
        /\ fevent \in Slot
    BY WaitingWindow, WindowSeq DEF QueueTypeOK
  <1>1. ASSUME NEW e \in Event, process_post(e) PROVE Fifo!Next
    <2>1. CASE nevents = NumEvents
      <3>1. Waiting' = Waiting
        BY <1>1, <2>1 DEF process_post, Waiting
      <3>2. Fifo!PutFull
        BY <1>0, <1>1, <2>1, <3>1 DEF process_post, Fifo!PutFull
      <3> QED BY <3>2 DEF Fifo!Next
    <2>2. CASE nevents # NumEvents
      <3>1. nevents \in 0..(NumEvents - 1)
        BY <1>0, <2>2, EventQueueAssumption
      <3>2. /\ events' = [events EXCEPT ![Wrap(fevent + nevents)] = e]
            /\ nevents' = nevents + 1 /\ fevent' = fevent
        <4>1. Char(nevents + 1) = nevents + 1
          BY <3>1, CharCount, EventQueueAssumption
        <4>2. snum = Wrap(fevent + nevents)
          BY <1>0, <3>1, FreeSlot DEF snum
        <4> QED BY <1>1, <2>2, <4>1, <4>2 DEF process_post
      <3>3. Waiting' = Window(events', nevents', fevent')
        BY DEF Waiting, Window
      <3>4. Waiting' = Append(Waiting, e)
        BY <1>0, <3>1, <3>2, <3>3, WaitingWindow, WindowPost
      <3>5. Len(Waiting) < NumEvents
        BY <1>0, <3>1, EventQueueAssumption
      <3>6. Fifo!Put(e)
        BY <1>1, <2>2, <3>4, <3>5 DEF process_post, Fifo!Put
      <3> QED BY <3>6 DEF Fifo!Next
    <2> QED BY <2>1, <2>2
  <1>2. ASSUME do_event PROVE Fifo!Next
    <2>1. nevents \in 1..NumEvents
      BY <1>0, <1>2 DEF do_event
    <2>2. Waiting' = Window(events, nevents - 1, Char(Wrap(fevent + 1)))
      BY <1>2 DEF do_event, Waiting, Window
    <2>3. /\ Waiting # <<>> /\ Waiting' = Tail(Waiting)
          /\ events[fevent] = Head(Waiting)
      BY <1>0, <2>1, <2>2, WaitingWindow, WindowTake
    <2>4. Fifo!Get
      BY <1>2, <2>3 DEF do_event, Fifo!Get
    <2> QED BY <2>4 DEF Fifo!Next
  <1>3. CASE UNCHANGED queueVars
    BY <1>3 DEF queueVars, Waiting, Fifo!vars
  <1> QED BY <1>1, <1>2, <1>3 DEF QueueNext

(* The event queue is a FIFO of NumEvents events: none is lost, duplicated *)
(* or overtaken between process_post() and do_event().                     *)
THEOREM EventQueueIsFifo == QueueSpec => ImplementsFifo
  <1>1. QueueInit => Fifo!Init
    <2> SUFFICES ASSUME QueueInit PROVE Fifo!Init
      OBVIOUS
    <2>1. Len(Waiting) = 0 /\ Waiting \in Seq(Event)
      BY QueueInitTyped, WaitingWindow, WindowSeq, EventQueueAssumption
         DEF QueueTypeOK, QueueInit, process_init
    <2>2. Waiting = <<>>
      BY <2>1
    <2> QED BY <2>2 DEF QueueInit, Fifo!Init
  <1> QED
    BY <1>1, QueueInitTyped, QueueStep, FifoStep, PTL
       DEF QueueSpec, ImplementsFifo, Fifo!Spec

------------------------------------------------------------------------------
(* The timers. *)

(* What is kept of the first i timers of a list, for all i up to n. *)
KeptBy(f, list, gone, n) ==
    f = [i \in 0..n |-> IF i = 0 THEN <<>>
                        ELSE IF list[i] \in gone THEN f[i - 1]
                        ELSE Append(f[i - 1], list[i])]

LEMMA KeptExists ==
  ASSUME NEW list, NEW gone, NEW n \in Nat
  PROVE  \E f : KeptBy(f, list, gone, n)
  <1> DEFINE S == {k \in Nat : \E f : KeptBy(f, list, gone, k)}
  <1>1. 0 \in S
    <2>1. KeptBy([i \in 0..0 |-> <<>>], list, gone, 0)
      BY DEF KeptBy
    <2> QED BY <2>1
  <1>2. ASSUME NEW k \in Nat, k \in S PROVE k + 1 \in S
    <2>1. PICK f : KeptBy(f, list, gone, k)
      BY <1>2
    <2> DEFINE next == IF list[k + 1] \in gone THEN f[k]
                       ELSE Append(f[k], list[k + 1])
               g == [i \in 0..(k + 1) |-> IF i = k + 1 THEN next ELSE f[i]]
    <2>2. \A i \in 0..k : g[i] = f[i]
      OBVIOUS
    <2>3. g[k + 1] = next
      OBVIOUS
    <2>4. \A i \in 0..k : f[i] = IF i = 0 THEN <<>>
                                 ELSE IF list[i] \in gone THEN f[i - 1]
                                 ELSE Append(f[i - 1], list[i])
      BY <2>1 DEF KeptBy
    <2> DEFINE h == [i \in 0..(k + 1) |-> IF i = 0 THEN <<>>
                        ELSE IF list[i] \in gone THEN g[i - 1]
                        ELSE Append(g[i - 1], list[i])]
    <2>5. \A i \in 0..(k + 1) : g[i] = h[i]
      <3> SUFFICES ASSUME NEW i \in 0..(k + 1) PROVE g[i] = h[i]
        OBVIOUS
      <3>1. CASE i = k + 1
        <4>1. g[k] = f[k] /\ i # 0 /\ i - 1 = k
          BY <3>1, <2>2
        <4> QED BY <3>1, <4>1, <2>3
      <3>2. CASE i # k + 1
        <4>1. i \in 0..k /\ (i # 0 => i - 1 \in 0..k)
          BY <3>2
        <4>2. i # 0 => g[i - 1] = f[i - 1]
          BY <4>1, <2>2
        <4> QED BY <4>1, <4>2, <2>2, <2>4
      <3> QED BY <3>1, <3>2
    <2>6. DOMAIN g = 0..(k + 1) /\ DOMAIN h = 0..(k + 1)
      OBVIOUS
    <2>7. g = h
      BY <2>5, <2>6, Zenon
    <2>8. KeptBy(g, list, gone, k + 1)
      BY <2>7 DEF KeptBy
    <2> QED BY <2>8
  <1>3. Nat \subseteq S
    <2> HIDE DEF S
    <2> QED BY <1>1, <1>2, Induction
  <1> QED BY <1>3
(* No timer is on the list twice. *)
Single(list) == \A i, j \in DOMAIN list : list[i] = list[j] => i = j

LEMMA Appended ==
  ASSUME NEW T, NEW s \in Seq(T), NEW t \in T, Single(s), t \notin Range(s)
  PROVE  /\ Append(s, t) \in Seq(T) /\ Single(Append(s, t))
         /\ Range(Append(s, t)) = Range(s) \cup {t}
  <1> DEFINE a == Append(s, t)
  <1>1. /\ a \in Seq(T) /\ Len(a) = Len(s) + 1 /\ DOMAIN a = 1..(Len(s) + 1)
        /\ DOMAIN s = 1..Len(s) /\ Len(s) \in Nat
        /\ \A i \in 1..Len(s) : a[i] = s[i]
        /\ a[Len(s) + 1] = t
    OBVIOUS
  <1> HIDE DEF a
  <1>2. Range(a) = Range(s) \cup {t}
    BY <1>1 DEF Range
  <1>3. Single(a)
    <2>1. \A i \in 1..Len(s) : s[i] # t
      BY <1>1 DEF Range
    <2> SUFFICES ASSUME NEW i \in DOMAIN a, NEW j \in DOMAIN a, a[i] = a[j]
                 PROVE  i = j
      BY DEF Single
    <2>2. CASE i \in 1..Len(s) /\ j \in 1..Len(s)
      BY <1>1, <2>2 DEF Single
    <2>3. CASE i = Len(s) + 1 \/ j = Len(s) + 1
      BY <1>1, <2>1, <2>3
    <2> QED BY <1>1, <2>2, <2>3
  <1> QED BY <1>1, <1>2, <1>3 DEF a

LEMMA WithoutSound ==
  ASSUME NEW T, NEW list \in Seq(T), Single(list), NEW gone
  PROVE  /\ Without(list, gone) \in Seq(T) /\ Single(Without(list, gone))
         /\ Range(Without(list, gone)) = Range(list) \ gone
  <1> DEFINE n == Len(list)
             f == CHOOSE g : KeptBy(g, list, gone, n)
             First(i) == {list[j] : j \in 1..i}
             Good(i) == /\ f[i] \in Seq(T) /\ Single(f[i])
                        /\ Range(f[i]) = First(i) \ gone
  <1>1. n \in Nat /\ DOMAIN list = 1..n /\ \A i \in 1..n : list[i] \in T
    OBVIOUS
  <1>2. Without(list, gone) = f[n]
    BY DEF Without, KeptBy
  <1>3. KeptBy(f, list, gone, n)
    BY <1>1, KeptExists
  <1>4. \A i \in 0..n : f[i] = IF i = 0 THEN <<>>
                                ELSE IF list[i] \in gone THEN f[i - 1]
                                ELSE Append(f[i - 1], list[i])
    <2> HIDE DEF f
    <2> QED BY <1>3 DEF KeptBy
  <1> HIDE DEF f
  <1>5. Good(0)
    <2>1. f[0] = <<>>
      BY <1>1, <1>4
    <2> QED BY <2>1 DEF Single, Range
  <1>6. ASSUME NEW k \in Nat, k < n, Good(k) PROVE Good(k + 1)
    <2>1. f[k + 1] = IF list[k + 1] \in gone THEN f[k]
                     ELSE Append(f[k], list[k + 1])
      <3>1. k + 1 \in 0..n /\ k + 1 # 0 /\ (k + 1) - 1 = k
        BY <1>1, <1>6
      <3> QED BY <3>1, <1>4
    <2>2. First(k + 1) = First(k) \cup {list[k + 1]}
      <3>1. 1..(k + 1) = (1..k) \cup {k + 1}
        OBVIOUS
      <3> QED BY <3>1
    <2>3. list[k + 1] \in T
      BY <1>1, <1>6
    <2>4. list[k + 1] \notin First(k)
      BY <1>1, <1>6 DEF Single
    <2> HIDE DEF First
    <2>5. CASE list[k + 1] \in gone
      BY <1>6, <2>1, <2>2, <2>5
    <2>6. CASE list[k + 1] \notin gone
      <3>1. list[k + 1] \notin Range(f[k])
        BY <1>6, <2>4
      <3>2. f[k + 1] = Append(f[k], list[k + 1])
        BY <2>1, <2>6
      <3>3. /\ f[k + 1] \in Seq(T) /\ Single(f[k + 1])
            /\ Range(f[k + 1]) = Range(f[k]) \cup {list[k + 1]}
        BY <1>6, <2>3, <3>1, <3>2, Appended
      <3>4. (First(k) \cup {list[k + 1]}) \ gone
              = (First(k) \ gone) \cup {list[k + 1]}
        BY <2>6
      <3> QED BY <1>6, <2>2, <3>3, <3>4
    <2> QED BY <2>5, <2>6
  <1>7. Good(n)
    <2> HIDE DEF Good
    <2> DEFINE S == {i \in Nat : i <= n => Good(i)}
    <2>1. 0 \in S
      BY <1>5
    <2>2. \A k \in Nat : k \in S => k + 1 \in S
      BY <1>1, <1>6
    <2>3. Nat \subseteq S
      <3> HIDE DEF S
      <3> QED BY <2>1, <2>2, Induction
    <2> QED BY <1>1, <2>3
  <1>8. First(n) = Range(list)
    BY <1>1 DEF Range
  <1> QED BY <1>2, <1>7, <1>8
------------------------------------------------------------------------------
(* Clock values.  All sums that the code forms are a few widths from 0. *)
LEMMA Widths ==
  /\ Width \in Nat /\ Half \in Nat /\ Half >= 2 /\ Width = 2 * Half
  /\ MaxLag \in Nat /\ MaxLag >= 1 /\ MaxLag < Half /\ Overdue = -MaxLag
  /\ \A n \in Intervals \cup {0} : n \in Nat /\ n < Half /\ n <= MaxLag + 1
  BY TimersAssumption DEF Overdue, Half

LEMMA Wraps ==
  \A x \in Int :
    /\ Clock(x) \in 0..(Width - 1)
    /\ 0 <= x /\ x < Width => Clock(x) = x
    /\ Width <= x /\ x < 2 * Width => Clock(x) = x - Width
    /\ -Width <= x /\ x < 0 => Clock(x) = x + Width
    /\ -2 * Width <= x /\ x < -Width => Clock(x) = x + 2 * Width
  <1> SUFFICES ASSUME NEW x \in Int
               PROVE  /\ Clock(x) \in 0..(Width - 1)
                      /\ 0 <= x /\ x < Width => Clock(x) = x
                      /\ Width <= x /\ x < 2 * Width => Clock(x) = x - Width
                      /\ -Width <= x /\ x < 0 => Clock(x) = x + Width
                      /\ -2 * Width <= x /\ x < -Width => Clock(x) = x + 2 * Width
    OBVIOUS
  <1>1. Width \in Nat /\ Width > 0
    BY Widths
  <1> QED BY <1>1 DEF Clock

(* Equal up to the wrap, for sums of clock values and intervals. *)
Same(x) == x \in {-Width, 0, Width}

(* The timer with start a and interval n is due in l ticks from now. *)
Due(a, n, l, now) == Same(a + n - now - l) /\ l \in Overdue..n

LEMMA ExpiredWhenDue ==
  ASSUME NEW now \in 0..(Width - 1), NEW a \in 0..(Width - 1),
         NEW n \in Intervals \cup {0}, NEW l, Due(a, n, l, now)
  PROVE  n < Clock(now - a + 1) <=> l <= 0
  <1>1. /\ Width \in Nat /\ Half \in Nat /\ Width = 2 * Half
        /\ MaxLag \in Nat /\ MaxLag < Half /\ Overdue = -MaxLag
        /\ n \in Nat /\ n < Half
    BY Widths
  <1>2. now - a + 1 \in Int
    BY <1>1
  <1>3. l \in Int /\ -MaxLag <= l /\ l <= n
    BY <1>1 DEF Due
  <1>4. \/ now - a + 1 = n - l + 1
        \/ now - a + 1 = n - l + 1 - Width
        \/ now - a + 1 = n - l + 1 + Width
    BY <1>1, <1>3 DEF Due, Same
  <1>5. 1 <= n - l + 1 /\ n - l + 1 < Width
    BY <1>1, <1>3
  <1>6. Clock(now - a + 1) = n - l + 1
    <2>1. CASE now - a + 1 = n - l + 1
      BY <1>1, <1>2, <1>3, <1>5, <2>1, Wraps
    <2>2. CASE now - a + 1 = n - l + 1 - Width
      BY <1>1, <1>2, <1>3, <1>5, <2>2, Wraps
    <2>3. CASE now - a + 1 = n - l + 1 + Width
      BY <1>1, <1>2, <1>3, <1>5, <2>3, Wraps
    <2> QED BY <1>4, <2>1, <2>2, <2>3
  <1> QED BY <1>1, <1>3, <1>6

(* The distance that update_time() computes. *)
LEMMA DistanceWhenDue ==
  ASSUME NEW now \in 0..(Width - 1), NEW a \in 0..(Width - 1),
         NEW n \in Intervals \cup {0}, NEW l, Due(a, n, l, now)
  PROVE  /\ Clock(a + n - now) \in 0..(Width - 1)
         /\ l >= 0 => Clock(a + n - now) = l
  <1>1. /\ Width \in Nat /\ Half \in Nat /\ Width = 2 * Half
        /\ MaxLag \in Nat /\ MaxLag < Half /\ Overdue = -MaxLag
        /\ n \in Nat /\ n < Half
    BY Widths
  <1>2. l \in Int /\ l <= n /\ a + n - now \in Int
    BY <1>1 DEF Due
  <1>3. a + n - now \in {l, l + Width, l - Width}
    BY <1>1, <1>2 DEF Due, Same
  <1> QED BY <1>1, <1>2, <1>3, Wraps

(* next is at or before the time in l ticks, by less than half the clock. *)
Before(next, l, now) == \E e \in 0..(Half - 1) : Same(l + now - next - e)

LEMMA NextTime ==
  ASSUME clock \in 0..(Width - 1), NEW list \in Seq(Timer),
         NEW s \in [Timer -> 0..(Width - 1)],
         NEW n \in [Timer -> Intervals \cup {0}], NEW l,
         \A t \in Range(list) : Due(s[t], n[t], l[t], clock)
  PROVE  /\ update_time(list, s, n) \in 0..(Width - 1)
         /\ \A t \in Range(list) :
              /\ l[t] > 0 => Before(update_time(list, s, n), l[t], clock)
              /\ l[t] = 0 => update_time(list, s, n) = clock
  <1>1. Width \in Nat /\ Half \in Nat /\ Half >= 2 /\ Width = 2 * Half
    BY Widths
  <1>2. CASE list = <<>>
    BY <1>1, <1>2 DEF update_time, Range
  <1>3. CASE list # <<>>
    <2> DEFINE D == {Clock(s[t] + n[t] - clock) : t \in Range(list)}
               tdist == CHOOSE x \in D : \A y \in D : x <= y
    <2>1. \A t \in Range(list) : t \in Timer
      BY DEF Range
    <2>2. \A t \in Range(list) :
            /\ Clock(s[t] + n[t] - clock) \in 0..(Width - 1)
            /\ l[t] >= 0 => Clock(s[t] + n[t] - clock) = l[t]
      <3> SUFFICES ASSUME NEW t \in Range(list)
                   PROVE  /\ Clock(s[t] + n[t] - clock) \in 0..(Width - 1)
                          /\ l[t] >= 0 => Clock(s[t] + n[t] - clock) = l[t]
        OBVIOUS
      <3>1. s[t] \in 0..(Width - 1) /\ n[t] \in Intervals \cup {0}
        BY <2>1
      <3> QED BY <3>1, DistanceWhenDue
    <2>3. D \subseteq 0..(Width - 1) /\ D \subseteq Nat
      BY <1>1, <2>2
    <2>4. D # {}
      <3>1. list[1] \in Range(list)
        BY <1>3 DEF Range
      <3> QED BY <3>1
    <2>5. \E x \in D : \A y \in D : x <= y
      <3> HIDE DEF D
      <3> QED BY <2>3, <2>4, LeastNumber
    <2>6. tdist \in D /\ \A y \in D : tdist <= y
      <3> HIDE DEF D
      <3> QED BY <2>5
    <2>7. update_time(list, s, n) = Clock(clock + tdist)
      BY <1>3 DEF update_time
    <2>8. \A t \in Range(list) : l[t] >= 0 => tdist <= l[t]
      BY <2>2, <2>6
    <2> HIDE DEF D, tdist
    <2>9. tdist \in 0..(Width - 1)
      BY <2>3, <2>6
    <2>10. PICK x : x = Clock(clock + tdist)
      OBVIOUS
    <2>11. /\ x \in 0..(Width - 1)
           /\ x = clock + tdist \/ x = clock + tdist - Width
      BY <1>1, <2>9, <2>10, Wraps
    <2>12. ASSUME NEW t \in Range(list), l[t] > 0 PROVE Before(x, l[t], clock)
      <3>1. PICK k : k = l[t]
        OBVIOUS
      <3>2. k \in Int /\ k > 0 /\ k < Half /\ tdist <= k
        <4>1. Due(s[t], n[t], k, clock) /\ n[t] \in Intervals \cup {0}
          BY <2>1, <3>1
        <4>2. k \in Overdue..n[t] /\ n[t] \in Nat /\ n[t] < Half
          BY <4>1, Widths DEF Due
        <4>3. k \in Int /\ k < Half
          BY <4>2, Widths
        <4> QED BY <2>8, <2>12, <3>1, <4>3
      <3>3. k - tdist \in 0..(Half - 1)
        BY <1>1, <2>9, <3>2
      <3>4. Same(k + clock - x - (k - tdist))
        BY <1>1, <2>9, <2>11, <3>2 DEF Same
      <3>5. Before(x, k, clock)
        BY <3>3, <3>4 DEF Before
      <3> QED BY <3>1, <3>5
    <2>13. ASSUME NEW t \in Range(list), l[t] = 0 PROVE x = clock
      <3>1. tdist = 0
        BY <2>8, <2>9, <2>13
      <3> QED BY <1>1, <2>10, <3>1, Wraps
    <2> QED BY <2>7, <2>10, <2>11, <2>12, <2>13
  <1> QED BY <1>2, <1>3
------------------------------------------------------------------------------
(* The inductive invariant.  What left says of a timer is what its start   *)
(* and interval say, up to the wrap, as long as the timer is listed or not *)
(* too long overdue; *)
TimesTrue ==
    \A t \in Timer : Listed(t) \/ left[t] > Overdue =>
                       Due(start[t], interval[t], left[t], clock)

(* the next expiration time is never later than that of a listed timer,    *)
(* also when etimer_process has dropped timers without computing it anew;  *)
NextSound ==
    \A t \in Timer : Listed(t) /\ left[t] > 0 =>
                       Before(next_expiration, left[t], clock)

(* a timer that is due has been noticed, or the next clock tick will: only *)
(* etimer_adjust() makes a timer due without a poll.                       *)
Seen(i) == needspoll \/ (scan > 0 /\ scan <= i)
Noticed ==
    \A i \in DOMAIN timerlist :
      left[timerlist[i]] <= 0 =>
        Seen(i) \/ (left[timerlist[i]] = 0 /\ next_expiration = clock)

Owners == \A c \in Ctimer : p[c] \in {NULL, ctimer_process}

TimersInv == ListSound /\ Owners /\ TimesTrue /\ NextSound /\ Noticed

(* etimer_adjust() only makes a timer expire earlier.  One that is made to *)
(* expire later may start in the future, and timer_expired() takes it for  *)
(* expired.                                                                *)
AdjustEarlier == \A d \in Adjustments : d <= 0

LEMMA ListSingle == ListSound => Single(timerlist)
  BY DEF ListSound, Single

LEMMA ListedIndex ==
  ASSUME NEW t, Listed(t)
  PROVE  \E i \in DOMAIN timerlist : timerlist[i] = t
  BY DEF Listed, Range

LEMMA ListedAt ==
  ASSUME TypeOK, NEW i \in DOMAIN timerlist
  PROVE  timerlist[i] \in Timer /\ Listed(timerlist[i])
  BY DEF TypeOK, Listed, Range

LEMMA InvExpired == TimersInv => ExpiredIsTrue
  <1> SUFFICES ASSUME TimersInv, NEW t \in Timer, Listed(t)
               PROVE  timer_expired(t) <=> left[t] <= 0
    BY DEF ExpiredIsTrue
  <1>1. Due(start[t], interval[t], left[t], clock)
    BY DEF TimersInv, TimesTrue
  <1>2. /\ clock \in 0..(Width - 1) /\ start[t] \in 0..(Width - 1)
        /\ interval[t] \in Intervals \cup {0}
    BY DEF TimersInv, ListSound, TypeOK
  <1> QED BY <1>1, <1>2, ExpiredWhenDue DEF timer_expired

LEMMA InvNoticed == TimersInv => ExpiryNoticed
  <1> SUFFICES ASSUME TimersInv, NEW i \in DOMAIN timerlist,
                      left[timerlist[i]] < 0
               PROVE  needspoll \/ (scan > 0 /\ scan <= i)
    BY DEF ExpiryNoticed
  <1>1. left[timerlist[i]] \in Int
    <2>1. timerlist[i] \in Timer
      BY ListedAt DEF TimersInv, ListSound
    <2>2. left[timerlist[i]] \in Overdue..Half
      BY <2>1 DEF TimersInv, ListSound, TypeOK
    <2> QED BY <2>2, Widths
  <1> QED BY <1>1 DEF TimersInv, Noticed, Seen

------------------------------------------------------------------------------
(* add_timer() after the timer was set. *)
LEMMA Listing ==
  ASSUME ListSound, NEW t \in Timer, NEW u, NEW s, NEW n, add_timer(t, u, s, n)
  PROVE  /\ timerlist' \in Seq(Timer) /\ Single(timerlist')
         /\ Range(timerlist') = Range(timerlist) \cup {t}
  <1>1. timerlist \in Seq(Timer) /\ Single(timerlist)
    BY ListSingle DEF ListSound, TypeOK
  <1>2. CASE Listed(t)
    BY <1>1, <1>2 DEF add_timer, ListSound, Listed
  <1>3. CASE ~ Listed(t)
    <2> DEFINE a == <<t>> \o timerlist
    <2>1. timerlist' = a
      BY <1>3 DEF add_timer
    <2>2. /\ a \in Seq(Timer) /\ DOMAIN a = 1..(Len(timerlist) + 1)
          /\ Len(timerlist) \in Nat /\ DOMAIN timerlist = 1..Len(timerlist)
          /\ a[1] = t
          /\ \A i \in 1..Len(timerlist) : a[i + 1] = timerlist[i]
      BY <1>1
    <2> HIDE DEF a
    <2>3. \A i \in 2..(Len(timerlist) + 1) :
            a[i] = timerlist[i - 1] /\ i - 1 \in 1..Len(timerlist)
      <3> SUFFICES ASSUME NEW i \in 2..(Len(timerlist) + 1)
                   PROVE  a[i] = timerlist[i - 1] /\ i - 1 \in 1..Len(timerlist)
        OBVIOUS
      <3>1. i - 1 \in 1..Len(timerlist) /\ (i - 1) + 1 = i
        BY <2>2
      <3> QED BY <2>2, <3>1
    <2>4. Range(a) = Range(timerlist) \cup {t}
      <3>1. 1 \in DOMAIN a /\ \A i \in 1..Len(timerlist) : i + 1 \in DOMAIN a
        BY <2>2
      <3>2. Range(timerlist) \cup {t} \subseteq Range(a)
        BY <2>2, <3>1 DEF Range
      <3>3. \A i \in DOMAIN a : i = 1 \/ i \in 2..(Len(timerlist) + 1)
        BY <2>2
      <3>4. Range(a) \subseteq Range(timerlist) \cup {t}
        <4> SUFFICES ASSUME NEW x \in Range(a)
                     PROVE  x \in Range(timerlist) \cup {t}
          OBVIOUS
        <4>1. PICK i \in DOMAIN a : x = a[i]
          BY DEF Range
        <4>2. CASE i = 1
          BY <2>2, <4>1, <4>2
        <4>3. CASE i \in 2..(Len(timerlist) + 1)
          <5>1. x = timerlist[i - 1] /\ i - 1 \in DOMAIN timerlist
            BY <2>2, <2>3, <4>1, <4>3
          <5> QED BY <5>1 DEF Range
        <4> QED BY <3>3, <4>2, <4>3
      <3> QED BY <3>2, <3>4
    <2>5. Single(a)
      <3>1. \A i \in 1..Len(timerlist) : timerlist[i] # t
        BY <1>3, <2>2 DEF Listed, Range
      <3> SUFFICES ASSUME NEW i \in DOMAIN a, NEW j \in DOMAIN a, a[i] = a[j]
                   PROVE  i = j
        BY DEF Single
      <3>2. CASE i = 1 \/ j = 1
        BY <2>2, <2>3, <3>1, <3>2
      <3>3. CASE i # 1 /\ j # 1
        <4>1. /\ i \in 2..(Len(timerlist) + 1) /\ j \in 2..(Len(timerlist) + 1)
          BY <2>2, <3>3
        <4>2. i - 1 = j - 1
          BY <1>1, <2>2, <2>3, <4>1 DEF Single
        <4> QED BY <4>1, <4>2
      <3> QED BY <3>2, <3>3
    <2> QED BY <2>1, <2>2, <2>4, <2>5
  <1> QED BY <1>2, <1>3

LEMMA AddStep ==
  ASSUME TimersInv, Running, NEW t \in Timer,
         NEW u \in User \cup {ctimer_process}, t \in Ctimer => u = ctimer_process,
         start' \in [Timer -> 0..(Width - 1)],
         interval' \in [Timer -> Intervals \cup {0}],
         left' \in [Timer -> Overdue..Half],
         \A k \in Timer \ {t} : /\ start'[k] = start[k]
                                /\ interval'[k] = interval[k]
                                /\ left'[k] = left[k],
         Due(start'[t], interval'[t], left'[t], clock),
         add_timer(t, u, start', interval'),
         UNCHANGED <<clock, scan, queue, posts>>,
         \/ ctimer_list' = ctimer_list
         \/ t \in Ctimer /\ ctimer_list' = ctimer_list \cup {t}
  PROVE  TimersInv'
  <1>1. TypeOK /\ ListSound /\ scan = 0
    BY DEF TimersInv, ListSound, Running
  <1>2. /\ timerlist' \in Seq(Timer) /\ Single(timerlist')
        /\ Range(timerlist') = Range(timerlist) \cup {t}
    BY <1>1, Listing
  <1>3. \A k \in Timer : Listed(k)' <=> k = t \/ Listed(k)
    BY <1>2 DEF Listed
  <1>4. \A k \in Timer : Listed(k)' \/ left'[k] > Overdue =>
                            Due(start'[k], interval'[k], left'[k], clock)
    BY <1>3 DEF TimersInv, TimesTrue
  <1>5. TimesTrue'
    BY <1>4 DEF TimesTrue
  <1>6. /\ next_expiration' \in 0..(Width - 1)
        /\ \A k \in Range(timerlist') :
             left'[k] > 0 => Before(next_expiration', left'[k], clock)
    <2>1. \A k \in Range(timerlist') : Due(start'[k], interval'[k], left'[k], clock)
      <3>1. \A k \in Range(timerlist') : k \in Timer /\ Listed(k)'
        BY <1>2 DEF Listed, Range
      <3> QED BY <3>1, <1>4
    <2>2. /\ clock \in 0..(Width - 1)
          /\ next_expiration' = update_time(timerlist', start', interval')
      BY <1>1 DEF TypeOK, add_timer
    <2> QED BY <1>2, <2>1, <2>2, NextTime
  <1>7. NextSound'
    BY <1>6 DEF NextSound, Listed
  <1>8. needspoll' = TRUE
    BY DEF add_timer
  <1>9. Noticed'
    BY <1>8 DEF Noticed, Seen
  <1>10. p' = [p EXCEPT ![t] = u] /\ p \in [Timer -> User \cup {NULL, ctimer_process}]
    BY <1>1 DEF add_timer, TypeOK
  <1>11. Owners'
    BY <1>10 DEF TimersInv, Owners, Timer
  <1>12. TypeOK'
    <2>1. p' \in [Timer -> User \cup {NULL, ctimer_process}]
      BY <1>10
    <2>2. scan' \in 0..(Len(timerlist') + 1)
      BY <1>1, <1>2
    <2>3. ctimer_list' \subseteq Ctimer
      BY <1>1 DEF TypeOK
    <2> QED BY <1>1, <1>2, <1>6, <1>8, <2>1, <2>2, <2>3 DEF TypeOK
  <1>13. \A k \in Timer : Listed(k)' => p'[k] # NULL
    <2>1. u # NULL
      BY TimersAssumption
    <2> QED BY <1>1, <1>3, <1>10, <2>1 DEF ListSound
  <1>14. \A c \in ctimer_list' :
           Listed(c)' \/ [p |-> ctimer_process, t |-> c] \in Range(queue')
    <2>1. \A c \in ctimer_list' : c \in Timer
      BY <1>1 DEF TypeOK, Timer
    <2> QED BY <1>1, <1>3, <2>1 DEF ListSound
  <1>15. ListSound'
    BY <1>2, <1>12, <1>13, <1>14 DEF ListSound, Single
  <1> QED BY <1>5, <1>7, <1>9, <1>11, <1>15 DEF TimersInv
------------------------------------------------------------------------------
(* What the calls of the processes do to the timer that they add. *)
LEMMA TimerTypes ==
  ASSUME TimersInv, NEW t \in Timer
  PROVE  /\ clock \in 0..(Width - 1) /\ start[t] \in 0..(Width - 1)
         /\ interval[t] \in Intervals \cup {0} /\ left[t] \in Overdue..Half
         /\ start \in [Timer -> 0..(Width - 1)]
         /\ interval \in [Timer -> Intervals \cup {0}]
         /\ left \in [Timer -> Overdue..Half]
  BY DEF TimersInv, ListSound, TypeOK

LEMMA DueNow ==
  ASSUME NEW now \in 0..(Width - 1), NEW n \in Intervals \cup {0}
  PROVE  Due(now, n, n, now) /\ n \in Overdue..Half
  <1>1. n \in Nat /\ Width \in Nat /\ MaxLag \in Nat /\ Overdue = -MaxLag
        /\ n < Half /\ Half \in Nat
    BY Widths
  <1> QED BY <1>1 DEF Due, Same

(* timer_set(), timer_reset() and timer_restart(), of the timers that they *)
(* are called for and of the others.                                       *)
SetFor(t) ==
    /\ start' \in [Timer -> 0..(Width - 1)]
    /\ interval' \in [Timer -> Intervals \cup {0}]
    /\ left' \in [Timer -> Overdue..Half]
    /\ \A k \in Timer \ {t} : /\ start'[k] = start[k]
                              /\ interval'[k] = interval[k]
                              /\ left'[k] = left[k]
    /\ Due(start'[t], interval'[t], left'[t], clock)

LEMMA SetDue ==
  ASSUME TimersInv, NEW t \in Timer, NEW n \in Intervals, timer_set(t, n)
  PROVE  SetFor(t)
  <1>1. /\ clock \in 0..(Width - 1)
        /\ start \in [Timer -> 0..(Width - 1)]
        /\ interval \in [Timer -> Intervals \cup {0}]
        /\ left \in [Timer -> Overdue..Half]
    BY TimerTypes
  <1>2. Due(clock, n, n, clock) /\ n \in Overdue..Half
    BY <1>1, DueNow
  <1>3. /\ start'[t] = clock /\ interval'[t] = n /\ left'[t] = n
    BY <1>1 DEF timer_set
  <1>4. /\ start' \in [Timer -> 0..(Width - 1)]
        /\ interval' \in [Timer -> Intervals \cup {0}]
        /\ left' \in [Timer -> Overdue..Half]
    BY <1>1, <1>2 DEF timer_set
  <1>5. \A k \in Timer \ {t} : /\ start'[k] = start[k]
                               /\ interval'[k] = interval[k]
                               /\ left'[k] = left[k]
    BY <1>1 DEF timer_set
  <1> QED BY <1>2, <1>3, <1>4, <1>5 DEF SetFor

LEMMA RestartDue ==
  ASSUME TimersInv, NEW t \in Timer, timer_restart(t)
  PROVE  SetFor(t)
  <1>1. /\ clock \in 0..(Width - 1) /\ interval[t] \in Intervals \cup {0}
        /\ start \in [Timer -> 0..(Width - 1)]
        /\ interval \in [Timer -> Intervals \cup {0}]
        /\ left \in [Timer -> Overdue..Half]
    BY TimerTypes
  <1>2. Due(clock, interval[t], interval[t], clock) /\ interval[t] \in Overdue..Half
    BY <1>1, DueNow
  <1>3. start'[t] = clock /\ interval' = interval /\ left'[t] = interval[t]
    BY <1>1 DEF timer_restart
  <1>4. /\ start' \in [Timer -> 0..(Width - 1)]
        /\ left' \in [Timer -> Overdue..Half]
    BY <1>1, <1>2 DEF timer_restart
  <1>5. \A k \in Timer \ {t} : start'[k] = start[k] /\ left'[k] = left[k]
    BY <1>1 DEF timer_restart
  <1> QED BY <1>1, <1>2, <1>3, <1>4, <1>5 DEF SetFor

(* A reset counts from the time the timer was due, not from now. *)
LEMMA ResetArithmetic ==
  ASSUME NEW now \in 0..(Width - 1), NEW a \in 0..(Width - 1),
         NEW m \in Intervals \cup {0}, NEW l, Due(a, m, l, now), l > Overdue,
         NEW n \in Intervals \cup {0}
  PROVE  /\ l <= 0 => /\ Clock(a + m) \in 0..(Width - 1)
                      /\ Due(Clock(a + m), n, l + n, now)
                      /\ l + n \in Overdue..Half
         /\ l > 0 => /\ Due(a, n, l - m + n, now)
                     /\ l - m + n \in Overdue..Half
  <1>1. /\ Width \in Nat /\ Half \in Nat /\ Width = 2 * Half
        /\ MaxLag \in Nat /\ MaxLag < Half /\ Overdue = -MaxLag
        /\ n \in Nat /\ n < Half /\ m \in Nat /\ m < Half /\ m <= MaxLag + 1
    BY Widths
  <1>2. l \in Int /\ -MaxLag < l /\ l <= m
    BY <1>1 DEF Due
  <1>3. a + m - now - l \in {-Width, 0, Width}
    BY DEF Due, Same
  <1>4. ASSUME l > 0 PROVE Due(a, n, l - m + n, now) /\ l - m + n \in Overdue..Half
    <2>1. l - m + n \in Int /\ -MaxLag <= l - m + n /\ l - m + n <= n
      BY <1>1, <1>2, <1>4
    <2>2. a + n - now - (l - m + n) = a + m - now - l
      BY <1>1, <1>2
    <2> QED BY <1>1, <1>3, <2>1, <2>2 DEF Due, Same
  <1>5. ASSUME l <= 0 PROVE /\ Clock(a + m) \in 0..(Width - 1)
                            /\ Due(Clock(a + m), n, l + n, now)
                            /\ l + n \in Overdue..Half
    <2>1. PICK x : x = Clock(a + m)
      OBVIOUS
    <2>2. x \in 0..(Width - 1) /\ (x = a + m \/ x = a + m - Width)
      BY <1>1, <2>1, Wraps
    <2>3. x + n - now - (l + n) \in {-Width, 0, Width}
      BY <1>1, <1>2, <1>3, <1>5, <2>2
    <2>4. l + n \in Int /\ -MaxLag <= l + n /\ l + n <= n
      BY <1>1, <1>2, <1>5
    <2> QED BY <1>1, <2>1, <2>2, <2>3, <2>4 DEF Due, Same
  <1> QED BY <1>4, <1>5

LEMMA ResetDue ==
  ASSUME TimersInv, NEW t \in Timer, NEW n \in Intervals \cup {0}, timer_reset(t, n)
  PROVE  SetFor(t)
  <1>1. /\ clock \in 0..(Width - 1) /\ start[t] \in 0..(Width - 1)
        /\ interval[t] \in Intervals \cup {0} /\ left[t] \in Overdue..Half
        /\ start \in [Timer -> 0..(Width - 1)]
        /\ interval \in [Timer -> Intervals \cup {0}]
        /\ left \in [Timer -> Overdue..Half]
    BY TimerTypes
  <1>2. left[t] > Overdue /\ Due(start[t], interval[t], left[t], clock)
    BY DEF timer_reset, TimersInv, TimesTrue
  <1>3. timer_expired(t) <=> left[t] <= 0
    BY <1>1, <1>2, ExpiredWhenDue DEF timer_expired
  <1>4. left[t] \in Int
    BY <1>1, Widths
  <1>5. interval' = [interval EXCEPT ![t] = n]
    BY DEF timer_reset
  <1>6. CASE left[t] <= 0
    <2>1. /\ start' = [start EXCEPT ![t] = Clock(start[t] + interval[t])]
          /\ left' = [left EXCEPT ![t] = left[t] + n]
      BY <1>1, <1>3, <1>6 DEF timer_reset
    <2>2. /\ Clock(start[t] + interval[t]) \in 0..(Width - 1)
          /\ Due(Clock(start[t] + interval[t]), n, left[t] + n, clock)
          /\ left[t] + n \in Overdue..Half
      BY <1>1, <1>2, <1>6, ResetArithmetic
    <2> QED BY <1>1, <1>5, <2>1, <2>2 DEF SetFor
  <1>7. CASE left[t] > 0
    <2>1. start' = start /\ left' = [left EXCEPT ![t] = left[t] - interval[t] + n]
      <3>1. ~ (left[t] <= 0)
        BY <1>4, <1>7
      <3> QED BY <1>3, <3>1, Zenon DEF timer_reset
    <2>2. /\ Due(start[t], n, left[t] - interval[t] + n, clock)
          /\ left[t] - interval[t] + n \in Overdue..Half
      BY <1>1, <1>2, <1>7, ResetArithmetic
    <2> QED BY <1>1, <1>5, <2>1, <2>2 DEF SetFor
  <1> QED BY <1>4, <1>6, <1>7

LEMMA EtimerAddStep ==
  ASSUME TimersInv, NEW t \in Etimer, NEW u \in User,
         \/ \E n \in Intervals : \/ etimer_set(t, n, u)
                                 \/ etimer_reset_with_new_interval(t, n, u)
         \/ etimer_reset(t, u) \/ etimer_restart(t, u)
  PROVE  TimersInv'
  <1>1. t \in Timer /\ t \notin Ctimer
    BY TimersAssumption DEF Timer
  <1>2. interval[t] \in Intervals \cup {0}
    BY <1>1, TimerTypes
  <1>3. SetFor(t)
    <2>1. ASSUME NEW n \in Intervals, etimer_set(t, n, u) PROVE SetFor(t)
      BY <1>1, <2>1, SetDue DEF etimer_set
    <2>2. ASSUME NEW n \in Intervals \cup {0},
                 etimer_reset_with_new_interval(t, n, u)
          PROVE  SetFor(t)
      BY <1>1, <2>2, ResetDue DEF etimer_reset_with_new_interval
    <2>3. CASE etimer_reset(t, u)
      BY <1>2, <2>2, <2>3 DEF etimer_reset
    <2>4. CASE etimer_restart(t, u)
      BY <1>1, <2>4, RestartDue DEF etimer_restart
    <2> QED BY <2>1, <2>2, <2>3, <2>4
  <1>4. /\ Running /\ add_timer(t, u, start', interval')
        /\ UNCHANGED <<clock, scan, queue, ctimer_list, posts>>
    BY DEF etimer_set, etimer_reset_with_new_interval, etimer_reset, etimer_restart
  <1> QED BY <1>1, <1>3, <1>4, AddStep DEF SetFor

LEMMA CtimerAddStep ==
  ASSUME TimersInv, NEW c \in Ctimer,
         \/ \E n \in Intervals : ctimer_set(c, n)
         \/ ctimer_reset(c) \/ ctimer_restart(c)
  PROVE  TimersInv'
  <1>1. c \in Timer
    BY DEF Timer
  <1>2. interval[c] \in Intervals \cup {0}
    BY <1>1, TimerTypes
  <1>3. SetFor(c)
    BY <1>1, <1>2, SetDue, ResetDue, RestartDue
    DEF ctimer_set, ctimer_reset, ctimer_restart
  <1>4. /\ Running /\ add_timer(c, ctimer_process, start', interval')
        /\ UNCHANGED <<clock, scan, queue, posts>>
        /\ ctimer_list' = ctimer_list \cup {c}
    BY DEF ctimer_set, ctimer_reset, ctimer_restart
  <1> QED BY <1>1, <1>3, <1>4, AddStep DEF SetFor
------------------------------------------------------------------------------
(* Timers are taken off the list, by a process or by the scan. *)
LEMMA RemoveTimes ==
  ASSUME TimersInv, NEW gone, timerlist' = Without(timerlist, gone),
         UNCHANGED <<clock, start, interval, left>>,
         \/ UNCHANGED next_expiration
         \/ next_expiration' = update_time(timerlist', start, interval),
         (Running /\ UNCHANGED <<needspoll, scan>>) \/ scan' = 1
  PROVE  /\ timerlist' \in Seq(Timer) /\ Single(timerlist')
         /\ Range(timerlist') = Range(timerlist) \ gone
         /\ next_expiration' \in 0..(Width - 1)
         /\ TimesTrue' /\ NextSound' /\ Noticed'
  <1>1. /\ TypeOK /\ timerlist \in Seq(Timer) /\ Single(timerlist)
    BY ListSingle DEF TimersInv, ListSound, TypeOK
  <1>2. /\ timerlist' \in Seq(Timer) /\ Single(timerlist')
        /\ Range(timerlist') = Range(timerlist) \ gone
    BY <1>1, WithoutSound
  <1>3. \A k : Listed(k)' => Listed(k)
    BY <1>2 DEF Listed
  <1>0. \A k \in Range(timerlist') : k \in Timer /\ Listed(k)
    <2>1. \A k \in Range(timerlist) : k \in Timer
      BY <1>1 DEF Range
    <2> QED BY <1>2, <2>1 DEF Listed
  <1>4. TimesTrue'
    BY <1>3 DEF TimersInv, TimesTrue
  <1>5. /\ next_expiration' \in 0..(Width - 1)
        /\ \A k \in Range(timerlist') :
             /\ left[k] > 0 => Before(next_expiration', left[k], clock)
             /\ left[k] = 0 => \/ next_expiration' = clock
                               \/ UNCHANGED next_expiration
    <2>1. CASE UNCHANGED next_expiration
      BY <1>0, <1>1, <2>1 DEF TimersInv, NextSound, TypeOK
    <2>2. CASE next_expiration' = update_time(timerlist', start, interval)
      <3>1. /\ clock \in 0..(Width - 1) /\ start \in [Timer -> 0..(Width - 1)]
            /\ interval \in [Timer -> Intervals \cup {0}]
        BY <1>1 DEF TypeOK
      <3>2. \A k \in Range(timerlist') : Due(start[k], interval[k], left[k], clock)
        BY <1>0 DEF TimersInv, TimesTrue
      <3> QED BY <1>2, <2>2, <3>1, <3>2, NextTime
    <2> QED BY <2>1, <2>2
  <1>6. NextSound'
    BY <1>5 DEF NextSound, Listed
  <1>7. Noticed'
    <2> SUFFICES ASSUME NEW i \in DOMAIN timerlist', left[timerlist'[i]] <= 0
                 PROVE  \/ Seen(i)'
                        \/ left[timerlist'[i]] = 0 /\ next_expiration' = clock
      BY DEF Noticed
    <2>1. CASE scan' = 1
      <3>1. i \in Nat /\ i >= 1
        BY <1>2
      <3> QED BY <2>1, <3>1 DEF Seen
    <2>2. CASE Running /\ UNCHANGED <<needspoll, scan>>
      <3>1. PICK k : k = timerlist'[i]
        OBVIOUS
      <3>2. k \in Range(timerlist') /\ Listed(k)
        BY <1>2, <3>1 DEF Range, Listed
      <3>3. PICK j \in DOMAIN timerlist : timerlist[j] = k
        BY <3>2, ListedIndex
      <3>4. \/ needspoll
            \/ left[k] = 0 /\ next_expiration = clock
        BY <2>2, <3>1, <3>3 DEF TimersInv, Noticed, Seen, Running
      <3> QED BY <1>5, <2>2, <3>1, <3>2, <3>4 DEF Seen
    <2> QED BY <2>1, <2>2
  <1> QED BY <1>2, <1>4, <1>5, <1>6, <1>7

LEMMA StopStep ==
  ASSUME TimersInv,
         \/ \E t \in Etimer : etimer_stop(t)
         \/ \E c \in Ctimer : ctimer_stop(c)
  PROVE  TimersInv'
  <1>1. PICK t \in Timer :
          /\ Running /\ stop_timer(t)
          /\ UNCHANGED <<clock, start, interval, left, scan, queue, posts>>
          /\ \/ t \in Etimer /\ UNCHANGED ctimer_list
             \/ ctimer_list' = ctimer_list \ {t}
    BY DEF etimer_stop, ctimer_stop, Timer, timerVars
  <1>2. timerlist' = Without(timerlist, {t}) /\ UNCHANGED needspoll
    BY <1>1 DEF stop_timer
  <1>3. \/ UNCHANGED next_expiration
        \/ next_expiration' = update_time(timerlist', start, interval)
    BY <1>1 DEF stop_timer
  <1>4. /\ timerlist' \in Seq(Timer) /\ Single(timerlist')
        /\ Range(timerlist') = Range(timerlist) \ {t}
        /\ next_expiration' \in 0..(Width - 1)
        /\ TimesTrue' /\ NextSound' /\ Noticed'
    BY <1>1, <1>2, <1>3, RemoveTimes
  <1>5. TypeOK /\ ListSound /\ Owners /\ scan = 0
    BY <1>1 DEF TimersInv, ListSound, Running
  <1>6. p' = [p EXCEPT ![t] = NULL] /\ p \in [Timer -> User \cup {NULL, ctimer_process}]
    BY <1>1, <1>5 DEF stop_timer, TypeOK
  <1>7. Owners'
    BY <1>5, <1>6 DEF Owners, Timer
  <1>8. TypeOK'
    <2>1. p' \in [Timer -> User \cup {NULL, ctimer_process}]
      BY <1>6
    <2>2. scan' \in 0..(Len(timerlist') + 1) /\ ctimer_list' \subseteq Ctimer
      BY <1>1, <1>4, <1>5 DEF TypeOK
    <2> QED BY <1>1, <1>2, <1>4, <1>5, <2>1, <2>2 DEF TypeOK
  <1>9. \A k \in Timer : Listed(k)' => p'[k] # NULL
    BY <1>4, <1>5, <1>6 DEF ListSound, Listed
  <1>10. \A c \in ctimer_list' :
           Listed(c)' \/ [p |-> ctimer_process, t |-> c] \in Range(queue')
    <2> SUFFICES ASSUME NEW c \in ctimer_list'
                 PROVE  Listed(c)' \/ [p |-> ctimer_process, t |-> c] \in Range(queue)
      BY <1>1
    <2>1. c \in ctimer_list /\ c # t
      BY <1>1, <1>5, TimersAssumption DEF TypeOK
    <2> QED BY <1>4, <1>5, <2>1 DEF ListSound, Listed
  <1>11. ListSound'
    BY <1>4, <1>8, <1>9, <1>10 DEF ListSound, Single
  <1> QED BY <1>4, <1>7, <1>11 DEF TimersInv

LEMMA ExitedStep ==
  ASSUME TimersInv, NEW u \in User, etimer_exited(u)
  PROVE  TimersInv'
  <1> DEFINE gone == {t \in Timer : p[t] = u}
  <1>1. /\ Running /\ timerlist' = Without(timerlist, gone)
        /\ UNCHANGED <<clock, start, interval, left, p, next_expiration,
                       needspoll, scan, queue, ctimer_list, posts>>
    BY DEF etimer_exited, timerVars
  <1>2. \A c \in Ctimer : c \notin gone
    BY TimersAssumption DEF TimersInv, Owners
  <1> HIDE DEF gone
  <1>3. /\ timerlist' \in Seq(Timer) /\ Single(timerlist')
        /\ Range(timerlist') = Range(timerlist) \ gone
        /\ TimesTrue' /\ NextSound' /\ Noticed'
    BY <1>1, RemoveTimes
  <1>4. TypeOK /\ ListSound /\ Owners /\ scan = 0
    BY <1>1 DEF TimersInv, ListSound, Running
  <1>5. TypeOK' /\ Owners'
    <2>1. scan' \in 0..(Len(timerlist') + 1)
      BY <1>1, <1>3, <1>4
    <2> QED BY <1>1, <1>3, <1>4, <2>1 DEF TypeOK, Owners
  <1>6. ListSound'
    <2>1. \A k \in Timer : Listed(k)' => p'[k] # NULL
      BY <1>1, <1>3, <1>4 DEF ListSound, Listed
    <2>2. \A c \in ctimer_list' :
            Listed(c)' \/ [p |-> ctimer_process, t |-> c] \in Range(queue')
      <3>1. \A c \in ctimer_list : c \in Ctimer
        BY <1>4 DEF TypeOK
      <3> QED BY <1>1, <1>2, <1>3, <1>4, <3>1 DEF ListSound, Listed
    <2> QED BY <1>3, <1>5, <2>1, <2>2 DEF ListSound, Single
  <1> QED BY <1>3, <1>5, <1>6 DEF TimersInv

(* The scan posts an event. *)
LEMMA QueueAppended ==
  ASSUME NEW S, NEW q \in Seq(S), NEW e
  PROVE  Range(Append(q, e)) = Range(q) \cup {e}
  <1> DEFINE a == Append(q, e)
  <1>1. /\ Len(q) \in Nat /\ DOMAIN q = 1..Len(q) /\ DOMAIN a = 1..(Len(q) + 1)
        /\ \A i \in 1..Len(q) : a[i] = q[i]
        /\ a[Len(q) + 1] = e
    OBVIOUS
  <1> HIDE DEF a
  <1>2. Range(a) = Range(q) \cup {e}
    BY <1>1 DEF Range
  <1> QED BY <1>2 DEF a

LEMMA PostStep == ASSUME TimersInv, scan_post PROVE TimersInv'
  <1>1. PICK t : t = timerlist[scan]
    OBVIOUS
  <1>2. /\ scan \in DOMAIN timerlist /\ Len(queue) < QueueSize
        /\ queue' = Append(queue, [p |-> p[t], t |-> t])
        /\ p' = [p EXCEPT ![t] = NULL]
        /\ timerlist' = Without(timerlist, {t})
        /\ next_expiration' = update_time(timerlist', start, interval)
        /\ scan' = 1
        /\ UNCHANGED <<clock, start, interval, left, needspoll, ctimer_list, posts>>
    BY <1>1 DEF scan_post, TimerEvent, timerVars
  <1>3. TypeOK /\ ListSound /\ Owners
    BY DEF TimersInv, ListSound
  <1>4. t \in Timer /\ Listed(t)
    BY <1>1, <1>2, <1>3, ListedAt
  <1>5. /\ timerlist' \in Seq(Timer) /\ Single(timerlist')
        /\ Range(timerlist') = Range(timerlist) \ {t}
        /\ next_expiration' \in 0..(Width - 1)
        /\ TimesTrue' /\ NextSound' /\ Noticed'
    BY <1>2, RemoveTimes
  <1>6. p \in [Timer -> User \cup {NULL, ctimer_process}] /\ p[t] # NULL
    BY <1>3, <1>4 DEF TypeOK, ListSound
  <1>7. Owners'
    BY <1>2, <1>3, <1>6 DEF Owners, Timer
  <1> DEFINE E == [p : User \cup {ctimer_process}, t : Timer \cup {NULL}]
             e == [p |-> p[t], t |-> t]
  <1>8. queue \in Seq(E) /\ e \in E
    BY <1>3, <1>4, <1>6 DEF TypeOK
  <1>9. Range(queue') = Range(queue) \cup {e}
    <2> HIDE DEF E, e
    <2>1. queue' = Append(queue, e)
      BY <1>2 DEF e
    <2> QED BY <1>8, <2>1, QueueAppended
  <1>10. TypeOK'
    <2>1. p' \in [Timer -> User \cup {NULL, ctimer_process}]
      BY <1>2, <1>6
    <2>2. scan' \in 0..(Len(timerlist') + 1)
      BY <1>2, <1>5
    <2>3. queue' \in Seq(E) /\ Len(queue') <= QueueSize
      <3> HIDE DEF E
      <3> QED BY <1>2, <1>8, TimersAssumption
    <2> QED BY <1>2, <1>3, <1>5, <2>1, <2>2, <2>3 DEF TypeOK
  <1>11. \A k \in Timer : Listed(k)' => p'[k] # NULL
    BY <1>2, <1>3, <1>5, <1>6 DEF ListSound, Listed
  <1>12. \A c \in ctimer_list' :
           Listed(c)' \/ [p |-> ctimer_process, t |-> c] \in Range(queue')
    <2> SUFFICES ASSUME NEW c \in ctimer_list
                 PROVE  Listed(c)' \/ [p |-> ctimer_process, t |-> c] \in Range(queue')
      BY <1>2
    <2>1. CASE c # t
      BY <1>3, <1>5, <1>9, <2>1 DEF ListSound, Listed
    <2>2. CASE c = t
      <3>1. p[t] = ctimer_process
        BY <1>3, <1>6, <2>2 DEF TypeOK, Owners
      <3> QED BY <1>9, <2>2, <3>1
    <2> QED BY <2>1, <2>2
  <1>13. ListSound'
    BY <1>5, <1>10, <1>11, <1>12 DEF ListSound, Single
  <1> QED BY <1>5, <1>7, <1>13 DEF TimersInv
------------------------------------------------------------------------------
(* Steps that leave the list, the timers and the clock alone. *)
LEMMA SameTimes ==
  ASSUME TimersInv, UNCHANGED <<clock, start, interval, left, timerlist, next_expiration>>
  PROVE  TimesTrue' /\ NextSound'
  BY DEF TimersInv, TimesTrue, NextSound, Listed

LEMMA SameList ==
  ASSUME TimersInv, TypeOK', UNCHANGED <<p, timerlist>>,
         \A c \in ctimer_list' :
           /\ c \in ctimer_list
           /\ [p |-> ctimer_process, t |-> c] \in Range(queue) =>
                [p |-> ctimer_process, t |-> c] \in Range(queue')
  PROVE  ListSound' /\ Owners'
  BY DEF TimersInv, ListSound, Owners, Listed

LEMMA AdjustStep ==
  ASSUME AdjustEarlier, TimersInv, NEW t \in Etimer, NEW d \in Adjustments,
         etimer_adjust(t, d)
  PROVE  TimersInv'
  <1>1. /\ Running /\ Listed(t) /\ left[t] + d \in 0..(Half - 1)
        /\ start' = [start EXCEPT ![t] = Clock(@ + d)]
        /\ left' = [left EXCEPT ![t] = @ + d]
        /\ next_expiration' = update_time(timerlist, start', interval)
        /\ UNCHANGED <<clock, interval, p, timerlist, needspoll, scan, queue,
                       ctimer_list, posts>>
    BY DEF etimer_adjust
  <1>2. t \in Timer /\ d \in Int /\ d <= 0
    BY TimersAssumption DEF Timer, AdjustEarlier
  <1>3. TypeOK /\ ListSound
    BY DEF TimersInv, ListSound
  <1>4. /\ clock \in 0..(Width - 1) /\ start[t] \in 0..(Width - 1)
        /\ interval[t] \in Intervals \cup {0} /\ left[t] \in Overdue..Half
        /\ start \in [Timer -> 0..(Width - 1)]
        /\ interval \in [Timer -> Intervals \cup {0}]
        /\ left \in [Timer -> Overdue..Half]
    BY <1>2, TimerTypes
  <1>5. Due(start[t], interval[t], left[t], clock)
    BY <1>1, <1>2 DEF TimersInv, TimesTrue
  <1>6. /\ Width \in Nat /\ Half \in Nat /\ Width = 2 * Half
        /\ MaxLag \in Nat /\ MaxLag < Half /\ Overdue = -MaxLag
        /\ interval[t] \in Nat /\ interval[t] < Half
    BY <1>4, Widths
  <1>7. left[t] \in Int /\ left[t] <= interval[t] /\ -d < Half
    BY <1>1, <1>2, <1>4, <1>5, <1>6 DEF Due
  <1>8. PICK x : x = Clock(start[t] + d)
    OBVIOUS
  <1>9. x \in 0..(Width - 1) /\ (x = start[t] + d \/ x = start[t] + d + Width)
    BY <1>2, <1>4, <1>6, <1>7, <1>8, Wraps
  <1>10. Due(x, interval[t], left[t] + d, clock) /\ left[t] + d \in Overdue..Half
    <2>1. start[t] + interval[t] - clock - left[t] \in {-Width, 0, Width}
      BY <1>5 DEF Due, Same
    <2>2. x + interval[t] - clock - (left[t] + d) \in {-Width, 0, Width}
      BY <1>1, <1>2, <1>4, <1>6, <1>7, <1>9, <2>1
    <2>3. left[t] + d \in Int /\ left[t] + d >= 0 /\ left[t] + d <= interval[t]
      BY <1>1, <1>2, <1>6, <1>7
    <2> QED BY <1>6, <2>2, <2>3 DEF Due, Same
  <1>11. /\ start' \in [Timer -> 0..(Width - 1)] /\ left' \in [Timer -> Overdue..Half]
         /\ start'[t] = x /\ left'[t] = left[t] + d
         /\ \A k \in Timer \ {t} : start'[k] = start[k] /\ left'[k] = left[k]
    BY <1>1, <1>2, <1>4, <1>8, <1>9, <1>10
  <1>12. \A k \in Timer : Listed(k) \/ left'[k] > Overdue =>
                            Due(start'[k], interval[k], left'[k], clock)
    BY <1>10, <1>11 DEF TimersInv, TimesTrue
  <1>13. TimesTrue'
    BY <1>1, <1>12 DEF TimesTrue, Listed
  <1>14. /\ next_expiration' \in 0..(Width - 1)
         /\ \A k \in Range(timerlist) :
              /\ left'[k] > 0 => Before(next_expiration', left'[k], clock)
              /\ left'[k] = 0 => next_expiration' = clock
    <2>1. timerlist \in Seq(Timer) /\ \A k \in Range(timerlist) : k \in Timer
      BY <1>3 DEF TypeOK, Range
    <2>2. \A k \in Range(timerlist) : Due(start'[k], interval[k], left'[k], clock)
      BY <1>12, <2>1 DEF Listed
    <2> QED BY <1>1, <1>4, <1>11, <2>1, <2>2, NextTime
  <1>15. NextSound'
    BY <1>1, <1>14 DEF NextSound, Listed
  <1>16. Noticed'
    <2> SUFFICES ASSUME NEW i \in DOMAIN timerlist, left'[timerlist[i]] <= 0
                 PROVE  \/ Seen(i)
                        \/ left'[timerlist[i]] = 0 /\ next_expiration' = clock
      BY <1>1 DEF Noticed, Seen
    <2>1. PICK k : k = timerlist[i]
      OBVIOUS
    <2>2. k \in Timer /\ k \in Range(timerlist)
      BY <1>3, <2>1, ListedAt DEF Listed
    <2>3. CASE k = t
      <3>1. left'[k] = 0
        BY <1>1, <1>6, <1>11, <2>1, <2>3
      <3> QED BY <1>14, <2>1, <2>2, <3>1
    <2>4. CASE k # t
      <3>1. left'[k] = left[k]
        BY <1>11, <2>2, <2>4
      <3>2. Seen(i) \/ left[k] = 0
        BY <2>1, <3>1 DEF TimersInv, Noticed
      <3> QED BY <1>14, <2>1, <2>2, <3>1, <3>2
    <2> QED BY <2>3, <2>4
  <1>17. TypeOK'
    BY <1>1, <1>3, <1>11, <1>14 DEF TypeOK
  <1>18. ListSound' /\ Owners'
    BY <1>1, <1>17, SameList
  <1> QED BY <1>13, <1>15, <1>16, <1>18 DEF TimersInv

LEMMA PollStep == ASSUME TimersInv, etimer_poll PROVE TimersInv'
  <1>1. /\ Running /\ scan' = 1 /\ needspoll' = FALSE
        /\ UNCHANGED <<clock, start, interval, left, p, timerlist,
                       next_expiration, queue, ctimer_list, posts>>
    BY DEF etimer_poll, timerVars
  <1>2. TypeOK
    BY DEF TimersInv, ListSound
  <1>3. TypeOK'
    <2>1. scan' \in 0..(Len(timerlist') + 1)
      BY <1>1, <1>2 DEF TypeOK
    <2> QED BY <1>1, <1>2, <2>1 DEF TypeOK
  <1>4. Noticed'
    <2>1. \A i \in DOMAIN timerlist : i \in Nat /\ i >= 1
      BY <1>2 DEF TypeOK
    <2> QED BY <1>1, <2>1 DEF Noticed, Seen
  <1>5. ListSound' /\ Owners'
    BY <1>1, <1>3, SameList
  <1> QED BY <1>1, <1>4, <1>5, SameTimes DEF TimersInv

LEMMA PassStep == ASSUME TimersInv, scan_skip \/ scan_full \/ scan_end
                  PROVE  TimersInv'
  <1>1. /\ UNCHANGED <<clock, start, interval, left, p, timerlist,
                       next_expiration, queue, ctimer_list, posts>>
    BY DEF scan_skip, scan_full, scan_end, timerVars, listVars
  <1>2. TypeOK /\ timerlist \in Seq(Timer) /\ Len(timerlist) \in Nat
        /\ DOMAIN timerlist = 1..Len(timerlist) /\ scan \in 0..(Len(timerlist) + 1)
    BY DEF TimersInv, ListSound, TypeOK
  <1>3. TypeOK'
    <2>1. scan' \in 0..(Len(timerlist') + 1)
      BY <1>1, <1>2 DEF scan_skip, scan_full, scan_end
    <2>2. needspoll' \in BOOLEAN
      BY <1>2 DEF scan_skip, scan_full, scan_end, listVars, TypeOK
    <2> QED BY <1>1, <1>2, <2>1, <2>2 DEF TypeOK
  <1>4. Noticed'
    <2>1. CASE scan_skip
      <3>1. scan \in DOMAIN timerlist /\ scan' = scan + 1 /\ UNCHANGED needspoll
            /\ ~ timer_expired(timerlist[scan])
        BY <2>1 DEF scan_skip, listVars
      <3>2. ~ (left[timerlist[scan]] <= 0)
        <4>1. timerlist[scan] \in Timer /\ Listed(timerlist[scan])
          BY <1>2, <3>1, ListedAt
        <4> QED BY <3>1, <4>1, InvExpired DEF ExpiredIsTrue
      <3> SUFFICES ASSUME NEW i \in DOMAIN timerlist, left[timerlist[i]] <= 0
                   PROVE  \/ Seen(i)'
                          \/ left[timerlist[i]] = 0 /\ next_expiration = clock
        BY <1>1 DEF Noticed
      <3>3. i # scan
        BY <3>2
      <3>4. Seen(i) \/ (left[timerlist[i]] = 0 /\ next_expiration = clock)
        BY DEF TimersInv, Noticed
      <3>5. Seen(i) => Seen(i)'
        BY <1>2, <3>1, <3>3 DEF Seen
      <3> QED BY <3>4, <3>5
    <2>2. CASE scan_full
      BY <2>2 DEF scan_full, Noticed, Seen
    <2>3. CASE scan_end
      <3>1. scan > Len(timerlist) /\ UNCHANGED needspoll
        BY <2>3 DEF scan_end, listVars
      <3>2. \A i \in DOMAIN timerlist : Seen(i) => needspoll
        BY <1>2, <3>1 DEF Seen
      <3> QED BY <1>1, <3>1, <3>2 DEF TimersInv, Noticed, Seen
    <2> QED BY <2>1, <2>2, <2>3
  <1>5. ListSound' /\ Owners'
    BY <1>1, <1>3, SameList
  <1> QED BY <1>1, <1>4, <1>5, SameTimes DEF TimersInv
------------------------------------------------------------------------------
(* The event queue.  A step here is seen by ctimer_list only. *)
LEMMA QuietStep ==
  ASSUME TimersInv, TypeOK',
         UNCHANGED <<clock, start, interval, left, p, timerlist,
                     next_expiration, needspoll, scan>>,
         \A c \in ctimer_list' :
           /\ c \in ctimer_list
           /\ [p |-> ctimer_process, t |-> c] \in Range(queue) =>
                [p |-> ctimer_process, t |-> c] \in Range(queue')
  PROVE  TimersInv'
  <1>1. ListSound' /\ Owners'
    BY SameList
  <1>2. Noticed'
    BY DEF TimersInv, Noticed, Seen
  <1> QED BY <1>1, <1>2, SameTimes DEF TimersInv

LEMMA TakeStep == ASSUME TimersInv, take_event PROVE TimersInv'
  <1> DEFINE E == [p : User \cup {ctimer_process}, t : Timer \cup {NULL}]
  <1>1. /\ queue # <<>> /\ queue' = Tail(queue)
        /\ ctimer_list' = IF Head(queue).p = ctimer_process
                          THEN ctimer_list \ {Head(queue).t} ELSE ctimer_list
        /\ UNCHANGED <<clock, start, interval, left, p, timerlist,
                       next_expiration, needspoll, scan, posts>>
    BY DEF take_event, timerVars, listVars
  <1>2. TypeOK /\ queue \in Seq(E) /\ Len(queue) <= QueueSize /\ QueueSize \in Nat
    BY TimersAssumption DEF TimersInv, ListSound, TypeOK
  <1> HIDE DEF E
  <1>3. /\ queue' \in Seq(E) /\ Len(queue) \in Nat /\ Len(queue) >= 1
        /\ Len(queue') = Len(queue) - 1 /\ Head(queue) = queue[1]
        /\ DOMAIN queue = 1..Len(queue) /\ DOMAIN queue' = 1..(Len(queue) - 1)
        /\ \A i \in 1..(Len(queue) - 1) : queue'[i] = queue[i + 1]
    BY <1>1, <1>2
  <1>4. \A e \in Range(queue) : e = Head(queue) \/ e \in Range(queue')
    <2> SUFFICES ASSUME NEW e \in Range(queue), e # Head(queue)
                 PROVE  e \in Range(queue')
      OBVIOUS
    <2>1. PICK i \in 1..Len(queue) : e = queue[i]
      BY <1>3 DEF Range
    <2>2. i # 1
      BY <1>3, <2>1
    <2>3. i - 1 \in 1..(Len(queue) - 1) /\ (i - 1) + 1 = i
      BY <1>3, <2>2
    <2>4. queue'[i - 1] = e /\ i - 1 \in DOMAIN queue'
      BY <1>3, <2>1, <2>3
    <2> QED BY <2>4 DEF Range
  <1>5. TypeOK'
    <2>1. Len(queue') <= QueueSize
      BY <1>2, <1>3
    <2>2. ctimer_list' \subseteq Ctimer
      BY <1>1, <1>2 DEF TypeOK
    <2> QED BY <1>1, <1>2, <1>3, <2>1, <2>2 DEF TypeOK, E
  <1>6. ASSUME NEW c \in ctimer_list'
        PROVE  /\ c \in ctimer_list
               /\ [p |-> ctimer_process, t |-> c] \in Range(queue) =>
                    [p |-> ctimer_process, t |-> c] \in Range(queue')
    <2>1. PICK e : e = [p |-> ctimer_process, t |-> c]
      OBVIOUS
    <2>2. e.p = ctimer_process /\ e.t = c
      BY <2>1
    <2>3. c \in ctimer_list /\ e # Head(queue)
      BY <1>1, <1>6, <2>2
    <2> QED BY <1>4, <2>1, <2>3
  <1> QED BY <1>1, <1>5, <1>6, QuietStep

LEMMA OtherStep == ASSUME TimersInv, NEW u \in User, post_other(u)
                   PROVE  TimersInv'
  <1> DEFINE E == [p : User \cup {ctimer_process}, t : Timer \cup {NULL}]
             e == [p |-> u, t |-> NULL]
  <1>1. /\ Len(queue) < QueueSize /\ queue' = Append(queue, e)
        /\ posts < MaxPosts /\ posts' = posts + 1
        /\ UNCHANGED <<clock, start, interval, left, p, timerlist,
                       next_expiration, needspoll, scan, ctimer_list>>
    BY DEF post_other, timerVars, listVars, OtherEvent
  <1>2. TypeOK /\ queue \in Seq(E) /\ e \in E /\ posts \in 0..MaxPosts
        /\ QueueSize \in Nat /\ MaxPosts \in Nat
    BY TimersAssumption DEF TimersInv, ListSound, TypeOK
  <1>3. posts' \in 0..MaxPosts
    BY <1>1, <1>2
  <1> HIDE DEF E, e
  <1>4. queue' \in Seq(E) /\ Len(queue') <= QueueSize
    BY <1>1, <1>2
  <1>5. TypeOK'
    BY <1>1, <1>2, <1>3, <1>4 DEF TypeOK, E
  <1>6. Range(queue') = Range(queue) \cup {e}
    BY <1>1, <1>2, QueueAppended
  <1> QED BY <1>1, <1>5, <1>6, QuietStep

------------------------------------------------------------------------------
(* A clock tick.  The test of the interrupt succeeds for the half of the   *)
(* clock that begins with the next expiration time.                        *)
LEMMA TickNotices ==
  ASSUME NEW now \in 0..(Width - 1), NEW next \in 0..(Width - 1),
         NEW e \in 0..(Half - 1), Same(now - next - e)
  PROVE  Clock(next - now - 1) >= Half
  <1>1. Width \in Nat /\ Half \in Nat /\ Width = 2 * Half /\ Half >= 2
    BY Widths
  <1>2. next - now - 1 \in {-e - 1, -e - 1 + Width, -e - 1 - Width}
    BY <1>1 DEF Same
  <1>3. next - now - 1 # -e - 1 - Width \/ -e - 1 - Width >= -2 * Width
    BY <1>1
  <1>4. Clock(next - now - 1) = Width - e - 1
    BY <1>1, <1>2, <1>3, Wraps
  <1> QED BY <1>1, <1>4

LEMMA TickDue ==
  ASSUME NEW now \in 0..(Width - 1), NEW a \in 0..(Width - 1),
         NEW n \in Intervals \cup {0}, NEW l, Due(a, n, l, now), l > Overdue
  PROVE  Due(a, n, l - 1, Clock(now + 1)) /\ l - 1 \in Overdue..Half
  <1>1. /\ Width \in Nat /\ Half \in Nat /\ Width = 2 * Half
        /\ MaxLag \in Nat /\ MaxLag < Half /\ Overdue = -MaxLag
        /\ n \in Nat /\ n < Half
    BY Widths
  <1>2. l \in Int /\ -MaxLag < l /\ l <= n /\ a + n - now - l \in {-Width, 0, Width}
    BY <1>1 DEF Due, Same
  <1>3. PICK x : x = Clock(now + 1)
    OBVIOUS
  <1>4. x \in 0..(Width - 1) /\ (x = now + 1 \/ x = now + 1 - Width)
    BY <1>1, <1>3, Wraps
  <1>5. a + n - x - (l - 1) \in {-Width, 0, Width}
    BY <1>1, <1>2, <1>4
  <1>6. l - 1 \in Int /\ -MaxLag <= l - 1 /\ l - 1 <= n
    BY <1>1, <1>2
  <1> QED BY <1>1, <1>3, <1>5, <1>6 DEF Due, Same

LEMMA TickBefore ==
  ASSUME NEW now \in 0..(Width - 1), NEW next \in 0..(Width - 1),
         NEW l \in 1..Half, Before(next, l, now)
  PROVE  Before(next, l - 1, Clock(now + 1))
  <1>1. Width \in Nat /\ Half \in Nat /\ Width = 2 * Half /\ Half >= 2
    BY Widths
  <1>2. PICK e \in 0..(Half - 1) : l + now - next - e \in {-Width, 0, Width}
    BY DEF Before, Same
  <1>3. PICK x : x = Clock(now + 1)
    OBVIOUS
  <1>4. x \in 0..(Width - 1) /\ (x = now + 1 \/ x = now + 1 - Width)
    BY <1>1, <1>3, Wraps
  <1>5. l - 1 + x - next - e \in {-Width, 0, Width}
    BY <1>1, <1>2, <1>4
  <1>6. Same(l - 1 + x - next - e)
    BY <1>5 DEF Same
  <1> QED BY <1>3, <1>6 DEF Before

LEMMA TickStep == ASSUME TimersInv, clock_tick PROVE TimersInv'
  <1>1. /\ \A t \in Timer : Listed(t) => left[t] > Overdue
        /\ clock' = Clock(clock + 1)
        /\ left' = [t \in Timer |-> IF left[t] > Overdue THEN left[t] - 1
                                    ELSE left[t]]
        /\ needspoll' = (needspoll \/ (/\ timerlist # <<>>
                                       /\ Clock(next_expiration - clock' - 1) >= Half))
        /\ UNCHANGED <<start, interval, p, timerlist, next_expiration, scan,
                       queue, ctimer_list, posts>>
    BY DEF clock_tick
  <1>2. /\ TypeOK /\ clock \in 0..(Width - 1) /\ next_expiration \in 0..(Width - 1)
        /\ clock' \in 0..(Width - 1)
    <2>1. clock \in 0..(Width - 1) /\ clock + 1 \in Int
      BY Widths DEF TimersInv, ListSound, TypeOK
    <2> QED BY <1>1, <2>1, Wraps DEF TimersInv, ListSound, TypeOK
  <1>3. /\ Width \in Nat /\ Half \in Nat /\ Width = 2 * Half /\ Half >= 2
        /\ MaxLag \in Nat /\ MaxLag < Half /\ Overdue = -MaxLag
    BY Widths
  <1>4. \A t \in Timer : left[t] \in Int /\ Overdue <= left[t] /\ left[t] <= Half
    BY <1>2, <1>3 DEF TypeOK
  <1>5. left' \in [Timer -> Overdue..Half]
    BY <1>1, <1>3, <1>4
  <1>6. TimesTrue'
    <2> SUFFICES ASSUME NEW t \in Timer, Listed(t) \/ left'[t] > Overdue
                 PROVE  Due(start[t], interval[t], left'[t], clock')
      BY <1>1 DEF TimesTrue, Listed
    <2>1. left[t] > Overdue /\ left'[t] = left[t] - 1
      BY <1>1
    <2>2. Due(start[t], interval[t], left[t], clock)
      BY <2>1 DEF TimersInv, TimesTrue
    <2>3. start[t] \in 0..(Width - 1) /\ interval[t] \in Intervals \cup {0}
      BY TimerTypes
    <2> QED BY <1>1, <1>2, <2>1, <2>2, <2>3, TickDue
  <1>7. \A t \in Timer : Listed(t) => left'[t] = left[t] - 1
    BY <1>1
  <1>8. \A t \in Timer : Listed(t) /\ left[t] > 0 =>
                            Before(next_expiration, left'[t], clock')
    <2> SUFFICES ASSUME NEW t \in Timer, Listed(t), left[t] > 0
                 PROVE  Before(next_expiration, left'[t], clock')
      OBVIOUS
    <2>1. Before(next_expiration, left[t], clock) /\ left[t] \in 1..Half
      BY <1>3, <1>4 DEF TimersInv, NextSound
    <2> QED BY <1>1, <1>2, <1>7, <2>1, TickBefore
  <1>9. NextSound'
    <2>1. \A t \in Timer : Listed(t) /\ left'[t] > 0 => left[t] > 0
      BY <1>4, <1>7
    <2> QED BY <1>1, <1>8, <2>1 DEF NextSound, Listed
  <1>10. Noticed'
    <2> SUFFICES ASSUME NEW i \in DOMAIN timerlist, left'[timerlist[i]] <= 0
                 PROVE  Seen(i)'
      BY <1>1 DEF Noticed
    <2>1. PICK t : t = timerlist[i]
      OBVIOUS
    <2>2. t \in Timer /\ Listed(t) /\ timerlist # <<>>
      BY <1>2, <2>1, ListedAt DEF TypeOK
    <2>3. left[t] \in Int /\ left'[t] = left[t] - 1 /\ left'[t] <= 0
      BY <1>4, <1>7, <2>1, <2>2
    <2>4. CASE left[t] > 0
      <3>1. left'[t] = 0
        BY <2>3, <2>4
      <3>2. Before(next_expiration, 0, clock')
        BY <1>8, <2>2, <2>4, <3>1
      <3>3. PICK e \in 0..(Half - 1) : Same(0 + clock' - next_expiration - e)
        BY <3>2 DEF Before
      <3>4. Same(clock' - next_expiration - e)
        BY <1>2, <1>3, <3>3
      <3>5. Clock(next_expiration - clock' - 1) >= Half
        BY <1>2, <3>4, TickNotices
      <3> QED BY <1>1, <2>2, <3>5 DEF Seen
    <2>5. CASE ~ (left[t] > 0)
      <3>1. Seen(i) \/ (left[t] = 0 /\ next_expiration = clock)
        BY <2>1, <2>3, <2>5 DEF TimersInv, Noticed
      <3>2. CASE Seen(i)
        BY <1>1, <3>2 DEF Seen
      <3>3. CASE next_expiration = clock
        <4>1. clock' = clock + 1 \/ clock' = clock + 1 - Width
          BY <1>1, <1>2, <1>3, Wraps
        <4>2. Same(clock' - next_expiration - 1) /\ 1 \in 0..(Half - 1)
          <5>0. clock \in Int /\ clock' \in Int /\ Width \in Int
            BY <1>2, <1>3
          <5>1. clock' - clock - 1 = 0 \/ clock' - clock - 1 = -Width
            BY <4>1, <5>0
          <5>2. 1 \in 0..(Half - 1)
            BY <1>3
          <5> QED BY <3>3, <5>1, <5>2 DEF Same
        <4>3. Clock(next_expiration - clock' - 1) >= Half
          BY <1>2, <4>2, TickNotices
        <4> QED BY <1>1, <2>2, <4>3 DEF Seen
      <3> QED BY <3>1, <3>2, <3>3
    <2> QED BY <2>4, <2>5
  <1>11. TypeOK'
    <2>1. needspoll' \in BOOLEAN
      BY <1>1, <1>2 DEF TypeOK
    <2> QED BY <1>1, <1>2, <1>5, <2>1 DEF TypeOK
  <1>12. ListSound' /\ Owners'
    BY <1>1, <1>11, SameList
  <1> QED BY <1>6, <1>9, <1>10, <1>12 DEF TimersInv
------------------------------------------------------------------------------
LEMMA TimersInitially == Init => TimersInv
  <1> SUFFICES ASSUME Init PROVE TimersInv
    OBVIOUS
  <1>1. /\ Width \in Nat /\ Half \in Nat /\ Width = 2 * Half /\ Half >= 2
        /\ MaxLag \in Nat /\ MaxLag < Half /\ Overdue = -MaxLag
    BY Widths
  <1>2. timerlist = <<>> /\ \A t : ~ Listed(t)
    BY DEF Init, Listed, Range
  <1>3. TypeOK
    <2>1. /\ start \in [Timer -> 0..(Width - 1)] /\ left \in [Timer -> Overdue..Half]
          /\ next_expiration \in 0..(Width - 1) /\ posts \in 0..MaxPosts
      BY <1>1, TimersAssumption DEF Init
    <2>2. scan \in 0..(Len(timerlist) + 1) /\ Len(queue) <= QueueSize
      BY TimersAssumption DEF Init
    <2>3. /\ interval \in [Timer -> Intervals \cup {0}]
          /\ p \in [Timer -> User \cup {NULL, ctimer_process}]
          /\ ctimer_list \subseteq Ctimer /\ needspoll \in BOOLEAN
      BY DEF Init
    <2>4. /\ timerlist \in Seq(Timer) /\ clock \in 0..(Width - 1)
          /\ queue \in Seq([p : User \cup {ctimer_process}, t : Timer \cup {NULL}])
      BY DEF Init
    <2> QED BY <2>1, <2>2, <2>3, <2>4 DEF TypeOK
  <1>4. ListSound /\ Owners
    BY <1>2, <1>3 DEF Init, ListSound, Owners, Timer
  <1>5. TimesTrue
    <2>1. \A t \in Timer : ~ (left[t] > Overdue)
      BY <1>1 DEF Init
    <2> QED BY <1>2, <2>1 DEF TimesTrue
  <1>6. NextSound /\ Noticed
    BY <1>2 DEF NextSound, Noticed
  <1> QED BY <1>4, <1>5, <1>6 DEF TimersInv

LEMMA TimersStep == AdjustEarlier /\ TimersInv /\ [Next]_vars => TimersInv'
  <1> SUFFICES ASSUME AdjustEarlier, TimersInv, [Next]_vars PROVE TimersInv'
    OBVIOUS
  <1>1. CASE EtimerCall
    BY <1>1, EtimerAddStep, StopStep, AdjustStep DEF EtimerCall
  <1>2. CASE CtimerCall
    BY <1>2, CtimerAddStep, StopStep DEF CtimerCall
  <1>3. ASSUME NEW u \in User, etimer_exited(u) \/ post_other(u)
        PROVE  TimersInv'
    BY <1>3, ExitedStep, OtherStep
  <1>4. CASE etimer_poll
    BY <1>4, PollStep
  <1>5. CASE Scan
    BY <1>5, PassStep, PostStep DEF Scan
  <1>6. CASE take_event
    BY <1>6, TakeStep
  <1>7. CASE clock_tick
    BY <1>7, TickStep
  <1>8. CASE UNCHANGED vars
    <2>1. UNCHANGED <<clock, start, interval, left, p, timerlist,
                      next_expiration, needspoll, scan, queue, ctimer_list, posts>>
      BY <1>8 DEF vars
    <2>2. TypeOK'
      BY <2>1 DEF TimersInv, ListSound, TypeOK
    <2> QED BY <2>1, <2>2, QuietStep
  <1> QED BY <1>1, <1>2, <1>3, <1>4, <1>5, <1>6, <1>7, <1>8 DEF Next, ProcessCall

LEMMA TimersAlways == ASSUME AdjustEarlier PROVE Spec => []TimersInv
  <1>1. TimersInv /\ [Next]_vars => TimersInv'
    BY TimersStep
  <1> QED BY <1>1, TimersInitially, PTL DEF Spec

(* For any timers, processes and queue length: no timer is on the list     *)
(* twice, and no ctimer is forgotten between its list, the list of etimers *)
(* and the event queue.                                                    *)
THEOREM TimerListSound == ASSUME AdjustEarlier PROVE Spec => []ListSound
  <1>1. TimersInv => ListSound
    BY DEF TimersInv
  <1>2. Spec => []TimersInv
    BY TimersAlways
  <1> QED BY <1>1, <1>2, PTL

(* For every width of the clock, timer_expired() is true of exactly the    *)
(* listed timers that are due, as long as intervals and delays are less    *)
(* than half of it.                                                        *)
THEOREM TimersExpireTruly == ASSUME AdjustEarlier PROVE Spec => []ExpiredIsTrue
  <1>1. Spec => []TimersInv
    BY TimersAlways
  <1> QED BY <1>1, InvExpired, PTL

(* The clock interrupt, which reads only next_expiration, polls            *)
(* etimer_process before any timer is overdue, although an exited process  *)
(* leaves that time stale and update_time() takes expired timers for       *)
(* timers of the far future.                                               *)
THEOREM TimersNoticed == ASSUME AdjustEarlier PROVE Spec => []ExpiryNoticed
  <1>1. Spec => []TimersInv
    BY TimersAlways
  <1> QED BY <1>1, InvNoticed, PTL

------------------------------------------------------------------------------
(* The node of RMH-B. *)

(* Timers that run and events that wait come from the first start, from a *)
(* sleep or from the restart after it, two of each.                       *)
EventsBounded ==
    timer_events + One(beacon_timer) + One(announce_timer) + One(rt)
      + One(reset_scheduled) <= 2 + 2 * sleeps

NodeInv == NodeSound /\ EventsBounded

LEMMA OneIsNumber == One(TRUE) = 1 /\ One(FALSE) = 0
  BY DEF One

(* memb_alloc() returns a free block if there is one. *)
LEMMA FirstFreeIsFree ==
  ASSUME Free # {} PROVE FirstFree \in Free /\ FirstFree \in Block
  <1>1. Free \subseteq Nat /\ Free \subseteq Block
    BY RmhbNodeAssumption DEF Free, Block
  <1>2. \E b \in Free : \A f \in Free : b <= f
    BY <1>1, LeastNumber
  <1> QED BY <1>1, <1>2 DEF FirstFree

(* The conditions on the table, which only some steps touch. *)
TableSound ==
    /\ \A b, c \in neighbor_table : addr[b] = addr[c] => b = c
    /\ ~ reset_scheduled => \A b \in neighbor_table : used[b] /\ ctimer[b]
    /\ \A b \in Block : used[b] => ctimer[b]

Flags ==
    /\ beacon_timer \in BOOLEAN /\ announce_timer \in BOOLEAN /\ rt \in BOOLEAN
    /\ disable_beacon \in BOOLEAN /\ reset_scheduled \in BOOLEAN

TableTypes ==
    /\ neighbor_table \subseteq Block
    /\ addr \in [Block -> Addr \cup {NoAddr}]
    /\ used \in [Block -> BOOLEAN]
    /\ ctimer \in [Block -> BOOLEAN]

LEMMA TypeParts ==
  NodeTypeOK <=> /\ Flags /\ TableTypes
                 /\ timer_events \in 0..(3 + 3 * MaxSleeps)
                 /\ sleeps \in 0..MaxSleeps
  BY Zenon DEF NodeTypeOK, Flags, TableTypes

LEMMA NodeParts ==
  NodeInv <=> NodeTypeOK /\ TimersServed /\ TableSound /\ EventsBounded
  BY DEF NodeInv, NodeSound, TableSound

LEMMA NodeInitially == NodeInit => NodeInv
  <1> SUFFICES ASSUME NodeInit PROVE NodeInv
    OBVIOUS
  <1>1. Flags
    BY Zenon DEF NodeInit, Flags
  <1>2. /\ TableTypes /\ timer_events \in 0..(3 + 3 * MaxSleeps)
        /\ sleeps \in 0..MaxSleeps
    BY RmhbNodeAssumption DEF NodeInit, TableTypes, Block
  <1>3. TimersServed /\ TableSound /\ EventsBounded
    BY DEF NodeInit, TimersServed, TableSound, EventsBounded, One, Block
  <1> QED BY <1>1, <1>2, <1>3, NodeParts, TypeParts

(* An event timer posts its event. *)
LEMMA ExpiryStep ==
  NodeInv /\ (expire_beacon \/ expire_announce \/ expire_rt) => NodeInv'
  <1> SUFFICES ASSUME NodeInv, expire_beacon \/ expire_announce \/ expire_rt
               PROVE  NodeInv'
    OBVIOUS
  <1>0. NodeTypeOK /\ TimersServed /\ TableSound /\ EventsBounded
    BY NodeParts
  <1>1. /\ TableSound'
        /\ neighbor_table' = neighbor_table /\ addr' = addr /\ used' = used
        /\ ctimer' = ctimer /\ sleeps' = sleeps
        /\ disable_beacon' = disable_beacon /\ reset_scheduled' = reset_scheduled
    BY <1>0 DEF expire_beacon, expire_announce, expire_rt, tableVars, TableSound
  <1>2. TimersServed' /\ EventsBounded'
    BY <1>0 DEF expire_beacon, expire_announce, expire_rt, NodeTypeOK, TimersServed,
           EventsBounded, One
  <1>3. Flags'
    <2>1. beacon_timer' \in {beacon_timer, FALSE} /\ rt' \in {rt, FALSE}
          /\ announce_timer' \in {announce_timer, FALSE}
      BY DEF expire_beacon, expire_announce, expire_rt
    <2> QED BY <1>0, <1>1, <2>1, TypeParts, Zenon DEF Flags
  <1>4. timer_events' \in 0..(3 + 3 * MaxSleeps)
    <2>1. timer_events' \in Nat /\ sleeps \in 0..MaxSleeps
      BY <1>0, TypeParts DEF expire_beacon, expire_announce, expire_rt
    <2>2. One(beacon_timer') \in Nat /\ One(announce_timer') \in Nat
          /\ One(rt') \in Nat /\ One(reset_scheduled') \in Nat
      BY DEF One
    <2> QED BY <1>1, <1>2, <2>1, <2>2, RmhbNodeAssumption DEF EventsBounded
  <1>5. NodeTypeOK'
    <2>1. TableTypes' /\ sleeps' \in 0..MaxSleeps
      BY <1>0, <1>1, TypeParts DEF TableTypes
    <2> QED BY <1>3, <1>4, <2>1, Zenon DEF NodeTypeOK, Flags, TableTypes
  <1> QED BY <1>1, <1>2, <1>5, Zenon DEF NodeInv, NodeSound, TableSound

(* The thread takes an event; whichever branch it runs, the others still  *)
(* have theirs.                                                           *)
LEMMA EventStep == NodeInv /\ timer_event => NodeInv'
  <1> SUFFICES ASSUME NodeInv, timer_event PROVE NodeInv'
    OBVIOUS
  <1>0. NodeTypeOK /\ TimersServed /\ TableSound /\ EventsBounded
    BY NodeParts
  <1>1. /\ disable_beacon' = disable_beacon /\ addr' = addr /\ used' = used
        /\ ctimer' = ctimer /\ sleeps' = sleeps
        /\ timer_events > 0 /\ timer_events' = timer_events - 1
    BY DEF timer_event
  <1>2. CASE restart_node
    <2>1. TableSound'
      BY <1>0, <1>1, <1>2 DEF restart_node, initialise, TableSound
    <2>2. /\ beacon_timer' = (beacon_timer \/ ~ disable_beacon)
          /\ announce_timer' = TRUE /\ rt' = FALSE
          /\ reset_scheduled' = FALSE /\ neighbor_table' = {}
          /\ ~ rt /\ reset_scheduled
      BY <1>2 DEF restart_node, initialise
    <2>6. Flags'
      BY <1>0, <1>1, <2>2, TypeParts, Zenon DEF Flags
    <2>3. TimersServed' /\ EventsBounded'
      BY <1>0, <1>1, <2>2 DEF NodeTypeOK, TimersServed, EventsBounded, One
    <2>4. timer_events' \in 0..(3 + 3 * MaxSleeps)
      BY <1>0, <1>1, RmhbNodeAssumption DEF NodeTypeOK
    <2>5. NodeTypeOK'
      <3>1. TableTypes' /\ sleeps' \in 0..MaxSleeps
        BY <1>0, <1>1, <2>2, TypeParts DEF TableTypes
      <3> QED BY <2>4, <2>6, <3>1, Zenon DEF NodeTypeOK, Flags, TableTypes
    <2> QED BY <2>1, <2>3, <2>5, Zenon DEF NodeInv, NodeSound, TableSound
  <1>3. CASE ~ restart_node
    <2>1. /\ ~ (~ rt /\ reset_scheduled)
          /\ rt' = rt /\ reset_scheduled' = reset_scheduled
          /\ neighbor_table' = neighbor_table
          /\ \/ ~ announce_timer /\ announce_timer' = TRUE
                /\ beacon_timer' = beacon_timer
             \/ announce_timer /\ announce_timer' = announce_timer
                /\ ~ beacon_timer /\ ~ disable_beacon /\ beacon_timer' = TRUE
             \/ announce_timer /\ announce_timer' = announce_timer
                /\ beacon_timer' = beacon_timer /\ (beacon_timer \/ disable_beacon)
      BY <1>3 DEF timer_event, send_announce, send_beacon
    <2>2. TableSound'
      BY <1>0, <1>1, <2>1 DEF TableSound
    <2>3. TimersServed' /\ EventsBounded'
      BY <1>0, <1>1, <2>1 DEF NodeTypeOK, TimersServed, EventsBounded, One
    <2>4. timer_events' \in 0..(3 + 3 * MaxSleeps)
      BY <1>0, <1>1, RmhbNodeAssumption DEF NodeTypeOK
    <2>6. Flags'
      BY <1>0, <1>1, <2>1, TypeParts, Zenon DEF Flags
    <2>5. NodeTypeOK'
      <3>1. TableTypes' /\ sleeps' \in 0..MaxSleeps
        BY <1>0, <1>1, <2>1, TypeParts DEF TableTypes
      <3> QED BY <2>4, <2>6, <3>1, Zenon DEF NodeTypeOK, Flags, TableTypes
    <2> QED BY <2>2, <2>3, <2>5, Zenon DEF NodeInv, NodeSound, TableSound
  <1> QED BY <1>2, <1>3

(* Steps on the table leave the timers alone. *)
LEMMA TableStep ==
  ASSUME NodeInv, UNCHANGED <<etimerVars, disable_beacon, reset_scheduled, sleeps>>,
         neighbor_table' \subseteq Block, addr' \in [Block -> Addr \cup {NoAddr}],
         used' \in [Block -> BOOLEAN], ctimer' \in [Block -> BOOLEAN], TableSound'
  PROVE  NodeInv'
  <1>1. NodeTypeOK /\ TimersServed /\ EventsBounded
    BY NodeParts
  <1>2. Flags' /\ TableTypes'
    BY <1>1, TypeParts, Zenon DEF etimerVars, Flags, TableTypes
  <1>3. NodeTypeOK'
    <2>1. timer_events' \in 0..(3 + 3 * MaxSleeps) /\ sleeps' \in 0..MaxSleeps
      BY <1>1, TypeParts DEF etimerVars
    <2> QED BY <1>2, <2>1, Zenon DEF NodeTypeOK, Flags, TableTypes
  <1>4. TimersServed' /\ EventsBounded'
    BY <1>1 DEF etimerVars, TimersServed, EventsBounded
  <1> QED BY <1>3, <1>4, Zenon DEF NodeInv, NodeSound, TableSound

LEMMA AnnouncementStep ==
  ASSUME NodeInv, NEW a \in Addr, recv_announcement(a) PROVE NodeInv'
  <1>0. NodeTypeOK /\ TableSound
    BY NodeParts
  <1>1. CASE \E b \in Known(a) : /\ ctimer' = [ctimer EXCEPT ![b] = TRUE]
                                 /\ UNCHANGED <<neighbor_table, addr, used>>
    <2>1. PICK b \in Known(a) : /\ ctimer' = [ctimer EXCEPT ![b] = TRUE]
                                /\ UNCHANGED <<neighbor_table, addr, used>>
      BY <1>1
    <2>2. \A c \in Block : ctimer[c] => ctimer'[c]
      BY <1>0, <2>1 DEF NodeTypeOK
    <2>3. reset_scheduled' = reset_scheduled
      BY DEF recv_announcement
    <2>4. TableSound'
      BY <1>0, <2>1, <2>2, <2>3 DEF TableSound, NodeTypeOK
    <2>5. ctimer' \in [Block -> BOOLEAN]
      BY <1>0, <2>1 DEF NodeTypeOK
    <2> QED BY <1>0, <2>1, <2>4, <2>5, TableStep DEF recv_announcement, NodeTypeOK
  <1>2. CASE /\ Known(a) = {} /\ Free # {}
             /\ addr' = [addr EXCEPT ![FirstFree] = a]
             /\ used' = [used EXCEPT ![FirstFree] = TRUE]
             /\ neighbor_table' = neighbor_table \cup {FirstFree}
             /\ ctimer' = [ctimer EXCEPT ![FirstFree] = TRUE]
    <2> DEFINE f == FirstFree
    <2>1. f \in Block
      BY <1>2, FirstFreeIsFree
    <2> HIDE DEF f
    <2>2. /\ addr' \in [Block -> Addr \cup {NoAddr}] /\ addr'[f] = a
          /\ \A b \in Block : b # f => addr'[b] = addr[b]
          /\ used' \in [Block -> BOOLEAN] /\ used'[f]
          /\ \A b \in Block : b # f => used'[b] = used[b]
          /\ ctimer' \in [Block -> BOOLEAN] /\ ctimer'[f]
          /\ \A b \in Block : b # f => ctimer'[b] = ctimer[b]
          /\ neighbor_table' = neighbor_table \cup {f}
          /\ neighbor_table' \subseteq Block
      BY <1>0, <1>2, <2>1 DEF NodeTypeOK, f
    <2>3. \A b \in neighbor_table : addr[b] # a
      BY <1>2 DEF Known
    <2>4. reset_scheduled' = reset_scheduled
      BY DEF recv_announcement
    <2>5. TableSound'
      <3>1. \A b, c \in neighbor_table' : addr'[b] = addr'[c] => b = c
        BY <1>0, <2>2, <2>3 DEF TableSound, NodeTypeOK
      <3>2. ~ reset_scheduled' => \A b \in neighbor_table' : used'[b] /\ ctimer'[b]
        BY <1>0, <2>2, <2>4 DEF TableSound, NodeTypeOK
      <3>3. \A b \in Block : used'[b] => ctimer'[b]
        BY <1>0, <2>2 DEF TableSound
      <3> QED BY <3>1, <3>2, <3>3 DEF TableSound
    <2> QED BY <2>2, <2>5, TableStep DEF recv_announcement
  <1> QED BY <1>1, <1>2 DEF recv_announcement

LEMMA RemovalStep ==
  ASSUME NodeInv, NEW b \in Block, remove_neighbor(b) PROVE NodeInv'
  <1>0. NodeTypeOK /\ TableSound
    BY NodeParts
  <1>1. /\ ctimer' \in [Block -> BOOLEAN] /\ used' \in [Block -> BOOLEAN]
        /\ ~ used'[b] /\ addr' = addr /\ neighbor_table' = neighbor_table \ {b}
        /\ \A c \in Block : c # b => used'[c] = used[c] /\ ctimer'[c] = ctimer[c]
        /\ reset_scheduled' = reset_scheduled
    BY <1>0 DEF remove_neighbor, NodeTypeOK
  <1>2. TableSound'
    BY <1>0, <1>1 DEF TableSound, NodeTypeOK
  <1> QED BY <1>0, <1>1, <1>2, TableStep DEF remove_neighbor, NodeTypeOK

LEMMA CommandStep ==
  NodeInv /\ (serial_sleep \/ serial_disable_beacon) => NodeInv'
  <1> SUFFICES ASSUME NodeInv, serial_sleep \/ serial_disable_beacon
               PROVE  NodeInv'
    OBVIOUS
  <1>0. NodeTypeOK /\ TimersServed /\ TableSound /\ EventsBounded
    BY NodeParts
  <1>1. CASE serial_sleep
    <2>1. /\ used' \in [Block -> BOOLEAN] /\ sleeps' \in 0..MaxSleeps
          /\ \A b \in Block : used'[b] => used[b]
      BY <1>0, <1>1, RmhbNodeAssumption DEF serial_sleep, NodeTypeOK
    <2>2. NodeTypeOK'
      BY <1>0, <1>1, <2>1 DEF serial_sleep, NodeTypeOK
    <2>3. TableSound'
      BY <1>0, <1>1, <2>1 DEF serial_sleep, TableSound
    <2>4. TimersServed' /\ EventsBounded'
      BY <1>0, <1>1 DEF serial_sleep, NodeTypeOK, TimersServed, EventsBounded, One
    <2> QED BY <2>2, <2>3, <2>4, Zenon DEF NodeInv, NodeSound, TableSound
  <1>2. CASE serial_disable_beacon
    <2>1. NodeTypeOK' /\ TableSound'
      BY <1>0, <1>2 DEF serial_disable_beacon, NodeTypeOK, TableSound, tableVars
    <2>2. TimersServed' /\ EventsBounded'
      BY <1>0, <1>2 DEF serial_disable_beacon, NodeTypeOK, TimersServed,
                        EventsBounded, One
    <2> QED BY <2>1, <2>2, Zenon DEF NodeInv, NodeSound, TableSound
  <1> QED BY <1>1, <1>2

(* No timer of the node dies although its events are not told apart; its  *)
(* table holds a neighbor once, in blocks that are allocated and timed     *)
(* while it is awake; and no block is lost across sleeps and restarts.     *)
THEOREM NodeStaysSound == NodeSpec => []NodeSound
  <1>1. NodeInv /\ [NodeNext]_nodeVars => NodeInv'
    <2> SUFFICES ASSUME NodeInv, [NodeNext]_nodeVars PROVE NodeInv'
      OBVIOUS
    <2>1. CASE UNCHANGED nodeVars
      BY <2>1 DEF nodeVars, etimerVars, tableVars, NodeInv, NodeSound, NodeTypeOK,
                  TimersServed, EventsBounded
    <2>2. CASE NodeNext
      BY <2>2, ExpiryStep, EventStep, AnnouncementStep, RemovalStep, CommandStep
         DEF NodeNext
    <2> QED BY <2>1, <2>2
  <1>2. NodeInv => NodeSound
    BY DEF NodeInv
  <1> QED BY <1>1, <1>2, NodeInitially, PTL DEF NodeSpec
==============================================================================
