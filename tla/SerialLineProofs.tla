--------------------------- MODULE SerialLineProofs ---------------------------
(***************************************************************************)
(* Proofs about the ring buffer, for every size and every set of bytes:    *)
(* the inductive invariant RingInv, and that the two lock-free operations  *)
(* implement a bounded FIFO.  Every step of serial-line.c is a step of its *)
(* ring buffer or leaves it alone, so that the same holds under it,        *)
(* however fast bytes are typed; and no line is spliced or overwritten     *)
(* before it was read.                                                     *)
(***************************************************************************)
EXTENDS SerialLine, SequenceTheorems, TLAPS

(* What "& mask" does to the sums and differences of two indices. *)
LEMMA MaskedRange == \A x \in Int : Masked(x) \in Slot
  BY SizeAssumption DEF Masked, Slot

LEMMA MaskedSmall == \A x \in Slot : Masked(x) = x
  BY SizeAssumption DEF Masked, Slot

LEMMA MaskedWrap == \A x \in Size..(2 * Size - 1) : Masked(x) = x - Size
  BY SizeAssumption DEF Masked, Slot

LEMMA MaskedNeg == \A x \in (-Size)..(-1) : Masked(x) = x + Size
  BY SizeAssumption DEF Masked, Slot

(* The fill level of a ring with writer index p and reader index g. *)
LEMMA Elements ==
  ASSUME NEW p \in Slot, NEW g \in Slot
  PROVE  Masked(p - g) = IF p >= g THEN p - g ELSE p - g + Size
  <1>1. CASE p >= g
    BY <1>1, MaskedSmall, SizeAssumption DEF Slot
  <1>2. CASE p < g
    BY <1>2, MaskedNeg, SizeAssumption DEF Slot
  <1> QED BY <1>1, <1>2 DEF Slot

(* The index that follows p. *)
LEMMA Successor ==
  ASSUME NEW p \in Slot
  PROVE  Masked(p + 1) = IF p = mask THEN 0 ELSE p + 1
  <1>1. CASE p = mask
    BY <1>1, MaskedWrap, SizeAssumption DEF Slot, mask
  <1>2. CASE p # mask
    BY <1>2, MaskedSmall, SizeAssumption DEF Slot, mask
  <1> QED BY <1>1, <1>2

(* A put that does not find the ring full adds one element. *)
LEMMA PutAddsOne ==
  ASSUME NEW p \in Slot, NEW g \in Slot, Masked(p - g) < mask
  PROVE  Masked(Masked(p + 1) - g) = Masked(p - g) + 1
  <1>1. Masked(p + 1) \in Slot
    BY MaskedRange, SizeAssumption DEF Slot
  <1>2. Masked(p - g) = IF p >= g THEN p - g ELSE p - g + Size
    BY Elements
  <1>3. Masked(Masked(p + 1) - g) =
          IF Masked(p + 1) >= g THEN Masked(p + 1) - g
                                ELSE Masked(p + 1) - g + Size
    BY <1>1, Elements
  <1> QED BY <1>2, <1>3, Successor, SizeAssumption DEF Slot, mask

(* A get that does not find the ring empty removes one element. *)
LEMMA GetRemovesOne ==
  ASSUME NEW p \in Slot, NEW g \in Slot, Masked(p - g) > 0
  PROVE  Masked(p - Masked(g + 1)) = Masked(p - g) - 1
  <1>1. Masked(g + 1) \in Slot
    BY MaskedRange, SizeAssumption DEF Slot
  <1>2. Masked(p - g) = IF p >= g THEN p - g ELSE p - g + Size
    BY Elements
  <1>3. Masked(p - Masked(g + 1)) =
          IF p >= Masked(g + 1) THEN p - Masked(g + 1)
                                ELSE p - Masked(g + 1) + Size
    BY <1>1, Elements
  <1> QED BY <1>2, <1>3, Successor, SizeAssumption DEF Slot, mask

------------------------------------------------------------------------------
(* RingInv is an inductive invariant. *)
LEMMA RingInit == Init => RingInv
  BY SizeAssumption
     DEF Init, ringbuf_init, RingInv, TypeOK, Handover, Slot

LEMMA RingStep == RingInv /\ [Next]_vars => RingInv'
  <1> SUFFICES ASSUME RingInv, [Next]_vars PROVE RingInv'
    OBVIOUS
  <1> USE DEF RingInv, TypeOK
  <1>0. ringbuf_elements \in Slot
    BY MaskedRange, SizeAssumption DEF ringbuf_elements, Slot
  <1>1. ASSUME NEW v \in Byte, put_test(v) PROVE RingInv'
    <2>1. TypeOK'
      BY <1>1 DEF put_test, getVars
    <2>2. Handover'
      BY <1>0, <1>1, SizeAssumption
         DEF put_test, Handover, ringbuf_elements, getVars, Slot, mask, full
    <2> QED BY <2>1, <2>2
  <1>2. CASE put_data
    <2>1. TypeOK'
      BY <1>2 DEF put_data, getVars
    <2>2. put_ptr # get_ptr \/ ringbuf_elements = 0
      BY MaskedSmall, SizeAssumption DEF ringbuf_elements, Slot
    <2>3. Handover'
      BY <1>2, <2>2 DEF put_data, Handover, ringbuf_elements, getVars
    <2> QED BY <2>1, <2>3
  <1>3. CASE put_advance
    <2>1. TypeOK'
      BY <1>3, MaskedRange, SizeAssumption DEF put_advance, getVars, Slot
    <2>2. ringbuf_elements' = ringbuf_elements + 1
      BY <1>3, PutAddsOne DEF put_advance, Handover, ringbuf_elements, getVars
    <2>3. Handover'
      BY <1>0, <1>3, <2>2 DEF put_advance, Handover, getVars, Slot, mask
    <2> QED BY <2>1, <2>3
  <1>4. CASE get_test
    BY <1>0, <1>4, SizeAssumption
       DEF get_test, Handover, ringbuf_elements, putVars, Slot
  <1>5. CASE get_data
    BY <1>5 DEF get_data, Handover, ringbuf_elements, putVars
  <1>6. CASE get_advance
    <2>1. TypeOK'
      BY <1>6, MaskedRange, SizeAssumption DEF get_advance, putVars, Slot
    <2>2. ringbuf_elements' = ringbuf_elements - 1
      BY <1>6, GetRemovesOne DEF get_advance, Handover, ringbuf_elements, putVars
    <2>3. Handover'
      BY <1>0, <1>6, <2>2, SizeAssumption
         DEF get_advance, Handover, putVars, Slot, mask
    <2> QED BY <2>1, <2>3
  <1>7. CASE UNCHANGED vars
    BY <1>7 DEF vars, Handover, ringbuf_elements
  <1> QED
    BY <1>1, <1>2, <1>3, <1>4, <1>5, <1>6, <1>7
       DEF Next, ringbuf_put, ringbuf_get

(* Neither side of the lock-free ring buffer is overtaken by the other     *)
(* between its full/empty test and the store of its index (RingInv), for   *)
(* every size.                                                             *)
THEOREM HandoverSafe == Spec => []RingInv
  BY RingInit, RingStep, PTL DEF Spec

------------------------------------------------------------------------------
(* The writer's slot lies just behind the stored bytes, and is none of the *)
(* slots that hold them.                                                   *)
LEMMA SlotBehind ==
  ASSUME NEW p \in Slot, NEW g \in Slot
  PROVE  Masked(g + Masked(p - g)) = p
  <1>1. CASE p >= g
    BY <1>1, Elements, MaskedSmall, SizeAssumption DEF Slot
  <1>2. CASE p < g
    BY <1>2, Elements, MaskedWrap, SizeAssumption DEF Slot
  <1> QED BY <1>1, <1>2 DEF Slot

LEMMA LiveSlot ==
  ASSUME NEW p \in Slot, NEW g \in Slot, NEW i \in 1..Masked(p - g)
  PROVE  Masked(g + i - 1) \in Slot /\ Masked(g + i - 1) # p
  <1>1. Masked(p - g) \in Slot
    BY MaskedRange, SizeAssumption DEF Slot
  <1>2. Masked(p - g) = IF p >= g THEN p - g ELSE p - g + Size
    BY Elements
  <1>3. CASE g + i - 1 < Size
    BY <1>1, <1>2, <1>3, MaskedSmall, SizeAssumption DEF Slot
  <1>4. CASE g + i - 1 >= Size
    BY <1>1, <1>2, <1>4, MaskedWrap, SizeAssumption DEF Slot
  <1> QED BY <1>1, <1>3, <1>4, SizeAssumption DEF Slot

(* Stepping the reader's index shifts the window on the stored bytes. *)
LEMMA Shift ==
  ASSUME NEW g \in Slot, NEW i \in 1..mask
  PROVE  Masked(Masked(g + 1) + i - 1) = Masked(g + i)
  <1>1. CASE g = mask
    <2>1. Masked(g + 1) = 0 /\ g + i \in Size..(2 * Size - 1)
      BY <1>1, Successor, SizeAssumption DEF Slot, mask
    <2>2. Masked(g + i) = g + i - Size
      BY <2>1, MaskedWrap, SizeAssumption DEF Slot, mask
    <2>3. Masked(i - 1) = i - 1
      BY MaskedSmall, SizeAssumption DEF Slot, mask
    <2> QED BY <1>1, <2>1, <2>2, <2>3, SizeAssumption DEF Slot, mask
  <1>2. CASE g # mask
    <2>1. Masked(g + 1) = g + 1
      BY <1>2, Successor
    <2>2. Masked(g + 1) + i - 1 = g + i
      BY <2>1, SizeAssumption DEF Slot, mask
    <2> QED BY <2>2
  <1> QED BY <1>1, <1>2

(* The bytes of a ring with data d, writer index p and reader index g.     *)
Window(d, p, g) == [i \in 1..Masked(p - g) |-> d[Masked(g + i - 1)]]

LEMMA WindowLen ==
  ASSUME NEW d \in [Slot -> Byte], NEW p \in Slot, NEW g \in Slot
  PROVE  /\ Window(d, p, g) \in Seq(Byte)
         /\ Len(Window(d, p, g)) = Masked(p - g)
         /\ Masked(p - g) \in Nat
  <1>1. Masked(p - g) \in Nat
    BY MaskedRange, SizeAssumption DEF Slot
  <1>2. \A i \in 1..Masked(p - g) : d[Masked(g + i - 1)] \in Byte
    BY LiveSlot
  <1>3. Window(d, p, g) \in [1..Masked(p - g) -> Byte]
    BY <1>2 DEF Window
  <1>4. Window(d, p, g) \in Seq(Byte)
    BY <1>1, <1>3, SeqDef
  <1>5. DOMAIN Window(d, p, g) = 1..Masked(p - g)
    BY DEF Window
  <1> QED BY <1>1, <1>4, <1>5, LenProperties

(* Advancing the writer's index appends the byte in its slot, *)
LEMMA WindowPut ==
  ASSUME NEW d \in [Slot -> Byte], NEW p \in Slot, NEW g \in Slot,
         Masked(p - g) < mask
  PROVE  Window(d, Masked(p + 1), g) = Append(Window(d, p, g), d[p])
  <1> DEFINE n == Masked(p - g)
             w == Window(d, p, g)
             w1 == Window(d, Masked(p + 1), g)
  <1>1. Masked(p + 1) \in Slot /\ Masked(Masked(p + 1) - g) = n + 1
    BY PutAddsOne, MaskedRange, SizeAssumption DEF Slot
  <1>2. w \in Seq(Byte) /\ Len(w) = n /\ n \in Nat
    BY WindowLen
  <1>3. w1 \in Seq(Byte) /\ Len(w1) = n + 1
    BY <1>1, WindowLen
  <1>4. d[p] \in Byte
    OBVIOUS
  <1>5. /\ Append(w, d[p]) \in Seq(Byte)
        /\ Len(Append(w, d[p])) = n + 1
        /\ \A i \in 1..n : Append(w, d[p])[i] = w[i]
        /\ Append(w, d[p])[n + 1] = d[p]
    BY <1>2, <1>4, AppendProperties
  <1>6. ASSUME NEW i \in 1..(n + 1) PROVE w1[i] = Append(w, d[p])[i]
    <2>1. w1[i] = d[Masked(g + i - 1)]
      BY <1>1 DEF Window
    <2>2. CASE i = n + 1
      <3>1. g + i - 1 = g + n
        BY <1>2, <2>2 DEF Slot
      <3> QED BY <2>1, <2>2, <3>1, <1>5, SlotBehind
    <2>3. CASE i # n + 1
      <3>1. i \in 1..n
        BY <1>2, <2>3
      <3> QED BY <2>1, <3>1, <1>5 DEF Window
    <2> QED BY <2>2, <2>3
  <1> HIDE DEF w, w1, n
  <1>7. w1 = Append(w, d[p])
    BY <1>3, <1>5, <1>6, SeqEqual
  <1> QED BY <1>7 DEF w, w1

(* and advancing the reader's drops the byte in its slot. *)
LEMMA WindowGet ==
  ASSUME NEW d \in [Slot -> Byte], NEW p \in Slot, NEW g \in Slot,
         Masked(p - g) > 0
  PROVE  /\ Window(d, p, g) # <<>>
         /\ Window(d, p, Masked(g + 1)) = Tail(Window(d, p, g))
         /\ Head(Window(d, p, g)) = d[g]
  <1> DEFINE n == Masked(p - g)
             w == Window(d, p, g)
             w1 == Window(d, p, Masked(g + 1))
  <1>1. Masked(g + 1) \in Slot /\ Masked(p - Masked(g + 1)) = n - 1
    BY GetRemovesOne, MaskedRange, SizeAssumption DEF Slot
  <1>2. w \in Seq(Byte) /\ Len(w) = n /\ n \in Nat /\ n > 0 /\ n \in Slot
    <2>1. p \in Int /\ g \in Int /\ p - g \in Int
      BY SizeAssumption DEF Slot
    <2>2. n \in Slot
      BY <2>1, MaskedRange
    <2>3. n \in Nat
      BY <2>2, SizeAssumption DEF Slot
    <2>4. w \in Seq(Byte) /\ Len(w) = n
      BY WindowLen
    <2> QED BY <2>2, <2>3, <2>4
  <1>3. w1 \in Seq(Byte) /\ Len(w1) = n - 1
    BY <1>1, WindowLen
  <1>4. w # <<>>
    BY <1>2
  <1>5. /\ Tail(w) \in Seq(Byte)
        /\ Len(Tail(w)) = n - 1
        /\ \A i \in 1..(n - 1) : Tail(w)[i] = w[i + 1]
    BY <1>2, <1>4, HeadTailProperties
  <1>6. ASSUME NEW i \in 1..(n - 1) PROVE w1[i] = Tail(w)[i]
    <2>1. w1[i] = d[Masked(Masked(g + 1) + i - 1)]
      BY <1>1 DEF Window
    <2>2. i \in 1..mask /\ i + 1 \in 1..n /\ g + (i + 1) - 1 = g + i
      BY <1>2, SizeAssumption DEF Slot, mask
    <2>3. w[i + 1] = d[Masked(g + i)]
      BY <2>2 DEF Window
    <2> QED BY <2>1, <2>2, <2>3, <1>5, Shift
  <1>7. w[1] = d[g]
    <2>1. Masked(g + 1 - 1) = g
      BY MaskedSmall, SizeAssumption DEF Slot
    <2>2. w[1] = d[Masked(g + 1 - 1)]
      BY <1>2 DEF Window
    <2> QED BY <2>1, <2>2
  <1> HIDE DEF w, w1, n
  <1>8. w1 = Tail(w)
    BY <1>3, <1>5, <1>6, SeqEqual
  <1>9. Head(w) = w[1]
    BY <1>2, <1>4
  <1> QED BY <1>4, <1>7, <1>8, <1>9 DEF w, w1

(* What the steps do to the sequence of stored bytes. *)
LEMMA ContentsLen ==
  ASSUME RingInv
  PROVE  Len(Contents) = ringbuf_elements /\ Contents \in Seq(Byte)
  BY WindowLen DEF RingInv, TypeOK, Contents, Window, ringbuf_elements

LEMMA ContentsPut ==
  ASSUME RingInv, put_advance
  PROVE  /\ Contents' = Append(Contents, arg)
         /\ Len(Contents) < mask
  <1>1. /\ Masked(put_ptr - get_ptr) < mask
        /\ data[put_ptr] = arg
        /\ put_ptr \in Slot /\ get_ptr \in Slot /\ data \in [Slot -> Byte]
    BY DEF RingInv, TypeOK, Handover, put_advance, ringbuf_elements
  <1>2. Contents = Window(data, put_ptr, get_ptr)
    BY DEF Contents, Window, ringbuf_elements
  <1>3. Contents' = Window(data, Masked(put_ptr + 1), get_ptr)
    BY DEF Contents, Window, ringbuf_elements, put_advance, getVars
  <1> QED BY <1>1, <1>2, <1>3, WindowPut, WindowLen

LEMMA ContentsGet ==
  ASSUME RingInv, get_advance
  PROVE  /\ Contents # <<>>
         /\ Contents' = Tail(Contents)
         /\ c = Head(Contents)
  <1>1. /\ Masked(put_ptr - get_ptr) > 0
        /\ data[get_ptr] = c
        /\ put_ptr \in Slot /\ get_ptr \in Slot /\ data \in [Slot -> Byte]
    BY DEF RingInv, TypeOK, Handover, get_advance, ringbuf_elements
  <1>2. Contents = Window(data, put_ptr, get_ptr)
    BY DEF Contents, Window, ringbuf_elements
  <1>3. Contents' = Window(data, put_ptr, Masked(get_ptr + 1))
    BY DEF Contents, Window, ringbuf_elements, get_advance, putVars
  <1> QED BY <1>1, <1>2, <1>3, WindowGet

LEMMA ContentsData ==
  ASSUME RingInv, put_data
  PROVE  Contents' = Contents
  <1> USE DEF RingInv, TypeOK
  <1>1. \A i \in 1..ringbuf_elements :
          data'[Masked(get_ptr + i - 1)] = data[Masked(get_ptr + i - 1)]
    BY LiveSlot DEF put_data, ringbuf_elements
  <1>2. ringbuf_elements' = ringbuf_elements /\ get_ptr' = get_ptr
    BY DEF put_data, ringbuf_elements, getVars
  <1> QED BY <1>1, <1>2 DEF Contents

(* Every step of the ring buffer is a step of the bounded FIFO, or changes *)
(* nothing that its users see.                                             *)
LEMMA FifoStep == RingInv /\ [Next]_vars => [Fifo!Next]_(Fifo!vars)
  <1> SUFFICES ASSUME RingInv, [Next]_vars PROVE [Fifo!Next]_(Fifo!vars)
    OBVIOUS
  <1> USE DEF Fifo!Next, Fifo!vars
  <1>1. ASSUME NEW v \in Byte, put_test(v) PROVE [Fifo!Next]_(Fifo!vars)
    <2>1. Contents' = Contents /\ got' = got
      BY <1>1 DEF put_test, Contents, ringbuf_elements, getVars
    <2>2. CASE full
      BY <1>1, <2>1, <2>2, ContentsLen DEF put_test, full, Fifo!PutFull
    <2>3. CASE ~full
      BY <1>1, <2>1, <2>3 DEF put_test
    <2> QED BY <2>2, <2>3
  <1>2. CASE put_data
    BY <1>2, ContentsData DEF put_data, getVars
  <1>3. CASE put_advance
    <2>1. arg \in Byte
      BY DEF RingInv, TypeOK
    <2>2. Fifo!Put(arg)
      BY <1>3, ContentsPut DEF put_advance, getVars, Fifo!Put
    <2> QED BY <2>1, <2>2
  <1>4. CASE get_test
    <2>1. Contents' = Contents /\ put_ret' = put_ret
      BY <1>4 DEF get_test, Contents, ringbuf_elements, putVars
    <2>2. CASE ringbuf_elements > 0
      BY <1>4, <2>1, <2>2 DEF get_test
    <2>3. CASE ~(ringbuf_elements > 0)
      <3>1. ringbuf_elements = 0
        BY <2>3, MaskedRange, SizeAssumption
           DEF RingInv, TypeOK, ringbuf_elements, Slot
      <3>2. Contents = <<>>
        BY <3>1, ContentsLen
      <3> QED BY <1>4, <2>1, <2>3, <3>2 DEF get_test, Fifo!GetEmpty
    <2> QED BY <2>2, <2>3
  <1>5. CASE get_data
    BY <1>5 DEF get_data, Contents, ringbuf_elements, putVars
  <1>6. CASE get_advance
    <2>1. Fifo!Get
      BY <1>6, ContentsGet DEF get_advance, putVars, Fifo!Get
    <2> QED BY <2>1
  <1>7. CASE UNCHANGED vars
    BY <1>7 DEF vars, Contents, ringbuf_elements
  <1> QED
    BY <1>1, <1>2, <1>3, <1>4, <1>5, <1>6, <1>7
       DEF Next, ringbuf_put, ringbuf_get

(* ringbuf_put() and ringbuf_get(), run by an interrupt handler and a      *)
(* process without a lock, implement a bounded FIFO of Size - 1 bytes.     *)
THEOREM RingbufIsFifo == Spec => ImplementsFifo
  <1>1. Init => Fifo!Init
    <2> SUFFICES ASSUME Init PROVE Fifo!Init
      OBVIOUS
    <2>1. Contents = <<>>
      <3>1. ringbuf_elements = 0
        BY MaskedSmall, SizeAssumption
           DEF Init, ringbuf_init, ringbuf_elements, Slot
      <3> QED BY <3>1, RingInit, ContentsLen
    <2> QED BY <2>1 DEF Init, Fifo!Init
  <1> QED
    BY <1>1, RingInit, RingStep, FifoStep, PTL
       DEF Spec, ImplementsFifo, Fifo!Spec

------------------------------------------------------------------------------
(* The serial line over the ring buffer. *)
TypedSoFar == typed \in (1..(MaxLines + 1)) \X (0..MaxColumns)

(* What the interrupt types is a byte of the ring buffer. *)
LEMMA TypedBytes ==
  ASSUME NEW b \in Char \cup {END}, serial_line_input_byte(b)
  PROVE  [ringbuf_put]_vars
  BY SerialLineAssumption DEF serial_line_input_byte, ringbuf_put

LEMMA TypeChar ==
  ASSUME TypedSoFar, type_char
  PROVE  /\ [ringbuf_put]_vars
         /\ TypedSoFar'
  <1>1. /\ typed' \in Char
        /\ TypedSoFar'
    BY SerialLineAssumption DEF type_char, Char, TypedSoFar
  <1> QED BY <1>1, TypedBytes DEF type_char

LEMMA TypeEnd ==
  ASSUME TypedSoFar, type_end
  PROVE  /\ [ringbuf_put]_vars
         /\ TypedSoFar'
  <1>1. TypedSoFar'
    BY SerialLineAssumption DEF type_end, TypedSoFar
  <1> QED BY <1>1, TypedBytes DEF type_end

LEMMA RingOrNothing ==
  TypedSoFar /\ [LineNext]_<<vars, lineVars>> => [Next]_vars /\ TypedSoFar'
  <1> SUFFICES ASSUME TypedSoFar, [LineNext]_<<vars, lineVars>>
               PROVE  [Next]_vars /\ TypedSoFar'
    OBVIOUS
  <1>1. CASE type_char
    BY <1>1, TypeChar DEF Next
  <1>2. CASE type_end
    BY <1>2, TypeEnd DEF Next
  <1>3. CASE Interrupt
    BY <1>3 DEF Interrupt, input_store, input_accepted, Next, ringbuf_put,
                lineVars, inputVars, TypedSoFar
  <1>4. CASE Process
    BY <1>4 DEF Process, get_begin, yield, get_load, get_char, get_end, Next,
                ringbuf_get, lineVars, inputVars, TypedSoFar
  <1>5. CASE do_poll \/ do_event \/ post_other
    BY <1>5 DEF do_poll, do_event, post_other, inputVars, TypedSoFar
  <1>6. CASE UNCHANGED <<vars, lineVars>>
    BY <1>6 DEF lineVars, inputVars, TypedSoFar
  <1> QED BY <1>1, <1>2, <1>3, <1>4, <1>5, <1>6 DEF LineNext

LEMMA LineUsesRing == LineSpec => Spec
  <1>1. LineInit => Init /\ TypedSoFar
    BY SerialLineAssumption DEF LineInit, TypedSoFar
  <1> QED BY <1>1, RingOrNothing, PTL DEF LineSpec, Spec

(* Under serial-line.c the interrupt and the process never meet in a slot  *)
(* of the ring buffer, whatever is typed and whenever.                     *)
THEOREM LineHandover == LineSpec => []RingInv
  BY LineUsesRing, HandoverSafe, PTL

(* The bytes come out of the ring buffer once, in order, and a byte is     *)
(* refused only when the buffer is full.                                   *)
THEOREM LineFifo == LineSpec => ImplementsFifo
  BY LineUsesRing, RingbufIsFifo, PTL

------------------------------------------------------------------------------
(* The lines.  A byte that the driver takes from the ring buffer continues *)
(* the one before it: it ends the line, or it is the next of its columns.  *)
Continues(x, y) == y = END \/ (y[2] = x[2] + 1 /\ (x = END \/ y[1] = x[1]))

(* The byte before place n of the line buffer. *)
Prev(b, n) == IF n = 0 THEN END ELSE b[n - 1]

(* The bytes s follow one another, and the first n of the line buffer b,   *)
(* unless that is full and the rest of the line is thrown away.            *)
Chain(s, b, n) ==
    /\ s \in Seq(Char \cup {END})
    /\ \A i \in 1..(Len(s) - 1) : Continues(s[i], s[i + 1])
    /\ s # <<>> /\ n < BufSize - 1 => Continues(Prev(b, n), s[1])

(* The last byte that was put in is x. *)
EndsWith(s, b, n, x) ==
    /\ s # <<>> => s[Len(s)] = x
    /\ s = <<>> /\ n < BufSize - 1 => Prev(b, n) = x

(* The first n bytes of the line buffer are the beginning of one line. *)
Prefix(b, n) ==
    \A i \in 0..(n - 1) :
      b[i] \in Char /\ b[i][1] = b[0][1] /\ b[i][2] = i + 1

(* The bytes on their way: those in the ring buffer, and the one that the  *)
(* interrupt is about to add.                                              *)
Stream == IF producer = "idle" THEN Contents ELSE Append(Contents, arg)

(* The length of the line in the buffer: when the process waits, ptr has   *)
(* passed the zero; and the place where the next byte goes.                *)
Stored == IF thread = "wait" THEN ptr - 1 ELSE ptr
At == IF thread = "wait" THEN 0 ELSE ptr

(* The last byte that was typed. *)
Latest == IF typed[2] = 0 THEN END ELSE typed

BufferSound ==
    /\ thread \in {"run", "empty", "yield", "wait"}
    /\ ptr \in 0..BufSize /\ Stored \in 0..(BufSize - 1)
    /\ buf \in [Slot -> Char \cup {NUL}] /\ buf[BufSize - 1] = NUL
    /\ thread = "wait" => buf[Stored] = NUL
    /\ Prefix(buf, Stored)

(* As long as nothing of a line is lost, the stream ends where the typing  *)
(* is; when something is, nothing is put in before the end of a line.      *)
StreamSound ==
    /\ Chain(Stream, buf, At)
    /\ ~overflow \/ producer # "idle" => EndsWith(Stream, buf, At, Latest)

Event == [ev : {"LINE", "CONTINUE", "OTHER"}, text : Seq(Char)]

(* While the process waits, the event it waits for is in the queue, right  *)
(* behind the line that it broadcast, which is what the buffer says.       *)
Awaited(q, b) ==
    \E k \in 1..Len(q) :
      /\ q[k] = Other("CONTINUE")
      /\ k > 1 => q[k - 1] = Line(String(b)) /\ Len(q) <= NumEvents
      /\ k = 1 => Len(q) <= NumEvents - 1
      /\ \A i \in 1..Len(q) : i < k - 1 \/ i > k => q[i] = Other("OTHER")

Foreign(q) ==
    /\ \A i \in 1..Len(q) : q[i] = Other("OTHER")
    /\ Len(q) <= NumEvents - 2

QueueSound ==
    /\ queue \in Seq(Event)
    /\ thread = "wait" => Awaited(queue, buf)
    /\ thread # "wait" => Foreign(queue)

(* A text that is the beginning of one typed line. *)
Beginning(t) ==
    \A i \in DOMAIN t :
      t[i] \in Char /\ t[i][1] = t[1][1] /\ t[i][2] = i

HandledSound ==
    Beginning(handled.read) /\ handled.read = handled.posted

LineInv ==
    RingInv /\ TypedSoFar /\ BufferSound /\ StreamSound /\ QueueSound
    /\ HandledSound

(* The other processes leave two places in the event queue: one for the    *)
(* line, and one for the event behind it.                                  *)
RoomForLine == Reserve >= 2

LEMMA CharFacts ==
  /\ \A x \in Char : x[1] \in 1..MaxLines /\ x[2] \in 1..MaxColumns
  /\ \A x \in Char : x # END /\ x # NUL /\ x \in Byte
  /\ END[1] = 0 /\ END[2] = 0 /\ END \in Byte /\ NUL \in Byte /\ END # NUL
  /\ BufSize \in Nat /\ BufSize >= 2 /\ BufSize - 1 \in Slot /\ 0 \in Slot
  BY SerialLineAssumption, SizeAssumption DEF Char, END, NUL, BufSize, Slot

(* A byte that continues the last one is added, *)
LEMMA ChainPut ==
  ASSUME NEW s, NEW b, NEW n, NEW x, NEW y \in Char \cup {END},
         Chain(s, b, n), y = END \/ (EndsWith(s, b, n, x) /\ Continues(x, y))
  PROVE  Chain(Append(s, y), b, n) /\ EndsWith(Append(s, y), b, n, y)
  <1> DEFINE t == Append(s, y)
  <1>1. /\ s \in Seq(Char \cup {END}) /\ Len(s) \in Nat
        /\ \A i \in 1..(Len(s) - 1) : Continues(s[i], s[i + 1])
        /\ s # <<>> /\ n < BufSize - 1 => Continues(Prev(b, n), s[1])
    BY DEF Chain
  <1>2. /\ t \in Seq(Char \cup {END}) /\ Len(t) = Len(s) + 1
        /\ \A i \in 1..Len(s) : t[i] = s[i]
        /\ t[Len(s) + 1] = y
    BY <1>1, AppendProperties
  <1>3. s # <<>> <=> Len(s) > 0
    BY <1>1
  <1> HIDE DEF t
  <1>4. ASSUME NEW i \in 1..(Len(t) - 1) PROVE Continues(t[i], t[i + 1])
    <2>1. CASE i = Len(s)
      BY <1>1, <1>2, <1>3, <2>1 DEF EndsWith, Continues
    <2>2. CASE i # Len(s)
      BY <1>1, <1>2, <2>2
    <2> QED BY <2>1, <2>2
  <1>5. ASSUME n < BufSize - 1 PROVE Continues(Prev(b, n), t[1])
    <2>1. CASE s = <<>>
      <3>1. t[1] = y
        BY <1>1, <1>2, <1>3, <2>1
      <3> QED BY <1>5, <2>1, <3>1 DEF EndsWith, Continues
    <2>2. CASE s # <<>>
      BY <1>1, <1>2, <1>3, <1>5, <2>2
    <2> QED BY <2>1, <2>2
  <1>6. t # <<>>
    BY <1>1, <1>2
  <1>7. Chain(t, b, n) /\ EndsWith(t, b, n, y)
    BY <1>1, <1>2, <1>4, <1>5, <1>6 DEF Chain, EndsWith
  <1> QED BY <1>7 DEF t

(* and the first is taken, to be the byte before place m of the buffer d,  *)
(* or to be thrown away.                                                   *)
LEMMA ChainGet ==
  ASSUME NEW s, NEW b, NEW n, NEW d, NEW m, NEW x,
         Chain(s, b, n), s # <<>>,
         m < BufSize - 1 => Prev(d, m) = Head(s)
  PROVE  /\ Chain(Tail(s), d, m)
         /\ EndsWith(s, b, n, x) => EndsWith(Tail(s), d, m, x)
  <1> DEFINE t == Tail(s)
  <1>1. /\ s \in Seq(Char \cup {END}) /\ Len(s) \in Nat /\ Len(s) > 0
        /\ \A i \in 1..(Len(s) - 1) : Continues(s[i], s[i + 1])
    BY DEF Chain
  <1>2. /\ t \in Seq(Char \cup {END}) /\ Len(t) = Len(s) - 1
        /\ \A i \in 1..Len(t) : t[i] = s[i + 1]
    BY <1>1, HeadTailProperties
  <1>3. Head(s) = s[1]
    BY <1>1
  <1> HIDE DEF t
  <1>4. t # <<>> <=> Len(t) > 0
    BY <1>2
  <1>5. ASSUME NEW i \in 1..(Len(t) - 1) PROVE Continues(t[i], t[i + 1])
    BY <1>1, <1>2
  <1>6. ASSUME t # <<>> PROVE t[1] = s[2] /\ Continues(s[1], s[2])
    BY <1>1, <1>2, <1>4, <1>6
  <1>7. Chain(t, d, m)
    BY <1>2, <1>3, <1>5, <1>6 DEF Chain
  <1>8. ASSUME EndsWith(s, b, n, x) PROVE EndsWith(t, d, m, x)
    <2>1. s[Len(s)] = x
      BY <1>8 DEF EndsWith
    <2>2. CASE t = <<>>
      <3>1. Len(s) = 1
        BY <1>1, <1>2, <1>4, <2>2
      <3> QED BY <1>3, <2>1, <2>2, <3>1 DEF EndsWith
    <2>3. CASE t # <<>>
      <3>1. t[Len(t)] = s[Len(s)]
        BY <1>1, <1>2, <1>4, <2>3
      <3> QED BY <2>1, <2>3, <3>1 DEF EndsWith
    <2> QED BY <2>2, <2>3
  <1> QED BY <1>7, <1>8 DEF t

(* A byte of the line goes behind the ones before it. *)
LEMMA PrefixGrows ==
  ASSUME NEW b \in [Slot -> Char \cup {NUL}], NEW n \in 0..(BufSize - 2),
         NEW x \in Char, Prefix(b, n), Continues(Prev(b, n), x)
  PROVE  /\ Prefix([b EXCEPT ![n] = x], n + 1)
         /\ Prev([b EXCEPT ![n] = x], n + 1) = x
  <1> DEFINE d == [b EXCEPT ![n] = x]
  <1>1. /\ n \in Slot /\ n + 1 # 0 /\ 0..n \subseteq Slot
        /\ n \in Nat
    BY CharFacts DEF Slot, BufSize
  <1>2. d[n] = x /\ \A i \in Slot : i # n => d[i] = b[i]
    BY <1>1
  <1> HIDE DEF d
  <1>3. x[2] = n + 1
    <2>1. CASE n = 0
      BY <2>1, CharFacts DEF Prev, Continues
    <2>2. CASE n # 0
      <3>1. n - 1 \in 0..(n - 1)
        BY <1>1, <2>2
      <3>2. b[n - 1][2] = n
        BY <3>1, <1>1 DEF Prefix
      <3> QED BY <2>2, <3>2, CharFacts DEF Prev, Continues
    <2> QED BY <2>1, <2>2
  <1>4. ASSUME n # 0 PROVE x[1] = b[0][1]
    <2>1. n - 1 \in 0..(n - 1)
      BY <1>1, <1>4
    <2>2. b[n - 1][1] = b[0][1] /\ b[n - 1] \in Char
      BY <2>1 DEF Prefix
    <2> QED BY <1>4, <2>2, CharFacts DEF Prev, Continues
  <1>5. ASSUME NEW i \in 0..n
        PROVE  d[i] \in Char /\ d[i][1] = d[0][1] /\ d[i][2] = i + 1
    <2>1. CASE i = n
      <3>1. CASE n = 0
        BY <1>2, <1>3, <2>1, <3>1
      <3>2. CASE n # 0
        <4>1. d[0] = b[0]
          BY <1>1, <1>2, <3>2
        <4> QED BY <1>2, <1>3, <1>4, <2>1, <3>2, <4>1
      <3> QED BY <3>1, <3>2
    <2>2. CASE i # n
      <3>1. i \in 0..(n - 1) /\ i \in Slot /\ 0 # n
        BY <1>1, <2>2
      <3>2. d[i] = b[i] /\ d[0] = b[0]
        BY <1>1, <1>2, <2>2, <3>1, CharFacts
      <3> QED BY <3>1, <3>2 DEF Prefix
    <2> QED BY <2>1, <2>2
  <1>6. n + 1 - 1 = n
    BY <1>1
  <1> QED BY <1>1, <1>2, <1>5, <1>6 DEF Prefix, Prev, d

(* The string that ends at the first zero behind a prefix is that prefix. *)
LEMMA StringOfPrefix ==
  ASSUME NEW b, NEW n \in Slot, Prefix(b, n), b[n] = NUL
  PROVE  /\ String(b) = [i \in 1..n |-> b[i - 1]]
         /\ String(b) \in Seq(Char) /\ Beginning(String(b))
  <1> DEFINE P(i) == b[i] = NUL /\ \A j \in 0..(i - 1) : b[j] # NUL
  <1>0. n \in Nat /\ \A i \in Slot : i \in Nat
    BY SizeAssumption DEF Slot
  <1>1. \A j \in 0..(n - 1) : b[j] # NUL
    BY CharFacts DEF Prefix
  <1>2. P(n)
    BY <1>1
  <1>3. ASSUME NEW i \in Slot, P(i) PROVE i = n
    BY <1>0, <1>1, <1>3
  <1>4. (CHOOSE i \in Slot : P(i)) = n
    BY <1>2, <1>3
  <1>5. String(b) = [i \in 1..n |-> b[i - 1]]
    BY <1>4 DEF String
  <1>6. \A i \in 1..n : /\ b[i - 1] \in Char /\ b[i - 1][1] = b[0][1]
                        /\ b[i - 1][2] = i
    BY <1>0 DEF Prefix
  <1>7. String(b) \in [1..n -> Char]
    BY <1>5, <1>6
  <1>8. String(b) \in Seq(Char)
    BY <1>0, <1>7, SeqDef
  <1>9. ASSUME NEW i \in DOMAIN String(b)
        PROVE  /\ String(b)[i] \in Char /\ String(b)[i][2] = i
               /\ String(b)[i][1] = String(b)[1][1]
    <2>1. i \in 1..n /\ 1 \in 1..n
      BY <1>0, <1>7, <1>9
    <2>2. String(b)[i] = b[i - 1] /\ String(b)[1] = b[0]
      BY <1>5, <2>1
    <2> QED BY <1>6, <2>1, <2>2
  <1> QED BY <1>5, <1>8, <1>9 DEF Beginning

------------------------------------------------------------------------------
(* The event queue: another process posts, *)
LEMMA OtherPosted ==
  ASSUME NEW q \in Seq(Event), NEW b, Len(q) + Reserve < NumEvents, RoomForLine
  PROVE  /\ Append(q, Other("OTHER")) \in Seq(Event)
         /\ Awaited(q, b) => Awaited(Append(q, Other("OTHER")), b)
         /\ Foreign(q) => Foreign(Append(q, Other("OTHER")))
  <1> DEFINE r == Append(q, Other("OTHER"))
  <1>1. Other("OTHER") \in Event
    BY DEF Other, Event
  <1>2. /\ r \in Seq(Event) /\ Len(r) = Len(q) + 1 /\ Len(q) \in Nat
        /\ \A i \in 1..Len(q) : r[i] = q[i]
        /\ r[Len(q) + 1] = Other("OTHER")
    BY <1>1, AppendProperties
  <1>3. Len(r) <= NumEvents - 2
    BY <1>2, SerialLineAssumption DEF RoomForLine
  <1>4. NumEvents \in Nat
    BY SerialLineAssumption
  <1> HIDE DEF r
  <1>5. ASSUME Foreign(q) PROVE Foreign(r)
    BY <1>2, <1>3, <1>5 DEF Foreign
  <1>6. ASSUME Awaited(q, b) PROVE Awaited(r, b)
    <2>1. PICK k \in 1..Len(q) :
            /\ q[k] = Other("CONTINUE")
            /\ k > 1 => q[k - 1] = Line(String(b)) /\ Len(q) <= NumEvents
            /\ k = 1 => Len(q) <= NumEvents - 1
            /\ \A i \in 1..Len(q) : i < k - 1 \/ i > k => q[i] = Other("OTHER")
      BY <1>6 DEF Awaited
    <2>2. k \in 1..Len(r) /\ r[k] = Other("CONTINUE")
      BY <1>2, <2>1
    <2>3. k > 1 => r[k - 1] = Line(String(b)) /\ Len(r) <= NumEvents
      BY <1>2, <1>3, <1>4, <2>1
    <2>4. k = 1 => Len(r) <= NumEvents - 1
      BY <1>2, <1>3, <1>4
    <2>5. \A i \in 1..Len(r) : i < k - 1 \/ i > k => r[i] = Other("OTHER")
      BY <1>2, <2>1
    <2> QED BY <2>2, <2>3, <2>4, <2>5 DEF Awaited
  <1> QED BY <1>2, <1>5, <1>6 DEF r

(* the driver posts a line and the event behind it, *)
LEMMA LinePosted ==
  ASSUME NEW q \in Seq(Event), NEW b, Foreign(q), String(b) \in Seq(Char)
  PROVE  LET one == Append(q, Line(String(b)))
             two == Append(one, Other("CONTINUE"))
         IN  /\ Len(q) < NumEvents /\ Len(one) < NumEvents
             /\ two \in Seq(Event) /\ Awaited(two, b)
  <1> DEFINE one == Append(q, Line(String(b)))
             two == Append(one, Other("CONTINUE"))
  <1>1. Line(String(b)) \in Event /\ Other("CONTINUE") \in Event
    BY DEF Line, Other, Event
  <1>2. /\ one \in Seq(Event) /\ Len(one) = Len(q) + 1 /\ Len(q) \in Nat
        /\ \A i \in 1..Len(q) : one[i] = q[i]
        /\ one[Len(q) + 1] = Line(String(b))
    BY <1>1, AppendProperties
  <1> HIDE DEF one
  <1>3. /\ two \in Seq(Event) /\ Len(two) = Len(one) + 1
        /\ \A i \in 1..Len(one) : two[i] = one[i]
        /\ two[Len(one) + 1] = Other("CONTINUE")
    BY <1>1, <1>2, AppendProperties
  <1> HIDE DEF two
  <1>4. Len(q) <= NumEvents - 2 /\ NumEvents \in Nat
    BY SerialLineAssumption DEF Foreign
  <1> DEFINE k == Len(q) + 2
  <1>5. k \in 1..Len(two) /\ k > 1 /\ two[k] = Other("CONTINUE")
    BY <1>2, <1>3
  <1>6. two[k - 1] = Line(String(b)) /\ Len(two) <= NumEvents
    BY <1>2, <1>3, <1>4
  <1>7. \A i \in 1..Len(two) : i < k - 1 \/ i > k => two[i] = Other("OTHER")
    BY <1>2, <1>3 DEF Foreign
  <1>8. Awaited(two, b)
    BY <1>5, <1>6, <1>7 DEF Awaited
  <1>9. Len(q) < NumEvents /\ Len(one) < NumEvents
    BY <1>2, <1>4
  <1> QED BY <1>3, <1>8, <1>9 DEF one, two

(* and an event is delivered. *)
LEMMA Delivered ==
  ASSUME NEW q \in Seq(Event), NEW b, q # <<>>
  PROVE  /\ Tail(q) \in Seq(Event)
         /\ Foreign(q) => Head(q).ev = "OTHER" /\ Foreign(Tail(q))
         /\ Awaited(q, b) =>
              \/ Head(q).ev = "CONTINUE" /\ Foreign(Tail(q))
              \/ /\ Head(q) \in {Line(String(b)), Other("OTHER")}
                 /\ Awaited(Tail(q), b)
  <1> DEFINE r == Tail(q)
  <1>1. /\ r \in Seq(Event) /\ Len(r) = Len(q) - 1 /\ Len(q) \in Nat
        /\ Len(q) > 0 /\ Head(q) = q[1]
        /\ \A i \in 1..Len(r) : r[i] = q[i + 1]
    BY HeadTailProperties
  <1>2. NumEvents \in Nat
    BY SerialLineAssumption
  <1> HIDE DEF r
  <1>3. ASSUME Foreign(q) PROVE Head(q).ev = "OTHER" /\ Foreign(r)
    BY <1>1, <1>2, <1>3 DEF Foreign, Other
  <1>4. ASSUME Awaited(q, b)
        PROVE  \/ Head(q).ev = "CONTINUE" /\ Foreign(r)
               \/ /\ Head(q) \in {Line(String(b)), Other("OTHER")}
                  /\ Awaited(r, b)
    <2>1. PICK k \in 1..Len(q) :
            /\ q[k] = Other("CONTINUE")
            /\ k > 1 => q[k - 1] = Line(String(b)) /\ Len(q) <= NumEvents
            /\ k = 1 => Len(q) <= NumEvents - 1
            /\ \A i \in 1..Len(q) : i < k - 1 \/ i > k => q[i] = Other("OTHER")
      BY <1>4 DEF Awaited
    <2>2. CASE k = 1
      <3>1. Head(q).ev = "CONTINUE"
        BY <1>1, <2>1, <2>2 DEF Other
      <3>2. Len(r) <= NumEvents - 2
        BY <1>1, <1>2, <2>1, <2>2
      <3>3. \A i \in 1..Len(r) : r[i] = Other("OTHER")
        BY <1>1, <2>1, <2>2
      <3> QED BY <3>1, <3>2, <3>3 DEF Foreign
    <2>3. CASE k # 1
      <3> DEFINE j == k - 1
      <3>1. j \in 1..Len(r) /\ r[j] = Other("CONTINUE")
        BY <1>1, <2>1, <2>3
      <3>2. j > 1 => r[j - 1] = Line(String(b)) /\ Len(r) <= NumEvents
        BY <1>1, <1>2, <2>1, <2>3
      <3>3. j = 1 => Len(r) <= NumEvents - 1
        BY <1>1, <1>2, <2>1, <2>3
      <3>4. \A i \in 1..Len(r) : i < j - 1 \/ i > j => r[i] = Other("OTHER")
        BY <1>1, <2>1
      <3>5. Awaited(r, b)
        BY <3>1, <3>2, <3>3, <3>4 DEF Awaited
      <3>6. CASE k = 2
        BY <1>1, <2>1, <3>5, <3>6
      <3>7. CASE k # 2
        <4>1. 1 < k - 1 /\ 1 \in 1..Len(q)
          BY <1>1, <2>1, <2>3, <3>7
        <4> QED BY <1>1, <2>1, <3>5, <4>1
      <3> QED BY <3>6, <3>7
    <2> QED BY <2>2, <2>3
  <1> QED BY <1>1, <1>3, <1>4 DEF r

------------------------------------------------------------------------------
(* Steps that do not touch a part leave it sound. *)
LEMMA StreamKept ==
  ASSUME Contents' = Contents, UNCHANGED putVars
  PROVE  Stream' = Stream
  BY DEF putVars, Stream

LEMMA GetKept ==
  ASSUME get_test \/ get_data \/ UNCHANGED vars
  PROVE  Stream' = Stream /\ UNCHANGED producer
  <1>1. Contents' = Contents /\ UNCHANGED putVars
    BY DEF get_test, get_data, vars, putVars, Contents, ringbuf_elements
  <1> QED BY <1>1, StreamKept DEF putVars

LEMMA BufferKept ==
  ASSUME BufferSound, UNCHANGED <<buf, ptr>>, thread # "wait", thread' # "wait",
         thread' \in {"run", "empty", "yield", "wait"}
  PROVE  BufferSound' /\ At' = At
  BY DEF BufferSound, Stored, At

LEMMA StreamSoundKept ==
  ASSUME StreamSound, Stream' = Stream, UNCHANGED producer, At' = At,
         UNCHANGED <<buf, overflow, typed>>
  PROVE  StreamSound'
  BY DEF StreamSound, Latest

LEMMA HandledKept ==
  ASSUME HandledSound, UNCHANGED handled
  PROVE  HandledSound'
  BY DEF HandledSound

LEMMA LineInvInit ==
  ASSUME LineInit, RoomForLine
  PROVE  LineInv
  <1>1. RingInv /\ TypedSoFar
    BY RingInit, SerialLineAssumption DEF LineInit, TypedSoFar
  <1>2. Contents = <<>>
    <2>1. ringbuf_elements = 0
      BY MaskedSmall, SizeAssumption
         DEF LineInit, Init, ringbuf_init, ringbuf_elements, Slot
    <2> QED BY <1>1, <2>1, ContentsLen
  <1>3. Stream = <<>> /\ At = 0 /\ Stored = 0 /\ Latest = END
    BY <1>2 DEF LineInit, Init, Stream, At, Stored, Latest
  <1>4. BufferSound
    BY <1>3, CharFacts DEF LineInit, BufferSound, Prefix
  <1>5. StreamSound
    BY <1>3 DEF StreamSound, Chain, EndsWith, Prev
  <1>6. QueueSound
    BY SerialLineAssumption DEF LineInit, QueueSound, Foreign, RoomForLine
  <1>7. HandledSound
    BY DEF LineInit, HandledSound, Beginning
  <1> QED BY <1>1, <1>4, <1>5, <1>6, <1>7 DEF LineInv

(* A typed byte enters the ring buffer, or starts or goes on with the      *)
(* skipping of a line.                                                     *)
LEMMA ByteTyped ==
  ASSUME LineInv, NEW b \in Char \cup {END}, serial_line_input_byte(b),
         Latest' = b, b = END \/ Continues(Latest, b)
  PROVE  StreamSound'
  <1>1. UNCHANGED <<buf, At>>
    BY DEF serial_line_input_byte, threadVars, At
  <1>2. producer = "idle" /\ Stream = Contents
    BY DEF serial_line_input_byte, Stream
  <1>3. ASSUME Skipped(b) \/ full PROVE StreamSound'
    <2>1. Contents' = Contents /\ producer' = "idle" /\ overflow' = TRUE
      BY <1>2, <1>3 DEF serial_line_input_byte, put_test, input_end, vars,
                        getVars, Contents, ringbuf_elements
    <2>2. Stream' = Stream
      BY <1>2, <2>1 DEF Stream
    <2>3. Chain(Stream, buf, At)'
      BY <1>1, <2>2 DEF LineInv, StreamSound
    <2>4. ~ (~overflow \/ producer # "idle")'
      BY <2>1
    <2> QED BY <2>3, <2>4 DEF StreamSound
  <1>4. ASSUME ~ Skipped(b), ~ full PROVE StreamSound'
    <2>1. /\ Contents' = Contents /\ producer' = "checked" /\ arg' = b
      BY <1>4 DEF serial_line_input_byte, put_test, getVars, Contents,
                  ringbuf_elements
    <2>2. Stream' = Append(Stream, b)
      BY <1>2, <2>1 DEF Stream
    <2>3. Chain(Stream, buf, At)
      BY DEF LineInv, StreamSound
    <2>4. b = END \/ (EndsWith(Stream, buf, At, Latest) /\ Continues(Latest, b))
      BY <1>4 DEF Skipped, LineInv, StreamSound
    <2>5. PICK s : s = Stream
      OBVIOUS
    <2>6. PICK d, n, x : d = buf /\ n = At /\ x = Latest
      OBVIOUS
    <2>7. Chain(Append(s, b), d, n) /\ EndsWith(Append(s, b), d, n, b)
      BY <2>3, <2>4, <2>5, <2>6, ChainPut
    <2>8. Stream' = Append(s, b) /\ buf' = d /\ At' = n
      BY <1>1, <2>2, <2>5, <2>6
    <2> QED BY <2>7, <2>8 DEF StreamSound
  <1> QED BY <1>3, <1>4

(* The parts that the interrupt leaves alone. *)
LEMMA InputKept ==
  ASSUME LineInv, UNCHANGED <<threadVars, eventVars>>
  PROVE  BufferSound' /\ QueueSound' /\ HandledSound' /\ UNCHANGED <<buf, At>>
  BY DEF LineInv, threadVars, eventVars, BufferSound, QueueSound, HandledSound,
         Stored, At

LEMMA CharTyped ==
  ASSUME LineInv, type_char
  PROVE  /\ BufferSound' /\ StreamSound' /\ QueueSound' /\ HandledSound'
  <1>1. /\ typed[1] \in Nat /\ typed[2] \in Nat /\ typed' \in Char
        /\ typed'[1] = typed[1] /\ typed'[2] = typed[2] + 1
    BY SerialLineAssumption DEF type_char, LineInv, TypedSoFar, Char
  <1>2. Latest' = typed'
    BY <1>1 DEF Latest
  <1>3. Continues(Latest, typed')
    BY <1>1, CharFacts DEF Latest, Continues
  <1>4. PICK b : b = typed'
    OBVIOUS
  <1>5. serial_line_input_byte(b) /\ b \in Char
    BY <1>1, <1>4 DEF type_char
  <1>6. StreamSound'
    BY <1>2, <1>3, <1>4, <1>5, ByteTyped
  <1> QED BY <1>5, <1>6, InputKept DEF serial_line_input_byte

LEMMA EndTyped ==
  ASSUME LineInv, type_end
  PROVE  /\ BufferSound' /\ StreamSound' /\ QueueSound' /\ HandledSound'
  <1>1. Latest' = END
    BY DEF type_end, Latest
  <1>2. StreamSound'
    BY <1>1, ByteTyped DEF type_end
  <1> QED BY <1>2, InputKept DEF type_end, serial_line_input_byte

LEMMA ByteStored ==
  ASSUME LineInv, Interrupt
  PROVE  /\ BufferSound' /\ StreamSound' /\ QueueSound' /\ HandledSound'
  <1>1. RingInv
    BY DEF LineInv
  <1>2. /\ UNCHANGED <<threadVars, eventVars>> /\ UNCHANGED typed
        /\ producer # "idle"
    BY DEF Interrupt, input_store, input_accepted, lineVars, inputVars,
           put_data, put_advance
  <1>3. Stream' = Stream
    <2>1. CASE input_store
      <3>1. Contents' = Contents
        BY <1>1, <2>1, ContentsData DEF input_store
      <3> QED BY <2>1, <3>1 DEF input_store, put_data, Stream
    <2>2. CASE input_accepted
      <3>1. Contents' = Append(Contents, arg)
        BY <1>1, <2>2, ContentsPut DEF input_accepted
      <3> QED BY <2>2, <3>1 DEF input_accepted, put_advance, Stream
    <2> QED BY <2>1, <2>2 DEF Interrupt
  <1>4. BufferSound' /\ QueueSound' /\ HandledSound' /\ UNCHANGED <<buf, At>>
    BY <1>2, InputKept
  <1>5. StreamSound'
    BY <1>2, <1>3, <1>4 DEF LineInv, StreamSound, Latest
  <1> QED BY <1>4, <1>5

(* The process finds a byte or none, and yields. *)
LEMMA ByteSought ==
  ASSUME LineInv, get_begin \/ yield \/ get_load
  PROVE  /\ BufferSound' /\ StreamSound' /\ QueueSound' /\ HandledSound'
  <1> USE DEF LineInv
  <1>1. get_test \/ get_data \/ UNCHANGED vars
    BY DEF get_begin, yield, get_load
  <1>2. /\ UNCHANGED <<typed, overflow, buf, ptr, queue, handled>>
        /\ thread \in {"run", "empty"} /\ thread' \in {"run", "empty", "yield"}
    BY DEF get_begin, yield, get_load, Running, inputVars, lineVars,
           threadVars, eventVars
  <1>3. Stream' = Stream /\ UNCHANGED producer
    BY <1>1, GetKept
  <1>4. BufferSound' /\ At' = At
    BY <1>2, BufferKept
  <1>5. StreamSound'
    BY <1>2, <1>3, <1>4, StreamSoundKept
  <1>6. QueueSound'
    BY <1>2 DEF QueueSound
  <1> QED BY <1>2, <1>4, <1>5, <1>6, HandledKept

(* What the process gets is the first byte of the stream. *)
LEMMA ByteGot ==
  ASSUME LineInv, Running, get_advance
  PROVE  /\ Stream # <<>> /\ Stream' = Tail(Stream) /\ got' = Head(Stream)
         /\ got' \in Char \cup {END} /\ producer' = "idle"
         /\ At = ptr /\ Stored = ptr /\ ptr \in 0..(BufSize - 1)
         /\ ptr < BufSize - 1 => Continues(Prev(buf, ptr), got')
  <1>1. Contents # <<>> /\ Contents' = Tail(Contents) /\ c = Head(Contents)
    BY ContentsGet DEF LineInv
  <1>2. producer = "idle" /\ producer' = "idle" /\ got' = c
    BY DEF Running, get_advance, putVars
  <1>3. Stream = Contents /\ Stream' = Contents'
    BY <1>2 DEF Stream
  <1>4. At = ptr /\ Stored = ptr /\ ptr \in 0..(BufSize - 1)
    BY DEF Running, At, Stored, LineInv, BufferSound
  <1>5. /\ Stream \in Seq(Char \cup {END})
        /\ Stream # <<>> /\ At < BufSize - 1 => Continues(Prev(buf, At), Stream[1])
    BY DEF LineInv, StreamSound, Chain
  <1>6. Head(Stream) = Stream[1] /\ Head(Stream) \in Char \cup {END}
    BY <1>1, <1>3, <1>5
  <1> QED BY <1>1, <1>2, <1>3, <1>4, <1>5, <1>6

(* A byte of a line is taken and stored, or thrown away. *)
LEMMA CharGot ==
  ASSUME LineInv, get_char
  PROVE  /\ BufferSound' /\ StreamSound' /\ QueueSound' /\ HandledSound'
  <1>1. /\ Stream # <<>> /\ Stream' = Tail(Stream) /\ got' = Head(Stream)
        /\ got' \in Char /\ producer' = "idle"
        /\ At = ptr /\ Stored = ptr /\ ptr \in 0..(BufSize - 1)
        /\ ptr < BufSize - 1 => Continues(Prev(buf, ptr), got')
    BY ByteGot DEF get_char
  <1>2. thread = "run" /\ thread' = "run"
    BY DEF get_char, Running
  <1>3. /\ UNCHANGED <<typed, overflow, queue, handled>>
        /\ producer = "idle"
    BY DEF get_char, Running, inputVars, eventVars
  <1>4. At' = ptr' /\ Stored' = ptr'
    BY <1>2 DEF At, Stored
  <1>5. /\ buf \in [Slot -> Char \cup {NUL}] /\ buf[BufSize - 1] = NUL
        /\ Prefix(buf, ptr)
    BY <1>1 DEF LineInv, BufferSound
  <1>6. /\ BufferSound'
        /\ ptr' < BufSize - 1 => Prev(buf', ptr') = got'
    <2>1. CASE Fits
      <3>1. /\ ptr \in 0..(BufSize - 2) /\ ptr + 1 \in 0..(BufSize - 1)
            /\ ptr # BufSize - 1 /\ ptr \in Slot
        BY <1>1, <2>1, CharFacts DEF Fits, BufSize, Slot
      <3>2. /\ buf' = [buf EXCEPT ![ptr] = got'] /\ ptr' = ptr + 1
        BY <2>1 DEF get_char
      <3>3. PICK b, n, x : b = buf /\ n = ptr /\ x = got'
        OBVIOUS
      <3>4. Continues(Prev(b, n), x)
        BY <1>1, <2>1, <3>3 DEF Fits
      <3>5. /\ Prefix([b EXCEPT ![n] = x], n + 1)
            /\ Prev([b EXCEPT ![n] = x], n + 1) = x
        BY <1>1, <1>5, <3>1, <3>3, <3>4, PrefixGrows
      <3>6. Prefix(buf', ptr') /\ Prev(buf', ptr') = got'
        BY <3>2, <3>3, <3>5
      <3>7. buf' \in [Slot -> Char \cup {NUL}] /\ buf'[BufSize - 1] = NUL
        BY <1>1, <1>5, <3>1, <3>2, CharFacts
      <3>8. ptr' \in 0..BufSize /\ Stored' \in 0..(BufSize - 1)
        BY <1>4, <3>1, <3>2, CharFacts
      <3> QED BY <1>2, <1>4, <3>6, <3>7, <3>8 DEF BufferSound
    <2>2. CASE ~ Fits
      <3>1. UNCHANGED <<buf, ptr>>
        BY <2>2 DEF get_char
      <3> QED BY <1>2, <2>2, <3>1, BufferKept DEF LineInv, Fits
    <2> QED BY <2>1, <2>2
  <1>7. StreamSound'
    <2>1. PICK s, b, n, x :
            s = Stream /\ b = buf /\ n = At /\ x = Latest
      OBVIOUS
    <2>2. PICK d, m : d = buf' /\ m = ptr'
      OBVIOUS
    <2>3. Chain(s, b, n) /\ s # <<>> /\ (m < BufSize - 1 => Prev(d, m) = Head(s))
      BY <1>1, <1>6, <2>1, <2>2 DEF LineInv, StreamSound
    <2>4. /\ Chain(Tail(s), d, m)
          /\ EndsWith(s, b, n, x) => EndsWith(Tail(s), d, m, x)
      BY <2>3, ChainGet
    <2>5. Stream' = Tail(s) /\ buf' = d /\ At' = m /\ Latest' = x
      BY <1>1, <1>3, <1>4, <2>1, <2>2 DEF Latest
    <2>6. ~overflow => EndsWith(s, b, n, x)
      BY <2>1 DEF LineInv, StreamSound
    <2> QED BY <1>1, <1>3, <2>4, <2>5, <2>6 DEF StreamSound
  <1>8. QueueSound'
    BY <1>2, <1>3 DEF LineInv, QueueSound
  <1> QED BY <1>3, <1>6, <1>7, <1>8, HandledKept DEF LineInv

(* The end of a line is taken, and the line is broadcast. *)
LEMMA EndGot ==
  ASSUME LineInv, get_end, RoomForLine
  PROVE  /\ BufferSound' /\ StreamSound' /\ QueueSound' /\ HandledSound'
  <1>1. /\ Stream # <<>> /\ Stream' = Tail(Stream) /\ END = Head(Stream)
        /\ producer' = "idle"
        /\ At = ptr /\ Stored = ptr /\ ptr \in 0..(BufSize - 1)
    BY ByteGot DEF get_end
  <1>2. thread = "run"
    BY DEF get_end, Running
  <1>3. /\ UNCHANGED <<typed, overflow, handled>>
        /\ producer = "idle" /\ buf' = [buf EXCEPT ![ptr] = NUL]
    BY DEF get_end, Running, inputVars
  <1>4. /\ buf \in [Slot -> Char \cup {NUL}] /\ buf[BufSize - 1] = NUL
        /\ Prefix(buf, ptr) /\ ptr \in Slot
    BY <1>1 DEF LineInv, BufferSound, Slot, BufSize
  <1>5. /\ buf' \in [Slot -> Char \cup {NUL}] /\ buf'[BufSize - 1] = NUL
        /\ buf'[ptr] = NUL
    BY <1>3, <1>4, CharFacts
  <1>6. Prefix(buf', ptr)
    <2>1. \A i \in 0..(ptr - 1) : i \in Slot /\ i # ptr
      BY <1>4, SizeAssumption DEF Slot
    <2>2. \A i \in 0..(ptr - 1) : buf'[i] = buf[i]
      BY <1>3, <1>4, <2>1
    <2>3. ptr \in Nat /\ \A i \in 0..(ptr - 1) : 0 \in 0..(ptr - 1)
      BY <1>4, SizeAssumption DEF Slot
    <2> QED BY <1>4, <2>2, <2>3 DEF Prefix
  <1>7. PICK b, n : b = buf' /\ n = ptr
    OBVIOUS
  <1>8. String(b) \in Seq(Char)
    BY <1>4, <1>5, <1>6, <1>7, StringOfPrefix
  <1>9. queue \in Seq(Event) /\ Foreign(queue)
    BY <1>2 DEF LineInv, QueueSound
  <1>10. PICK q : q = queue
    OBVIOUS
  <1> DEFINE one == Append(q, Line(String(b)))
             two == Append(one, Other("CONTINUE"))
  <1>11. /\ Len(q) < NumEvents /\ Len(one) < NumEvents
         /\ two \in Seq(Event) /\ Awaited(two, b)
    BY <1>8, <1>9, <1>10, LinePosted
  <1>12. queue' = two /\ thread' = "wait" /\ ptr' = ptr + 1
    BY <1>7, <1>10, <1>11 DEF get_end, await
  <1>13. QueueSound'
    BY <1>7, <1>11, <1>12 DEF QueueSound
  <1>14. Stored' = ptr /\ At' = 0 /\ ptr' \in 0..BufSize
    BY <1>1, <1>12, CharFacts DEF Stored, At
  <1>15. BufferSound'
    BY <1>1, <1>5, <1>6, <1>12, <1>14 DEF BufferSound
  <1>16. StreamSound'
    <2>1. PICK s, d, x : s = Stream /\ d = buf /\ x = Latest
      OBVIOUS
    <2>2. Chain(s, d, n) /\ s # <<>> /\ Prev(b, 0) = Head(s)
      BY <1>1, <1>7, <2>1 DEF LineInv, StreamSound, Prev
    <2>3. /\ Chain(Tail(s), b, 0)
          /\ EndsWith(s, d, n, x) => EndsWith(Tail(s), b, 0, x)
      BY <2>2, ChainGet
    <2>4. Stream' = Tail(s) /\ buf' = b /\ At' = 0 /\ Latest' = x
      BY <1>1, <1>3, <1>7, <1>14, <2>1 DEF Latest
    <2>5. ~overflow => EndsWith(s, d, n, x)
      BY <1>1, <1>7, <2>1 DEF LineInv, StreamSound
    <2> QED BY <1>1, <1>3, <2>3, <2>4, <2>5 DEF StreamSound
  <1> QED BY <1>3, <1>13, <1>15, <1>16, HandledKept DEF LineInv

(* The process is called: what it waits for comes only behind the line.    *)
LEMMA CalledSound ==
  ASSUME LineInv, NEW e, called(e), UNCHANGED vars,
         UNCHANGED <<typed, overflow, buf>>, thread \in {"yield", "wait"}
  PROVE  /\ BufferSound' /\ StreamSound'
         /\ thread' = IF thread = "yield" \/ e = "CONTINUE" THEN "run" ELSE thread
  <1> USE DEF LineInv
  <1>1. Stream' = Stream /\ UNCHANGED producer
    BY GetKept
  <1>2. CASE thread = "yield"
    <2>1. thread' = "run" /\ ptr' = ptr
      BY <1>2 DEF called
    <2>2. BufferSound' /\ At' = At
      BY <1>2, <2>1, BufferKept
    <2> QED BY <1>1, <1>2, <2>1, <2>2, StreamSoundKept
  <1>3. CASE thread = "wait" /\ e = "CONTINUE"
    <2>1. thread' = "run" /\ ptr' = 0
      BY <1>3 DEF called
    <2>2. At' = At
      BY <1>3, <2>1 DEF At
    <2>3. BufferSound'
      BY <2>1, CharFacts DEF BufferSound, Stored, Prefix
    <2> QED BY <1>1, <1>3, <2>1, <2>2, <2>3, StreamSoundKept
  <1>4. CASE thread = "wait" /\ e # "CONTINUE"
    <2>1. thread' = thread /\ ptr' = ptr
      BY <1>4 DEF called
    <2>2. BufferSound' /\ At' = At
      BY <2>1 DEF BufferSound, Stored, At
    <2> QED BY <1>1, <1>4, <2>1, <2>2, StreamSoundKept
  <1> QED BY <1>2, <1>3, <1>4

LEMMA Polled ==
  ASSUME LineInv, do_poll
  PROVE  /\ BufferSound' /\ StreamSound' /\ QueueSound' /\ HandledSound'
  <1>1. /\ UNCHANGED <<typed, overflow, buf, queue, handled>>
        /\ thread \in {"yield", "wait"} /\ called("POLL") /\ UNCHANGED vars
    BY DEF do_poll, Scheduling, inputVars, eventVars
  <1>2. /\ BufferSound' /\ StreamSound'
        /\ thread' = IF thread = "yield" THEN "run" ELSE thread
    BY <1>1, CalledSound
  <1>3. QueueSound'
    BY <1>1, <1>2 DEF LineInv, QueueSound
  <1> QED BY <1>1, <1>2, <1>3, HandledKept DEF LineInv

(* An event is delivered; a line still says what it said when posted. *)
LEMMA EventHandled ==
  ASSUME LineInv, do_event
  PROVE  /\ BufferSound' /\ StreamSound' /\ QueueSound' /\ HandledSound'
  <1>1. /\ UNCHANGED <<typed, overflow, buf>>
        /\ thread \in {"yield", "wait"} /\ UNCHANGED vars
        /\ queue' = Tail(queue) /\ queue # <<>>
    BY DEF do_event, Scheduling, inputVars
  <1>2. PICK q, b, h : q = queue /\ b = buf /\ h = Head(queue)
    OBVIOUS
  <1>3. /\ handled' = IF h.ev = "LINE"
                      THEN [read |-> String(b), posted |-> h.text]
                      ELSE handled
        /\ IF h.ev = "OTHER" THEN UNCHANGED <<thread, ptr>> ELSE called(h.ev)
    BY <1>2 DEF do_event
  <1>4. q \in Seq(Event) /\ q # <<>>
    BY <1>1, <1>2 DEF LineInv, QueueSound
  <1>5. /\ Tail(q) \in Seq(Event)
        /\ Foreign(q) => h.ev = "OTHER" /\ Foreign(Tail(q))
        /\ Awaited(q, b) =>
             \/ h.ev = "CONTINUE" /\ Foreign(Tail(q))
             \/ h \in {Line(String(b)), Other("OTHER")} /\ Awaited(Tail(q), b)
    BY <1>2, <1>4, Delivered
  <1>6. queue' = Tail(q) /\ buf' = b
    BY <1>1, <1>2
  <1>7. CASE h.ev = "OTHER"
    <2>1. UNCHANGED <<thread, ptr, handled>>
      BY <1>3, <1>7
    <2>2. At' = At /\ BufferSound'
      BY <1>1, <2>1 DEF LineInv, BufferSound, Stored, At
    <2>3. StreamSound'
      BY <1>1, <2>2, GetKept, StreamSoundKept DEF LineInv
    <2>4. Awaited(q, b) => Awaited(Tail(q), b)
      BY <1>5, <1>7
    <2>5. QueueSound'
      BY <1>2, <1>5, <1>6, <2>1, <2>4 DEF LineInv, QueueSound
    <2> QED BY <2>1, <2>2, <2>3, <2>5, HandledKept DEF LineInv
  <1>8. CASE h.ev # "OTHER"
    <2>1. thread = "wait" /\ Awaited(q, b) /\ called(h.ev)
      BY <1>1, <1>2, <1>3, <1>5, <1>8 DEF LineInv, QueueSound
    <2>2. /\ BufferSound' /\ StreamSound'
          /\ thread' = IF h.ev = "CONTINUE" THEN "run" ELSE "wait"
      BY <1>1, <2>1, CalledSound
    <2>3. CASE h.ev = "CONTINUE"
      <3>1. Foreign(Tail(q))
        BY <1>5, <2>1, <2>3 DEF Line, Other
      <3>2. QueueSound'
        BY <1>5, <1>6, <2>2, <2>3, <3>1 DEF QueueSound
      <3>3. UNCHANGED handled
        BY <1>3, <2>3
      <3> QED BY <2>2, <3>2, <3>3, HandledKept DEF LineInv
    <2>4. CASE h.ev # "CONTINUE"
      <3>1. h = Line(String(b)) /\ Awaited(Tail(q), b)
        BY <1>5, <1>8, <2>1, <2>4 DEF Other
      <3>2. QueueSound'
        BY <1>5, <1>6, <2>2, <2>4, <3>1 DEF QueueSound
      <3>3. handled' = [read |-> String(b), posted |-> String(b)]
        BY <1>3, <3>1 DEF Line
      <3>4. Beginning(String(b))
        <4>1. Stored \in Slot /\ b[Stored] = NUL /\ Prefix(b, Stored)
          BY <1>2, <2>1, CharFacts DEF LineInv, BufferSound, Slot, BufSize
        <4> QED BY <4>1, StringOfPrefix
      <3>5. HandledSound'
        BY <3>3, <3>4 DEF HandledSound
      <3> QED BY <2>2, <3>2, <3>5
    <2> QED BY <2>3, <2>4
  <1> QED BY <1>7, <1>8

LEMMA OtherPosts ==
  ASSUME LineInv, post_other, RoomForLine
  PROVE  /\ BufferSound' /\ StreamSound' /\ QueueSound' /\ HandledSound'
  <1>1. /\ UNCHANGED <<typed, overflow, buf, ptr, thread, handled>>
        /\ UNCHANGED vars /\ Len(queue) + Reserve < NumEvents
        /\ queue' = Append(queue, Other("OTHER"))
    BY DEF post_other, inputVars, threadVars
  <1>2. At' = At /\ BufferSound'
    BY <1>1 DEF LineInv, BufferSound, Stored, At
  <1>3. StreamSound'
    BY <1>1, <1>2, GetKept, StreamSoundKept DEF LineInv
  <1>4. PICK q, b : q = queue /\ b = buf
    OBVIOUS
  <1>5. q \in Seq(Event) /\ Len(q) + Reserve < NumEvents
    BY <1>1, <1>4 DEF LineInv, QueueSound
  <1>6. /\ Append(q, Other("OTHER")) \in Seq(Event)
        /\ Awaited(q, b) => Awaited(Append(q, Other("OTHER")), b)
        /\ Foreign(q) => Foreign(Append(q, Other("OTHER")))
    BY <1>5, OtherPosted
  <1>7. queue' = Append(q, Other("OTHER")) /\ buf' = b
    BY <1>1, <1>4
  <1>8. QueueSound'
    BY <1>1, <1>4, <1>6, <1>7 DEF LineInv, QueueSound
  <1> QED BY <1>1, <1>2, <1>3, <1>8, HandledKept DEF LineInv

LEMMA LineInvStep ==
  ASSUME LineInv, [LineNext]_<<vars, lineVars>>, RoomForLine
  PROVE  LineInv'
  <1>1. RingInv' /\ TypedSoFar'
    BY RingOrNothing, RingStep DEF LineInv
  <1>2. BufferSound' /\ StreamSound' /\ QueueSound' /\ HandledSound'
    <2>1. CASE UNCHANGED <<vars, lineVars>>
      <3>1. /\ UNCHANGED <<typed, overflow, threadVars, eventVars>>
            /\ UNCHANGED vars
        BY <2>1 DEF lineVars, inputVars
      <3>2. BufferSound' /\ QueueSound' /\ HandledSound' /\ UNCHANGED <<buf, At>>
        BY <3>1, InputKept
      <3> QED BY <3>1, <3>2, GetKept, StreamSoundKept DEF LineInv
    <2> QED
      BY <2>1, CharTyped, EndTyped, ByteStored, ByteSought, CharGot, EndGot,
         Polled, EventHandled, OtherPosts DEF LineNext, Process
  <1> QED BY <1>1, <1>2 DEF LineInv

LEMMA LineInvSound == LineInv => LineSound
  <1> SUFFICES ASSUME LineInv PROVE LineSound
    OBVIOUS
  <1>1. ptr \in 0..BufSize /\ (ptr = BufSize => thread = "wait")
    BY CharFacts DEF LineInv, BufferSound, Stored
  <1>2. buf \in [Slot -> Char \cup {NUL}] /\ \E i \in Slot : buf[i] = NUL
    BY CharFacts DEF LineInv, BufferSound
  <1> QED BY <1>1, <1>2 DEF LineInv, HandledSound, Beginning, LineSound

(* The line buffer is never overrun, lines are never spliced when bytes    *)
(* are lost, and every process reads the line that was broadcast           *)
(* (LineSound), for every size of the buffers and of the event queue and   *)
(* whatever is typed, provided that the other processes leave the driver   *)
(* two places in the event queue.                                          *)
THEOREM LinesSound ==
  ASSUME RoomForLine
  PROVE  LineSpec => []LineSound
  <1>1. LineInit => LineInv
    BY LineInvInit
  <1>2. LineInv /\ [LineNext]_<<vars, lineVars>> => LineInv'
    BY LineInvStep
  <1> QED BY <1>1, <1>2, LineInvSound, PTL DEF LineSpec
==============================================================================
