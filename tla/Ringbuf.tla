------------------------------- MODULE Ringbuf -------------------------------
(***************************************************************************)
(* The byte ring buffer of os/lib/ringbuf.c, shared without a lock by one  *)
(* writer (an interrupt handler, say serial_line_input_byte) and one       *)
(* reader (a process).  The accesses that the other side can observe are   *)
(* separate steps: the full/empty test, the access to the data slot and    *)
(* the store of the advanced index.  CC_ACCESS_NOW keeps the last two in   *)
(* program order, and an index is a uint8_t, read and written atomically.  *)
(***************************************************************************)
EXTENDS Integers, Sequences

CONSTANTS Byte,     \* the byte values
          NoByte,   \* the -1 that ringbuf_get() returns when empty
          Size      \* the size given to ringbuf_init()

(* The header requires a power of two: only then is "& mask" the remainder *)
(* by Size.                                                                *)
ASSUME SizeAssumption == Size \in Nat \ {0}

VARIABLES data,       \* r->data
          put_ptr,    \* r->put_ptr
          get_ptr,    \* r->get_ptr
          producer,   \* where the writer is inside ringbuf_put()
          arg,        \* its argument c
          put_ret,    \* what it last returned
          consumer,   \* where the reader is inside ringbuf_get()
          c,          \* its local c
          got         \* what it last returned

vars == <<data, put_ptr, get_ptr, producer, arg, put_ret, consumer, c, got>>
putVars == <<put_ptr, producer, arg, put_ret>>
getVars == <<get_ptr, consumer, c, got>>

Slot == 0..(Size - 1)
mask == Size - 1

(* x & r->mask, for a mask that is a power of two minus one. *)
Masked(x) == x % Size

ringbuf_elements == Masked(put_ptr - get_ptr)

(* Slip: the writer does not look at the fill level. *)
NeverFull == FALSE

full == ringbuf_elements = mask

ringbuf_init ==
    /\ data \in [Slot -> Byte]
    /\ put_ptr = 0
    /\ get_ptr = 0

Init ==
    /\ ringbuf_init
    /\ producer = "idle" /\ arg \in Byte /\ put_ret = TRUE
    /\ consumer = "idle" /\ c \in Byte /\ got = NoByte

------------------------------------------------------------------------------
(* ringbuf_put(): the test for a full buffer, *)
put_test(v) ==
    /\ producer = "idle"
    /\ IF full
       THEN /\ put_ret' = FALSE
            /\ UNCHANGED <<producer, arg>>
       ELSE /\ producer' = "checked"
            /\ arg' = v
            /\ put_ret' = put_ret
    /\ UNCHANGED <<data, put_ptr, getVars>>

(* the store of the byte, *)
put_data ==
    /\ producer = "checked"
    /\ data' = [data EXCEPT ![put_ptr] = arg]
    /\ producer' = "written"
    /\ UNCHANGED <<put_ptr, arg, put_ret, getVars>>

(* and the store that makes it visible to the reader. *)
put_advance ==
    /\ producer = "written"
    /\ put_ptr' = Masked(put_ptr + 1)
    /\ producer' = "idle"
    /\ put_ret' = TRUE
    /\ UNCHANGED <<data, arg, getVars>>

------------------------------------------------------------------------------
(* ringbuf_get(): the test for an empty buffer, *)
get_test ==
    /\ consumer = "idle"
    /\ IF ringbuf_elements > 0
       THEN consumer' = "checked" /\ got' = got
       ELSE consumer' = consumer /\ got' = NoByte
    /\ UNCHANGED <<data, get_ptr, c, putVars>>

(* the load of the byte, *)
get_data ==
    /\ consumer = "checked"
    /\ c' = data[get_ptr]
    /\ consumer' = "loaded"
    /\ UNCHANGED <<data, get_ptr, got, putVars>>

(* Slip: the byte is read through the already advanced index. *)
get_advance_first ==
    /\ consumer = "loaded"
    /\ get_ptr' = Masked(get_ptr + 1)
    /\ got' = data[get_ptr']
    /\ consumer' = "idle"
    /\ UNCHANGED <<data, c, putVars>>

(* and the store that gives the slot back to the writer. *)
get_advance ==
    /\ consumer = "loaded"
    /\ get_ptr' = Masked(get_ptr + 1)
    /\ got' = c
    /\ consumer' = "idle"
    /\ UNCHANGED <<data, c, putVars>>

ringbuf_put == (\E v \in Byte : put_test(v)) \/ put_data \/ put_advance
ringbuf_get == get_test \/ get_data \/ get_advance

Next == ringbuf_put \/ ringbuf_get

Spec == Init /\ [][Next]_vars

------------------------------------------------------------------------------
(* Type invariant of the shared structure and of the two callers. *)
TypeOK ==
    /\ data \in [Slot -> Byte]
    /\ put_ptr \in Slot
    /\ get_ptr \in Slot
    /\ producer \in {"idle", "checked", "written"}
    /\ arg \in Byte
    /\ put_ret \in BOOLEAN
    /\ consumer \in {"idle", "checked", "loaded"}
    /\ c \in Byte
    /\ got \in Byte \cup {NoByte}

(* Between its test and its last store neither side can be overtaken by    *)
(* the other: the slot the writer fills is still free, the slot the reader *)
(* empties still holds the byte it will return.                            *)
Handover ==
    /\ producer # "idle" => ringbuf_elements < mask
    /\ producer = "written" => data[put_ptr] = arg
    /\ consumer # "idle" => ringbuf_elements > 0
    /\ consumer = "loaded" => c = data[get_ptr]

(* The inductive invariant: the shared structure is well formed, and the   *)
(* writer in its interrupt and the reader in its process never meet in a   *)
(* slot, whatever the interleaving of ringbuf_put() and ringbuf_get().     *)
RingInv == TypeOK /\ Handover

(* The bytes in the buffer, oldest first. *)
Contents == [i \in 1..ringbuf_elements |-> data[Masked(get_ptr + i - 1)]]

Fifo == INSTANCE BoundedFifo WITH Capacity <- mask, queue <- Contents

(* The lock-free pair ringbuf_put()/ringbuf_get() is a bounded FIFO: every *)
(* byte accepted by ringbuf_put() is returned exactly once, in order, a    *)
(* put is refused only when Size - 1 bytes are stored and a get answers -1 *)
(* only when none is, whatever the interleaving of the two sides.          *)
ImplementsFifo == Fifo!Spec
==============================================================================
