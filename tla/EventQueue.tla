------------------------------ MODULE EventQueue ------------------------------
(***************************************************************************)
(* The event queue of os/sys/process.c: the array events[], the index      *)
(* fevent of the oldest event and the count nevents.  Both are unsigned    *)
(* chars, and process_post() converts their sum to an unsigned char before *)
(* it takes the remainder.  Module Process uses the queue as a FIFO.       *)
(***************************************************************************)
EXTENDS Integers, Sequences

CONSTANTS Event,      \* what events[] holds: event, data and receiver
          NoEvent,    \* nothing has been taken out
          NumEvents,  \* PROCESS_CONF_NUMEVENTS
          CharWidth       \* the values of process_num_events_t (256)

(* Nothing in the code bounds PROCESS_CONF_NUMEVENTS, but the count must   *)
(* fit, and so must the sum of the largest index and the largest count     *)
(* that is not full: at most 128 events for an unsigned char.              *)
ASSUME EventQueueAssumption ==
    /\ NumEvents \in Nat \ {0}
    /\ CharWidth \in Nat
    /\ 2 * NumEvents - 2 < CharWidth /\ NumEvents < CharWidth

VARIABLES events,     \* the array
          nevents,
          fevent,
          post_ret,   \* history: did process_post() return PROCESS_ERR_OK?
          taken       \* history: the event that do_event() last delivered

queueVars == <<events, nevents, fevent, post_ret, taken>>

Slot == 0..(NumEvents - 1)

(* A value converted to process_num_events_t. *)
Char(x) == x % CharWidth

(* A place in the array, counted from its start or going round once. *)
Wrap(x) == x % NumEvents

process_init ==
    /\ events \in [Slot -> Event]
    /\ nevents = 0
    /\ fevent = 0

QueueInit == process_init /\ post_ret = TRUE /\ taken = NoEvent

(* Slip: the slot is computed from the count alone. *)
snum_of_count == Wrap(Char(nevents))

snum == Wrap(Char(fevent + nevents))

process_post(e) ==
    IF nevents = NumEvents
    THEN post_ret' = FALSE /\ UNCHANGED <<events, nevents, fevent, taken>>
    ELSE /\ events' = [events EXCEPT ![snum] = e]
         /\ nevents' = Char(nevents + 1)
         /\ post_ret' = TRUE
         /\ UNCHANGED <<fevent, taken>>

(* do_event(), the removal of the oldest event. *)
do_event ==
    /\ nevents > 0
    /\ taken' = events[fevent]
    /\ fevent' = Char(Wrap(fevent + 1))
    /\ nevents' = nevents - 1
    /\ UNCHANGED <<events, post_ret>>

QueueNext == (\E e \in Event : process_post(e)) \/ do_event

QueueSpec == QueueInit /\ [][QueueNext]_queueVars

------------------------------------------------------------------------------
(* Type invariant: the index stays in the array, the count in its size. *)
QueueTypeOK ==
    /\ events \in [Slot -> Event]
    /\ nevents \in 0..NumEvents
    /\ fevent \in Slot
    /\ post_ret \in BOOLEAN
    /\ taken \in Event \cup {NoEvent}

(* The waiting events, oldest first. *)
Waiting == [i \in 1..nevents |-> events[Wrap(fevent + i - 1)]]

Fifo == INSTANCE BoundedFifo
        WITH Byte <- Event, NoByte <- NoEvent, Capacity <- NumEvents,
             queue <- Waiting, put_ret <- post_ret, got <- taken

(* Every event that process_post() accepts is taken out exactly once and   *)
(* in the order of posting, and PROCESS_ERR_FULL means NumEvents events.   *)
ImplementsFifo == Fifo!Spec
==============================================================================
