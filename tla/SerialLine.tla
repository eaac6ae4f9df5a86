------------------------------ MODULE SerialLine ------------------------------
(***************************************************************************)
(* Serial line input, os/dev/serial-line.c, over the ring buffer of module *)
(* Ringbuf.  The UART interrupt puts bytes into the ring buffer and polls  *)
(* serial_line_process, which collects a line in the one static buffer,    *)
(* broadcasts a pointer to it and waits until the broadcast is handled by  *)
(* posting an event to itself behind it.  The interrupt may come between   *)
(* any two accesses of the process; the process cannot run in the middle   *)
(* of the interrupt.                                                       *)
(*                                                                         *)
(* A typed byte is the pair of its line number and its column, so that a   *)
(* line put together from the wrong bytes is recognised.                   *)
(***************************************************************************)
EXTENDS Ringbuf

CONSTANTS NumEvents,  \* PROCESS_CONF_NUMEVENTS
          Reserve,    \* places in the event queue that others leave free
          MaxLines,   \* bound: lines typed
          MaxColumns  \* bound: bytes typed in a line

Char == (1..MaxLines) \X (1..MaxColumns)
END == <<0, 0>>     \* the newline
NUL == <<0, 1>>     \* the zero that ends a C string
BufSize == Size     \* BUFSIZE is the size of both buffers

ASSUME SerialLineAssumption ==
    /\ Byte = Char \cup {END, NUL}
    /\ Size >= 2
    /\ NumEvents \in Nat \ {0} /\ Reserve \in 0..NumEvents
    /\ MaxLines \in Nat /\ MaxColumns \in Nat

VARIABLES typed,      \* the line and the column typed last
          overflow,   \* ignore the rest of the line
          needspoll,  \* serial_line_process has been polled
          buf, ptr,   \* the line buffer and the place of the next byte
          thread,     \* where serial_line_process is
          queue,      \* the event queue
          handled     \* history: the line last given to the processes

inputVars == <<typed, overflow>>
threadVars == <<buf, ptr, thread>>
eventVars == <<queue, handled>>
lineVars == <<inputVars, needspoll, threadVars, eventVars>>

(* The C string in the buffer. *)
String(b) == LET n == CHOOSE i \in Slot :
                        /\ b[i] = NUL
                        /\ \A j \in 0..(i - 1) : b[j] # NUL
             IN [i \in 1..n |-> b[i - 1]]

(* Events: a broadcast line, with what it said when it was posted. *)
Line(text) == [ev |-> "LINE", text |-> text]
Other(ev) == [ev |-> ev, text |-> <<>>]
Events == {queue[i].ev : i \in DOMAIN queue}

(* serial_line_init(); the buffers are static and hold zeros. *)
LineInit ==
    /\ Init
    /\ data = [i \in Slot |-> NUL] /\ arg = NUL /\ c = NUL
    /\ typed = <<1, 0>> /\ overflow = FALSE
    /\ needspoll = FALSE
    /\ buf = [i \in Slot |-> NUL] /\ ptr = 0
    /\ thread = "run"
    /\ queue = <<>>
    /\ handled = [read |-> <<>>, posted |-> <<>>]

------------------------------------------------------------------------------
(* Slip: a line that overflowed goes on as soon as there is room. *)
Skipped_never(b) == FALSE

(* After an overflow only a newline is put in. *)
Skipped(b) == overflow /\ b # END

(* Slip: a process that does not wait is not polled. *)
input_end_waiting(accepted) ==
    /\ overflow' = ~ accepted
    /\ needspoll' = (needspoll \/ thread = "yield")

(* The interrupt ends: what ringbuf_put() returned, and process_poll(). *)
input_end(accepted) ==
    /\ overflow' = ~ accepted
    /\ needspoll' = TRUE

(* serial_line_input_byte(): the byte is skipped, or ringbuf_put() begins, *)
serial_line_input_byte(b) ==
    /\ producer = "idle"
    /\ IF Skipped(b) THEN UNCHANGED vars ELSE put_test(b)
    /\ IF Skipped(b) \/ full THEN input_end(FALSE)
       ELSE UNCHANGED <<overflow, needspoll>>
    /\ UNCHANGED <<threadVars, eventVars>>

(* stores the byte, *)
input_store == put_data /\ UNCHANGED lineVars

(* and succeeds. *)
input_accepted ==
    /\ put_advance
    /\ input_end(TRUE)
    /\ UNCHANGED <<typed, threadVars, eventVars>>

type_char ==
    /\ typed[1] <= MaxLines /\ typed[2] < MaxColumns
    /\ typed' = [typed EXCEPT ![2] = @ + 1]
    /\ serial_line_input_byte(typed')

type_end ==
    /\ typed[1] <= MaxLines
    /\ typed' = <<typed[1] + 1, 0>>
    /\ serial_line_input_byte(END)

------------------------------------------------------------------------------
Running == producer = "idle" /\ thread = "run"

(* ringbuf_get() begins, and finds a byte or nothing, *)
get_begin ==
    /\ Running
    /\ get_test
    /\ thread' = IF consumer' = "idle" THEN "empty" ELSE thread
    /\ UNCHANGED <<inputVars, needspoll, buf, ptr, eventVars>>

(* upon which the process yields. *)
yield ==
    /\ producer = "idle" /\ thread = "empty"
    /\ thread' = "yield"
    /\ UNCHANGED <<vars, inputVars, needspoll, buf, ptr, eventVars>>

get_load == Running /\ get_data /\ UNCHANGED lineVars

(* A byte of the line is stored if the terminating zero still fits. *)
Fits == ptr < BufSize - 1

get_char ==
    /\ Running /\ get_advance /\ got' # END
    /\ IF Fits THEN buf' = [buf EXCEPT ![ptr] = got'] /\ ptr' = ptr + 1
       ELSE UNCHANGED <<buf, ptr>>
    /\ UNCHANGED <<inputVars, needspoll, thread, eventVars>>

await == thread' = "wait" /\ ptr' = ptr + 1

(* The end of the line: it is broadcast, and the process waits for an      *)
(* event that it posts behind the broadcast, if it can post it.            *)
get_end ==
    /\ Running /\ get_advance /\ got' = END
    /\ buf' = [buf EXCEPT ![ptr] = NUL]
    /\ LET one == IF Len(queue) < NumEvents
                  THEN Append(queue, Line(String(buf'))) ELSE queue
       IN IF Len(one) < NumEvents
          THEN queue' = Append(one, Other("CONTINUE")) /\ await
          ELSE queue' = one /\ UNCHANGED thread /\ ptr' = 0
    /\ UNCHANGED <<inputVars, needspoll, handled>>

------------------------------------------------------------------------------
(* The scheduler runs when no process does. *)
Scheduling == producer = "idle" /\ thread \in {"yield", "wait"}

(* serial_line_process is called with an event: PROCESS_YIELD() returns on *)
(* any, PROCESS_WAIT_EVENT_UNTIL() on the one it waits for.                *)
called(ev) ==
    IF thread = "yield" \/ ev = "CONTINUE"
    THEN thread' = "run" /\ ptr' = IF thread = "wait" THEN 0 ELSE ptr
    ELSE UNCHANGED <<thread, ptr>>

do_poll ==
    /\ Scheduling /\ needspoll
    /\ needspoll' = FALSE
    /\ called("POLL")
    /\ UNCHANGED <<vars, inputVars, buf, eventVars>>

(* An event is delivered; a line is read by the processes that get it. *)
do_event ==
    /\ Scheduling /\ queue # <<>>
    /\ queue' = Tail(queue)
    /\ LET e == Head(queue) IN
         /\ handled' = IF e.ev = "LINE"
                       THEN [read |-> String(buf), posted |-> e.text]
                       ELSE handled
         /\ IF e.ev = "OTHER" THEN UNCHANGED <<thread, ptr>> ELSE called(e.ev)
    /\ UNCHANGED <<vars, inputVars, needspoll, buf>>

(* Other processes post events too. *)
post_other ==
    /\ Scheduling /\ Len(queue) + Reserve < NumEvents
    /\ queue' = Append(queue, Other("OTHER"))
    /\ UNCHANGED <<vars, inputVars, needspoll, threadVars, handled>>

Interrupt == input_store \/ input_accepted
Process == get_begin \/ yield \/ get_load \/ get_char \/ get_end

LineNext ==
    \/ type_char \/ type_end \/ Interrupt
    \/ Process
    \/ do_poll \/ do_event \/ post_other

LineSpec == LineInit /\ [][LineNext]_<<vars, lineVars>>

(* An interrupt ends, a process that is called runs on until it yields,    *)
(* and the scheduler polls and delivers.                                   *)
FairSpec ==
    /\ LineSpec
    /\ WF_<<vars, lineVars>>(Interrupt) /\ WF_<<vars, lineVars>>(Process)
    /\ WF_<<vars, lineVars>>(do_poll) /\ WF_<<vars, lineVars>>(do_event)

------------------------------------------------------------------------------
(* The line buffer is not overrun, and a zero ends the string in it;       *)
(* bytes lost to overflow never splice two lines: what the processes read  *)
(* is the beginning of one typed line, without a gap; and "wait until all  *)
(* processes have handled the serial line event": what they read is what   *)
(* the buffer said when the line was broadcast.                            *)
LineSound ==
    /\ ptr \in 0..BufSize /\ (ptr = BufSize => thread = "wait")
    /\ buf \in [Slot -> Char \cup {NUL}] /\ \E i \in Slot : buf[i] = NUL
    /\ \A i \in DOMAIN handled.read :
         /\ handled.read[i] \in Char
         /\ handled.read[i][1] = handled.read[1][1]
         /\ handled.read[i][2] = i
    /\ handled.read = handled.posted

(* When the typing ends, everything is read and handled. *)
AllHandled == <>[](ringbuf_elements = 0 /\ "LINE" \notin Events)
==============================================================================
