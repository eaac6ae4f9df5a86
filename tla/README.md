# TLA+ models of Contiki-NG and of the TPWSN protocols

This directory holds TLA+ specifications of parts of the repository, the TLC
configurations that check them, and TLAPS proofs of what matters most. The
repository is a fork of Contiki-NG (an operating system for small radio nodes)
with protocols of its own in `tpwsn-*/`. Paths below are relative to the root
of the repository; `PROJECT.json` maps every definition to source lines.

1. [The system](#1-the-system)
2. [Modules and how they correspond to the code](#2-modules-and-how-they-correspond-to-the-code)
3. [Runs and what they show](#3-runs-and-what-they-show)
4. [Fairness](#4-fairness)
5. [Proofs](#5-proofs)
6. [What the models showed about the code](#6-what-the-models-showed-about-the-code)
7. [What is not modelled](#7-what-is-not-modelled)
8. [Plan](#8-plan)
9. [Running the checks](#9-running-the-checks)

## 1. The system

A node runs one C stack. *Processes* are protothreads, functions that the
kernel calls with an event and that return when they yield. Interrupt handlers
run between any two instructions, store bytes or time stamps and *poll* a
process. Everything else happens in processes, one at a time.

| Component | State | Operations | Talks to | What is hard |
|---|---|---|---|---|
| Ring buffer, `os/lib/ringbuf.c` | array, two indices | put, get | interrupts put, processes get | no lock; full/empty told from wrapped indices |
| Event queue, `os/sys/process.c` | array, index, count | post, take | all processes | byte arithmetic; refusals when full |
| Process scheduler, `os/sys/process.c`, `os/contiki-main.c` | list of processes, their states and poll flags, current process | start, exit, post, post synchronously, poll, run | calls every process, which call it back | list changes under the cursors of three walks; nested calls; interrupts; sleep |
| Timers, `os/sys/{timer,etimer,ctimer}.c` | list of timers, next expiration, list of callback timers | set, reset, restart, adjust, stop, scan | clock interrupt, event queue | wrapping clock; ticks during the scan; full queue; stale events |
| Serial line, `os/dev/serial-line.c` | ring buffer, overflow flag, one line buffer | input byte (interrupt), collect and broadcast a line | UART interrupt, event queue, all processes | overflow inside a line; one buffer shared with queued events |
| CSMA sender, `os/net/mac/csma/csma-output.c` | a packet queue, two counters and a timer for each neighbor; four pools | queue a packet, transmit, the outcomes | layer above (callback), radio, ctimers, queue buffers | stuck queues; counters carried over; leaks on error paths; retry bounds |
| RMH-B, `tpwsn-rmhb/tpwsn-rmhb.c` | token and version, neighbor table, three timers, flags | announce, beacon, forward a token, recover, sleep, restart | other nodes over UDP, serial line | timer events that are not told apart; memory across sleeps; lost and late messages |
| Trickle timer, `os/lib/trickle-timer.c`, and the protocol of `examples/libs/trickle-library` | interval, counter, a ctimer; a one-byte token | set, consistency, inconsistency, fire, double; send, receive | ctimers, UDP | stale events, late timers, wrapped clock and tokens, suppression |
| TPWSN Trickle, `tpwsn-trickle/`; neighbour discovery, `os/services/tpwsn-neighbour-discovery/` | version; cache of neighbours | send, receive | UDP, timers | timer set again by every event |
| CSMA receiver and duplicate detection, `os/net/mac/csma/csma.c`, `os/net/mac/mac-sequence.c` | last number of each sender | input, is duplicate, register | radio, CSMA sender | lost and late acknowledgements, eviction, age, wrapped numbers |
| TSCH, `os/net/mac/tsch/` | schedule, neighbors and their queues, rings of sent and received packets, lock, the slot in progress | slot operation (interrupt), enqueue, change the schedule, join, leave, give packets back | radio, rtimer, RPL, 6top | everything is shared with an interrupt that also runs while the lock is held; slots last; tables at their limits |
| 6top, `os/net/mac/tsch/sixtop/` | transactions, sequence numbers | request, answer, report, time out | TSCH, scheduling functions | pointers to freed transactions; reports and answers in either order; timeouts |
| Neighbor table, queue buffers, packet buffer, `os/net/` | pools with locks | add, evict, lock | all network layers | eviction of entries in use |
| IPv6, 6LoWPAN, RPL, multicast, `os/net/ipv6/`, `os/net/routing/` | addresses, routes, DAG, fragments | input, output, timers | MAC, applications | reassembly, loops, repair |
| CoAP, MQTT, HTTP, SNMP, `os/net/app-layer/` | transactions, observers, connections | send, retransmit, notify | IPv6, timers | retransmission against late answers |
| Coffee, Antelope, `os/storage/` | files in flash | write, garbage collection | flash driver | crash between two writes |
| Services, `os/services/`; drivers, `arch/` | | | | hardware, applications |

What makes each modelled component correct:

* **Ring buffer, event queue**: bytes and events come out once, in order, and
  are refused only when the buffer is really full.
* **Scheduler**: a poll is never lost, a broadcast reaches every process that
  was there, a protothread is never re-entered, the lists and the states agree,
  `PROCESS_CURRENT()` is right after any nest of calls, the CPU does not sleep
  on work.
* **Timers**: expiry is decided correctly under wrap, noticed by the interrupt,
  posted even after the queue was full, and calls the callback of a ctimer.
* **Serial line**: lines are not spliced, overrun or changed while in use.
* **CSMA**: no queue is stuck, memory is conserved, each packet has its own
  retries, callbacks come once and in order.
* **CSMA link**: what is reported as acknowledged was received, but for
  acknowledgements of others with the same number; the network layer gets duplicates only where one remembered number per sender cannot tell.
* **Trickle**: the timer never stalls, an interval has one transmission point and
  an end, tokens never go back, all nodes agree in the end.
* **TSCH**: a slot works on a link, a neighbor and a packet that stay; a packet
  is in one place and is given back once and in order; nothing that the interrupt
  left is forgotten; the counters of links are right.
* **6top**: a schedule changes only for requests that were accepted and with
  their cells, numbers are reset when they should be, all transactions end.
* **RMH-B**: no timer dies, the table is sound, versions keep their values, a
  walk has one walker and one more for each repeated delivery, versions spread.

## 2. Modules and how they correspond to the code

Definitions carry the names of the C functions and variables. An action stands
for a whole handler, except where another actor can observe the middle of it;
then each observable access is a step.

Operators whose comment begins with "Slip" are plausible coding errors. They
are not used by any specification: `PROJECT.json` ("mutants") names the
definition that each can replace and the property that then fails.

### Composition

```
BoundedFifo  <--refines--  Ringbuf  <--EXTENDS--  SerialLine
     ^-------refines--  EventQueue   used as a FIFO by Process, Timers, SerialLine
MacService   <--refines--  Csma     <--EXTENDS--  CsmaLink
     ^-------refines--  Tsch
Process  scheduler         Timers  timers + clock + queue     Trickle  nodes on their timers
SixP     nodes of 6top     RmhbNode  one node                 Rmhb  the network of nodes
```

`MC*` modules extend a module with the values that a `.cfg` cannot write.
`*Proofs` modules extend it with theorems: `SerialLineProofs` holds those of the
ring buffer and of the driver on it, `CsmaLinkProofs` those of the sender and of
the link under it, `EventProofs` those of the event queue and of what is driven by
its events: the timers and an RMH-B node.

### BoundedFifo, Ringbuf
`BoundedFifo` is the abstract buffer: put, refused put, get, get of nothing.
`Ringbuf` models `ringbuf_put()` and `ringbuf_get()` as three steps each (test,
data access, index store), in the order that `CC_ACCESS_NOW` enforces. `&
r->mask` is the remainder by the size, which the header requires to be a power
of two; the proofs do not need that. The indices are bytes, read and written
atomically, as the comments in the code require.

### EventQueue
`events[]`, `fevent`, `nevents` and the truncation of `fevent + nevents` to
`process_num_events_t`. The assumption `2 * NumEvents - 2 < CharWidth` is what the
code needs and does not test: with an unsigned char at most 128 events (the
default is 32).

### Process
The C stack is explicit: `stack` is a sequence of activations (a thread, the
walks of `do_poll()`, of a broadcast in `do_event()` and of `exit_process()`,
the unlinking that follows, and the restoring end of `process_post_synch()`).
`next` is never cleared, as in the code, so that a cursor on a process that left
the list goes on from there. A thread may post, post synchronously, start and
exit processes (`MaxCalls` calls in an activation), and yields or ends.
`interrupt` may come at any step. `main` is the loop of `contiki-main.c` with
the `platform_idle()` of the sky platform, which tests again with interrupts
disabled. History: `owed` (polls not served) and `due` (in a walk: the
processes that were running when it began).

Assumption on the callers: `process_exit(p)` is called for a process that is
neither in a call nor already exiting; `SelfExit` adds exits of the caller.
Nobody posts `PROCESS_EVENT_INIT`, which `do_event()` would treat specially
(`os/sys/process.c:291`): in the repository it is only passed synchronously, by
`process_start()`.

### Timers
`etimer`, `ctimer` and `timer` with the clock interrupt of the msp430 port and
a bounded event queue. The variable `left` is the true time to expiry, counted
down on every tick and read by no action's guard that models code; it is what
the code's wrapped comparisons are measured against. The scan of
`etimer_process` goes timer by timer, with ticks in between. `take_event`
delivers the oldest event; for `ctimer_process` it includes the search in
`ctimer_list` and the removal.

Assumptions: intervals are below half the clock's range, a listed timer is not
overdue by more than `MaxLag` ticks when the clock ticks (the CPU keeps up),
calls come from processes and after `ctimer_init()`. A timer that expired
`MaxLag` ticks ago or more is set again but not *reset*: how long ago it expired
is not counted further, and after a turn of the clock the code does not know it
either.

### SerialLine
Extends `Ringbuf`, whose steps are those of the driver: the interrupt and the
process come between any two accesses to the buffer.
`serial_line_input_byte()` in the interrupt, the loop of `serial_line_process`,
and the events it posts to itself and to all. A typed byte is its line number
and its column, so that a spliced line is recognised. `Reserve` is the number
of places in the event queue that other processes leave free.

### MacService, Csma
`MacService` is what the layer above may rely on. `Csma` has a queue, two
counters and a timer for each receiver, and four pools. `output_queue` and
`output_drop` are the two ways through `csma_output_packet()`: the nested
allocations (an entry, room in the queue, a packet, metadata, a queue buffer)
succeed, or some take what they get (`NewEntry`, `GotPacket`, `GotMetadata`)
before the next one fails and the frees at the end undo them one by one;
`transmit_from_queue` is the timer's callback with everything it calls, for
each answer of the radio (a broadcast is not acknowledged, so it has no
`noack`). The backoff delay is not modelled: a timer that is set may expire at
any time. Other users take and return queue buffers.

`Tsch` (below) refines the same service, with the packets of the ring of sent
packets before those of the queue.

### CsmaLink
`Csma` over a link to one receiver. `csma_output_packet` adds the sequence
number, which is used up even when the packet is then refused.
`send_one_packet` is an attempt with everything that can be read while the
sender waits: the acknowledgement, nothing, another frame, an acknowledgement
of an earlier attempt (`late`), or one for the frame of another sender; the code
tells them apart by their number only (`Answer`). `overheard` is history: the
packets that were taken for acknowledged because of another sender's frame. The receiver's radio acknowledges what it has room for;
`input_packet` is `csma.c` with the table of `mac-sequence.c`, which other
senders fill too. Fewer packets than numbers are sent and a packet is retried within
`SEQNO_MAX_AGE` (20 s), so that the age of an entry makes no difference; the
table has an entry for every sender, so that none is evicted.

### Trickle
The clock values in the code are only subtracted, so the state holds the time
since the interval began (`age`) and until the ctimer expires (`left`).
`NotPast` is the wrapped comparison of `schedule_for_end()` and
`double_interval()`. `expire` posts the event, `take_event` calls the function
that is set *then*: the ctimer may have been set again in between, as in
`Timers`. A timer that has expired is served at most `MaxLag` ticks late, and a
posted event before the next tick, so that two events of one ctimer are never
queued at a time. The protocol is that of the example:
`value` counts tokens without wrapping and is seen by the code only as
`value % Token`. A new token is generated only when it is less than half the
numbers ahead of every live one; serial number arithmetic cannot do more.

### SixP
Any number of nodes with the transactions of `sixp-trans.c` (a pool of blocks,
their legal transitions, and one ctimer that is either the timeout or the call
of `process_trans()`), the sequence numbers of `sixp-nbr.c`, and `sixp.c`. A
frame given to the MAC layer carries a pointer to its block; the report comes
back through `mac_callback()`, in any order with respect to received frames, as
TSCH handles its two queues one after the other, and finds the block as it is
then: freed, or given to another transaction.

The scheduling function is `examples/6tisch/sixtop/sf-simple.c`: in the call of
`sixp_input()` it answers an ADD with cells, if they are free, and every DELETE,
with success (`request_input`), puts the cells into its static `res_storage` and
changes its schedule when the answer is reported as sent; the side that asked
does so when the answer comes. It answers nothing else, so that those
transactions end by their timeout, and neither sends confirmations nor handles
them. 3-step requests are made, as the code permits, and answered like the others.

A change of the schedule is recorded with the request it is made for and the
request whose cells it takes. History: `requests` (their number, which also names
them), `offered` (requests answered with success), `delivered` (those whose
answer arrived) and `reused` (requests whose block was handed out while a report
of success for another frame was still to come to it).

### Tsch
Two actors. *Process context* is a stack of calls, `todo`: an action works on
the first and replaces it by the calls it makes, so that the interrupt can come
between any two of them. `tsch_get_lock()` is three steps (request, take once no
slot is in progress, withdraw the request); what follows is done with
`tsch_locked` set. The *slot operation* is a begin and an end: a slot in which
the node sends (`"tx"`) or listens (`"rx"`) lasts, and processes run meanwhile.
A slot is skipped while the lock is *requested*; while it is *held*, slots begin
but find no packet, as the functions that the interrupt calls test
`tsch_is_locked()`.

A slot takes the current link, or its backup when there is nothing to send; the
packet is the first of the queue of some neighbor; the attempt counts, moves the
packet to the ring when it is done, sets the backoff window, and may start a
burst. `SlotEnd` schedules the next slot or leaves the network (the desync
test). `tsch_reset` and `tsch_associate` are the two ends of a network's life.
`tsch_reset()` takes no lock and may begin in the middle of a slot, whose packet it
then frees and whose link it clears; what the slot reads through the null pointer
is left open (`SharedLink`). A block that was freed under a slot is not given to
another packet in the model.

Abstractions: any link of the schedule may be the next one (time is abstract);
the order of the neighbor list is left open; slotframes exist only as the
number that decides which of two links comes first; beacons bring a fixed
schedule, which lists a slot at most once because it is made from one that does,
so that adding its links does not look for a link of the same slot; the callback of a packet does not call the MAC layer again. History:
`fallback` (the current link was a backup link), `cut` (a `tsch_reset()` began in a
slot that was sending), `outcome`, `changes`, `leaves`. `SlotSafe`, `PacketsSound`
(but for its types) and `ImplementsMac` promise nothing once `cut` is set; see
section 6. `KeptAlive` and `LinksCounted` hold also then. To the layer above, the
ring of sent packets and the queue of a receiver are one queue (`Waiting`).

### RmhbNode, Rmhb
`RmhbNode` is one node from the inside: which timers run, how many timer events
are queued, the blocks of `neighbor_mem`, the list, the timer of every block.
The thread handles a timer event by the first branch whose condition holds; the
event does not say which timer it is from. "sleep" frees the blocks and leaves
them on the list; a packet that the radio had already received may still
arrive. The event queue is not full (there are at most a few events).

`Rmhb` is the protocol between nodes: messages in a set `net` are delivered in
any order or lost (`receive`, `lose`), and a unicast may be delivered twice
(`receive_repeat`), as `CsmaLink` shows of the MAC layer: `recv_data_msg()` looks
for no duplicates and forwards the token again. A command line is one action per
command word. Only the pair of value and version is kept of a token; the number
of a walk, the set `started` and `repeats`, how often the token of a walk came
again, are history. A sleeping node receives nothing. In `rmhb_spread` the
token is not repeated (`MaxRepeats` is 0), which keeps the liveness run small.

## 3. Runs and what they show

| Run | Instance | Checks |
|---|---|---|
| `event_queue` | 4 events, counter of 8 values (the largest ratio allowed) | `ImplementsFifo` |
| `process` | 3 processes, nesting 2, 4 starts, queue of 1, `Posted = {"MSG"}`, symmetric | `StackSound`, `RunningIsListed`, `PollKept`, `WalkReachesAll`, `SleepsIdle` |
| `process_live` | 2 processes, 3 starts, both kinds of event | `Served` |
| `timers` | an etimer and a ctimer, clock of 6 values, intervals 0 and 2, queue of 1, lag of 1 | `ListSound`, `ExpiredIsTrue`, `ExpiryNoticed`, `ExpiryPosted` |
| `serial_line` | ring of 4, 3 lines of up to 4 bytes, 3 events of which 2 are reserved | `RingInv`, `LineSound`, `ImplementsFifo`, `AllHandled` |
| `csma` | `CsmaLink`: 3 packets, a neighbor and the broadcast address, 2 queue buffers, numbers modulo 5, one other sender | `QueueAlive`, `PoolsBalanced`, `RetryBudget`, `AckedArrived`, `RepeatsExplained`, `ImplementsMac`, `Finished` |
| `trickle` | 2 nodes, Imin 2, one doubling, K = 1, clock of 16, tokens modulo 4 of which two are new, lag 2 | `NeverStalls`, `IntervalSound`, `NoRegress`, `Agreement` |
| `sixp` | 3 nodes, one block each, 2 of the requests ADD, DELETE (3-step) and CLEAR, numbers modulo 3 | `ClearAsserted`, `OwnCells`, `OnlyAccepted`, `TransEnds` |
| `tsch` | 2 packets to one neighbor, a shared link from the beacon and one to the neighbor that is added and removed, ring of 1 sent packet, 2 changes, the network left once | `SlotSafe`, `PacketsSound`, `KeptAlive`, `LinksCounted`, `ImplementsMac` |
| `rmhb_node` | table of 2, 3 neighbors, 2 sleeps | `NodeSound`, `Responsive` |
| `rmhb` | a line of 3 nodes, 2 starts, 1 sleep, 2 messages in flight, 1 repeat of a walk | `Genuine`, `WalkersExplained` |
| `rmhb_spread` | a pair, one of which may be told not to beacon and the other to be a sink, no sleep | `Spreads` |

Type invariants are conjuncts of one property of a run (`RingInv`, `StackSound`,
`ListSound`, `NodeSound`, `Genuine`, `ClearAsserted`, `PacketsSound`) or are proved
(`Csma`, `CsmaLink`, `EventQueue`, `Trickle`). No run expects a
violation. The largest are `rmhb` (1.9 million states), `process` (1.2 million),
`tsch` (0.95 million), `sixp` (0.7 million) and `csma` (0.57 million); each takes a few
minutes at most.

Why the bounds are enough. The counters and queues of the code matter at their
limits and when they wrap; all instances are small enough that every queue,
pool and buffer is full and empty again within a few steps, and that clocks and
indices wrap several times. In `process`, three processes are the least for
which a walk has a predecessor, a cursor and a successor; nesting of two thread
calls lets a process called by a walk exit another and be told of it; four
starts let every process start and one restart. That run posts no
`PROCESS_EVENT_EXIT`: receiving it only takes from a thread the choice to go on,
so that each of its behaviours is one of a message whose receiver ends. The
event is posted in `process_live`. In `rmhb`, a line of three is
the least network with a node that must forward. In `csma`, a unicast packet that
is retried, one behind it and a broadcast are what confuses numbers and
duplicates; the count starts before the wrap. In `trickle` the tokens are 2, 3
and then 0 again, so that a comparison without wrap goes wrong. In `sixp`, three nodes with one block let a node be busy with another
peer; with two requests both peers can be initiators. In `tsch`, one neighbor
entry is given up and made again, the ring is full with one packet, and the
second packet waits behind the first; links are added, replaced and removed in
any two steps. Larger instances of the
bounded fifo, the event queue and the CSMA sender are covered by proofs.

`serial_line`, `csma` and `sixp` allow deadlock: when all bytes, packets or
requests of the instance are handled, the model stops, as the real device waits
for ever.

## 4. Fairness

* `Process!FairSpec`: weak fairness of the kernel's own steps and of the return
  of threads. There is one stack, interrupts return, and protothreads may not
  block. Which calls a thread makes is not fair.
* `Timers!FairSpec`: the scan and the clock proceed (weak); delivery of events
  is *strongly* fair, because `process_run()` takes one event after each round of
  polls, however often `etimer_process` asks to be polled again.
* `SerialLine!FairSpec`: polls and events are delivered, the process runs.
* `Csma!FairSpec`, `CsmaLink!FairLinkSpec`: a ctimer that is set expires (`Timers`,
  `ListSound` and `ExpiryPosted`), and the receiver reads its frames.
* `Trickle!FairSpec`: time passes and timers are served (weak); of the messages
  that reach a node again and again, some are handled (strong, a lossy link).
* `SixP!FairSpec`: the ctimer of a transaction expires (weak). Nothing else is
  fair: frames, reports and answers may never come.
* `RmhbNode!NodeFairSpec`: timers expire and queued events are delivered.
* `Rmhb!FairSpec`: a node that may beacon does so again and again; of the
  messages of one kind that are sent to a node infinitely often, some arrive
  (strong fairness of delivery, the usual assumption for a lossy link).

`ExpiryPosted` is conditional: it holds once processes stop setting timers. The
scan starts again at the head of the list after each posted event and new timers
go to the head, so that with a queue that is always full, timers at the tail
can wait as long as new ones keep coming.

`Tsch` states no fairness. `tsch_rx_process_pending()` loops while the ring of
received packets has entries, so that packets sent are given back only if frames
do not arrive as fast as they are handled; a fairness assumption would hide that.
`KeptAlive` says instead that what is to be done is never forgotten.

## 5. Proofs

All theorems hold for every value of the constants under the named assumptions
of the modules (`SizeAssumption`, `EventQueueAssumption`, `SerialLineAssumption`,
`ProcessAssumption`, `TimersAssumption`, `CsmaAssumption`, `CsmaLinkAssumption`,
`TrickleAssumption`, `TschAssumption`, `SixPAssumption`, `RmhbNodeAssumption`,
`RmhbAssumption`). Where the code needs more
than that and does not test it, the condition is a hypothesis of the theorem, and
the runs satisfy it (`Punctual` is the exception, see Trickle):

| Hypothesis | Means | Without it |
|---|---|---|
| `~ SelfExit` (`Process`) | no thread exits its own process and goes on | `RunningIsListed` fails, see section 6 |
| `AdjustEarlier` (`Timers`) | `etimer_adjust()` moves timers to an earlier time | `ExpiredIsTrue` fails, see section 6 |
| `RoomForLine` (`SerialLine`) | others leave two places of the event queue free | `LineSound` fails, see section 6 |
| `RoomForLinks` (`Tsch`) | an entry for every neighbor, links that a byte can count | `LinksCounted` fails, see section 6 |
| `Punctual` (`Trickle`) | timers are served within half of `Imin`; the longest interval is less than half the clock | not known for late timers; for the interval see section 6 |

| Theorem | Statement | Argument |
|---|---|---|
| `SerialLineProofs!HandoverSafe` | `Spec => []RingInv` | `RingInv` (`TypeOK /\ Handover`) is inductive: a step of one side changes the number of elements by one in the direction that keeps the other side's test true (`PutAddsOne`, `GetRemovesOne`), and writes only a slot that is not live (`LiveSlot`). |
| `SerialLineProofs!RingbufIsFifo` | `Spec => ImplementsFifo` | Refinement mapping `Contents`; only the tests that fail and the index stores are visible steps (`ContentsPut`, `ContentsGet`); the store of a byte changes no live slot (`ContentsData`). `HandoverSafe` supplies the invariant. |
| `SerialLineProofs!LineHandover`, `LineFifo` | `LineSpec => []RingInv`, `LineSpec => ImplementsFifo` | Every step of the driver is a step of `Ringbuf` or leaves the buffer alone, so that the driver implies the specification of the ring buffer. |
| `SerialLineProofs!LinesSound` | `RoomForLine => (LineSpec => []LineSound)` | See below. |
| `EventProofs!QueueTyped` | `QueueSpec => []QueueTypeOK` | Inductive as it stands, given that a count below the limit does not wrap. |
| `EventProofs!EventQueueIsFifo` | `QueueSpec => ImplementsFifo` | Mapping `Waiting`, a window of the array; `CharSmall` shows that the truncation is harmless under the assumption, `Distinct` that the free slot is not in the window. |
| `CsmaLinkProofs!CsmaQueues` | `Spec => [](TypeOK /\ QueueAlive /\ QueuesSound)` | See below. |
| `CsmaLinkProofs!CsmaRetries` | `Spec => []RetryBudget` | See below. |
| `CsmaLinkProofs!CsmaIsMac` | `Spec => ImplementsMac` | Every step maps to accept, refuse, finish or a stutter; `QueuesSound` gives that the head of a queue is a packet whose outcome is open. |
| `CsmaLinkProofs!LinkQueues`, `LinkIsMac` | the same for `LinkSpec` | `LinkSpec` implies `Spec` of `Csma`. |
| `CsmaLinkProofs!AcknowledgedArrives` | `LinkSpec => []AckedArrived` | See below. |
| `CsmaLinkProofs!PoolsConserved` | `Spec => []PoolsBalanced` | `PoolsInv` is inductive together with `CsmaInv`; the frees of a refused packet are the blocks it got; the places of the queues are a finite set to which a step adds one or from which it takes one. |
| `CsmaLinkProofs!OnlyExplainedRepeats` | `LinkSpec => []RepeatsExplained` | See below. |
| `ProcessProofs!StackWellFormed`, `RunningAreListed`, `PollsKept`, `WalksReachAll`, `SleepsOnlyIdle` | `~ SelfExit => (Spec => []P)` for `StackSound`, `RunningIsListed`, `PollKept`, `WalkReachesAll`, `SleepsIdle` | See below. |
| `EventProofs!TimerListSound`, `TimersExpireTruly`, `TimersNoticed` | `AdjustEarlier => (Spec => []P)` for `ListSound`, `ExpiredIsTrue`, `ExpiryNoticed` | See below. |
| `EventProofs!NodeStaysSound` | `NodeSpec => []NodeSound` | See below (RmhbNode). |
| `SixPProofs!ClearIsAsserted` | `Spec => []ClearAsserted` | See below. |
| `SixPProofs!ChangesAccepted`, `CellsAreOwn` | `Spec => []OnlyAccepted`, `Spec => []OwnCells` | See below. |
| `RmhbProofs!VersionsGenuine`, `WalkersCounted` | `Spec => []Genuine`, `Spec => []WalkersExplained` | See below. |
| `TrickleProofs!TrickleRuns` | `Spec => []NeverStalls` | `StallInv`: every function that the ctimer may call sets it again. |
| `TrickleProofs!TokensAdvance` | `Spec => NoRegress` | `Window`: any two live tokens are less than half the numbers apart, where serial number arithmetic orders them like the numbers themselves (`NewerIsLater` and the lemmas on remainders). |
| `TrickleProofs!IntervalsHold` | `Punctual => (Spec => []IntervalSound)` | See below. |
| `TschProofs!SlotProtected` | `Spec => []SlotSafe` | See below. |
| `TschProofs!NothingForgotten` | `Spec => []KeptAlive` | Inductive with the shape of `todo`: only the call that empties a ring returns when it is empty, and whatever fills one polls. |
| `TschProofs!PacketsKeptOnce` | `Spec => [](~ cut => PacketsSound)` | See below. |
| `TschProofs!TschIsMac` | `Spec => ImplementsMac` | See below. |
| `TschProofs!LinksCountedRight` | `RoomForLinks => (Spec => []LinksCounted)` | See below. |

**Process.** `IInv` describes the whole stack. An activation *holds* a process if
it runs its thread or takes it off the list; a process is held at most once
(`Unique`), has the state that its holder implies and is on the list (`Owners`),
and each activation fits the one under it (`Nested`), which also gives the value
that `process_current` is restored to. The list has no cycle (`NoCycle`), since a
process is put at the head only if it is not there; whoever runs is on it, and
whoever is on it without running is held by an exit (`Listed`). With this, the
effect of `process_start()` and of the unlinking on what *any* pointer leads to is
known (`StartReach`, and the lemmas on `Unlinked`), which is what the walks need:
`Reaching` says that a walk still meets what it owes, and `Polling` that a marked
process is ahead of the cursor of `do_poll()` or the flag is up. `From` is defined
as the least set that is closed under `next`, so that these lemmas need no
induction. `Mains` relates the place in the main loop to the empty stack.

**Timers.** The variable `left` is related to the code's arithmetic by
`TimesTrue`: for a timer on the list, `start + interval - clock` is `left` up to a
turn of the clock. `ExpiredWhenDue` then shows that the unsigned comparison of
`timer_expired()` is right for every width. `NextSound` says that
`next_expiration` is never later than a listed timer's expiry, although it is
stale after timers were dropped, and `Noticed` that a timer that is due has been
seen, or expires at the very tick at which the clock interrupt polls. The
assumption that intervals are at most `MaxLag + 1` costs nothing: `MaxLag` may be
as large as `Half - 1`, where all behaviours of a smaller one are included.

**SerialLine.** `LineInv` follows the bytes from the interrupt to the receivers.
Those in the line buffer, those in the ring and the one being put in are one
stream in which each byte continues the one before it (`Chain`), also when bytes
were dropped: then nothing enters before the end of the line (`StreamSound`). The
line in the queue is what the buffer says while the process waits, because the
event that it waits for stands right behind it (`Awaited`); this is where the two
free places are needed.

**RmhbNode.** `NodeSound` is inductive but for the bound on the events that its
type states: at most `3 + 3 * MaxSleeps` timer events are queued. `NodeInv` adds
why (`EventsBounded`): the events that are queued and the timers that run are
together never more than two and two for each sleep, as an event is what a timer
becomes, a handled event sets as many timers as it uses up, and only "sleep" starts
another one. Uniqueness of addresses on the list survives a sleep, after which
freed blocks are still listed, because an announcement looks through the listed
blocks, freed or not, before a block is taken.

**SixP.** `SixPInv` needs no assumption on timeliness. A node has one transaction
with a peer (`OnePerPeer`), and the number was reset before a CLEAR waits to be
sent (`ClearReset`): this gives the assertion. `CallbacksDue` is what a late
report meets: a transaction with the callback of the scheduling function has
answered, and a report of success that waits for its block is of that answer,
which arrived, unless one waited when the block was handed out; with one block the
cells stored last are its own, because a second request finds no block and is
refused before they are overwritten. `FramesDue` says the same of a frame that
accepts a request, and `ChangesDue` is the result: the two properties for each
change of a schedule. The lemmas follow the code's paths: a request made, a report
to a block in use and to a freed one, a request accepted, refused or left without
answer, a response, a timeout.

**Rmhb.** `RmhbInv` bounds every number in a node or a message by the count of
starts, so that a walk that begins has a number of its own, and says of each node
and message that its value and version come from one start (`Origin`). A handler
is treated once for all message types (`Handling`), for a message that has left
the air and for one that will come again: what it sends is sound, and a walk gets
a walker more only if the message stays and was a token, which `repeats` counts.

**Csma.** The invariants are not inductive one by one. That a packet is given up
late needs to know that its entry's counters were reset when it came to the
head; that attempts are bounded needs the relation between attempts, counters
and collisions. `CsmaInv` therefore adds `CountersFresh` (the counters of an
entry are those of the packet at its head: `transmissions <= attempts <=
transmissions * (MaxBackoff + 1) + collisions`, and packets behind it have had
none) and `NewUntried` (a packet that was not handed over has had none). The
step is proved by kind: an attempt that finishes the packet (`DoneStep`), one
that keeps it (`KeptStep`), a packet queued (`QueueStep`), and steps that leave
the queues alone (`OtherStep`); `AttemptEnds` and `AttemptBound` reduce the four
answers of the radio to the first two.

**CsmaLink.** That a late acknowledgement of this sender is never taken for that of
another packet needs that no two packets have the same number. `LinkInv` says that the
numbers given so far are the ones from the first number up to the counter, with 0
left out and fewer than all of them (`NumbersSound`), and that every
acknowledgement on its way belongs to a packet that was received (`LinkSound`).

For the repeats, `OrderSound` looks at what the receiver has heard and not yet
processed as well (`Heard`): between two frames of a packet there is none of
another packet of the same queue, because a queue finishes one before the next.
`MemorySound` says that the table still has the number of the last packet
delivered. This needs that the table has one entry for each sender and that the
entry that is overwritten is a free one (`TableSound`, `EntryFree`: there are more
entries than senders, by the pigeonhole principle).

**Trickle.** `IntervalSound` bounds when the next call is due from above and from
below. It is inductive when `Punctual` holds: timers are served within half of
`Imin`, and twice the longest interval is *strictly* less than the clock's range;
then `NotPast` takes exactly the differences that are negative for the past. The
run has `2 * MaxLag > Imin` and still finds no violation; the theorem is not
claimed there.

**Tsch.** `IInv` is `SlotKept` with the types it needs (`Types`) and what must be
known of process context (`TodoInv`): `tsch_associate()` and `tsch_reset()` end
with the step that changes the network (`Shape`), they run only while the node
scans, respectively has left, so that no slot sends (`Joining`, `Leaving`); and a
queue that is flushed outside of `tsch_reset()`, which happens *after* the lock
was released, belongs to a neighbor that is not in the list any more
(`FlushesGone`). This is why the flush of `tsch_queue_remove_nbr()` needs no lock.
That of `tsch_reset()` is safe only when it does not begin in a slot that sends:
what is inductive is `cut \/ IInv` (`StepInv`, `CutGrows`), and likewise for the
invariants below. One lemma per action or
group of like actions shows the step; `Returned`, `Pushed` and `StartPlain` treat
the change of `todo` for all of them.

*Packets.* `PacketInv` says that no packet is twice in the queues and in the
undelivered part of the ring (`Single`), that the packet in progress of being
given back is followed only by calls that free neighbors (`Form`), which is why
skipping the first entry of the ring is right until its turn ends, and that a
packet to be added is new (`AddsNew`). `Single` is kept by the four ways in which
packets move (`SingleAdd`, `SingleTake`, `SingleSent`, `SingleFree`).

*The service.* `Waiting` maps the state to what the layer above waits for: of each
receiver, the packets still to be given back from the ring (`For`, in their order),
then its queue. `MacInv` adds to `PacketInv` that a packet is in the queue of its
receiver (`Addressed`), so that a packet that moves from the front of the queue to the
end of the ring keeps its place (`MacSlot`, `ForAppend`), and whose turn it is
(`Ready`): a neighbor is removed only with an empty queue, and `tsch_reset()` flushes a
queue that holds packets only when the ring is empty, because
`tsch_tx_process_pending()` comes first in it and no slot sends meanwhile. A flush is
then the end of the oldest packet of its receiver (`MacFlushes`), and so is the callback
(`MacCallback`, `ForHead`); the ring is advanced unseen (`MacGets`).

*Counters of links.* `CountInv` splits `todo` into the planned calls and the one
change in progress (`Stage`): a link was added or removed and the neighbor's
counter has still to be corrected, or a link or a neighbor is about to go. The
lock is used only by the call in progress (`LockUse`), so that a known neighbor is
not added again; at most one link is in a slot (`OnePerSlot`), and a link that is
going to be added finds its slot free (`Fresh`), since otherwise it would be counted
twice. `Agree` then relates links and counters exactly, and with at most 255 links
and an entry for each neighbor neither the increment nor the decrement wraps.

**Induction.** The library's induction theorems cannot be instantiated here, but
their set form can: the lemma `Induction` of `EventProofs` and `TschProofs`, derived
from the well-foundedness of the natural numbers, proves what the recursive function
behind `Without` keeps of a list of any length, and what the one behind `For` selects
from a ring of any length.

Only model-checked: all liveness properties, and `ExpiryPosted`, `Served`,
`AllHandled`, `Spreads` and the like among them: fairness involves ENABLED, which the
proof system cannot treat.

## 6. What the models showed about the code

Each of these can be seen with TLC by changing the constant or the conjunct
named. None has a run of its own: the runs check the behaviour that the code's
callers rely on.

*Scheduler and timers*

* `os/sys/process.h:384` says that `process_exit()` may be called for the
  currently executing process. If that thread then yields instead of ending,
  `call_process()` marks it running although it is on no list any more
  (`SelfExit = TRUE` violates `RunningIsListed` and `Served`).
* `process_start()` resets neither `needspoll` nor events that are still queued
  for an earlier life of the process (`os/sys/process.c:114`); the new life is
  polled or gets them. `Process` models this; no document promises the contrary.
* If a ctimer is set again while its expiry event is queued, the old event calls
  the new function at once (`os/sys/ctimer.c:76`), where `ctimer.h:112` says "When
  the callback timer expires". `ctimer_process` owns the timers, so that those of
  a process that has exited fire in its name (`os/sys/ctimer.c:78`).
* When a process exits, `etimer_process` drops its timers without calling
  `update_time()` (`os/sys/etimer.c:107`), so that until the next change
  `etimer_next_expiration_time()` returns the time of a dropped timer. It costs
  one superfluous poll: `ExpiryNoticed` holds all the same.
* `etimer_adjust()` with a positive amount that exceeds the time since the start
  moves `timer.start` into the future (`os/sys/etimer.c:208`); the unsigned
  difference in `timer_expired()` wraps and the timer expires at once.
  `ExpiredIsTrue` fails with `Adjustments = {2}`.
* `serial_line_process` does not wait for the receivers of a line when the
  broadcast took the last place in the event queue (`os/dev/serial-line.c:119`),
  although the comment above says that it waits. `LineSound` fails with
  `Reserve = 1`; `Reserve = 2` is what the driver needs.

*CSMA link*

* `mac-sequence.c:79` speaks of "the last few ones", but an entry holds one
  number per sender, of unicasts and broadcasts alike. A unicast packet whose
  acknowledgement was lost is delivered again when a broadcast came before the
  retry. `RepeatsExplained` says that nothing worse happens.
* Acknowledgements carry no address; only the number keeps them apart
  (`csma-output.c:228`). For a sender's own packets this suffices as long as fewer
  packets than numbers are open. An acknowledgement for the frame of another
  sender that is read in the wait and has the same number makes the sender report
  a lost packet as sent; `AckedArrived` names this (`overheard`) as the only case.

*Trickle*

* The stale event of a ctimer (above) calls `fire()` early in a new interval; the
  timer recovers, and `IntervalSound` holds with the early call.
* `trickle_timer_config()` allows a longest interval of exactly half the clock's
  range, for which `NotPast` is wrong by one; `Punctual` excludes it.

*6top*

* The two sides may end with different cells: the answer arrives but is reported
  as lost, a transaction times out while the peer goes on, or the report of the
  request comes after the answer. No property claims that they agree. What holds is
  one direction: no change without a request that was accepted and an answer that
  arrived (`OnlyAccepted`).
* A report of success that is still to come when its transaction times out is taken
  for that of the transaction that gets the block next (`sixp.c:62`): the node then
  changes its schedule although its answer may have been lost (`reused`).
  `OnlyAccepted` fails without this exception.
* `res_storage` of `sf-simple.c:61` is shared by all transactions: with two blocks
  `OwnCells` fails without its premise, a second request overwrites the cells of the
  first.
* The responder to a CLEAR increments `next_seqno` again when its answer is sent,
  whereas the comment at `tests/13-ieee802154/code-6tisch/test-sixp.c:570` says
  that it must be 0 regardless of the acknowledgement of the answer; the test
  stops before the answer.
* A CLEAR that is refused for lack of a block has already reset the number
  (`sixp.c:208`, `sixp.c:379`).

*TSCH*

* `tsch_reset()` flushes all queues without the lock. If the network is left by a
  process in the middle of a slot that sends (a beacon, a keepalive without
  answer), the packet of that slot is freed and the link cleared under it; the slot
  then puts the freed packet into the ring, and it is given back and freed again.
  Checked as an invariant, `SlotKept` fails after 36 steps of the `tsch` instance;
  `PacketsSound` and `ImplementsMac` fail without `cut`.
  `tsch-slot-operation.c:135` speaks of "A global lock for manipulating data
  structures safely from outside of interrupt".
* `tsch_schedule_remove_link()` gives up the link if it is the next one, but does
  not look at `backup_link` (`tsch-schedule.c:298`): the next slot may run a freed
  link. `SlotSafe` fails without its exemption `~ fallback` in an instance where the
  shared link may be removed too (`Dynamic = {all, own}`).
* `tsch_schedule_remove_link()` decrements the counter of a neighbor whose
  increment may have failed for lack of an entry; the byte then stands at 255
  (`LinksCounted` fails with `MaxNeighbors = 3`).
* From the callback of a sent packet to the end of its turn, the first entry of
  the ring of sent packets points to a freed packet; the interrupt only appends,
  so that it does no harm (`Undelivered`).

*RMH-B*

* A token that the MAC layer delivers twice is forwarded twice
  (`tpwsn-rmhb/tpwsn-rmhb.c:291`): one walk then has two walkers.
  `WalkersExplained` says that this is the only way to get a second one.
* Recovery data are accepted without a look at their version, and control
  messages are always answered (`tpwsn-rmhb/tpwsn-rmhb.c:230`). With a restart and
  three messages in flight, two nodes can exchange old recovery data for ever, so
  that a version does not spread; `Spreads` is therefore checked without sleeps.

## 7. What is not modelled

`PROJECT.json` lists all components with the reason. In short: formats and
parsing (framers, 6LoWPAN headers, CoAP and MQTT messages, command lines) have
no interleaving to check; drivers are hardware access; IPv6, RPL, CoAP and Coffee
are candidates of the plan below. The TPWSN Trickle protocol calls
`trickle_init()`, which is defined nowhere in the repository, and the TPWSN
neighbour discovery is a prototype that leaves responses and memory open.

Inside the modelled parts these are left out: `process_alloc_event()`,
`PROCESS_CONF_STATS`, ctimers before `ctimer_init()`, energy accounting, the LEDs
and the hop count of RMH-B and the radio-off effect of its "print" command; the
wrap of sequence numbers within the age of an entry; `trickle_timer_stop()` and
callbacks that reset their trickle timer (`os/lib/trickle-timer.c:281`), which no
modelled caller uses; confirmations, which no scheduling function of the
repository sends, and full neighbor lists in 6top; time
synchronisation, the contents of beacons, security and slotframes in TSCH.

## 8. Plan

In this order; the first six stages are done.

1. Ring buffer, event queue, scheduler, timers, serial line. *Done.*
2. CSMA sender with its abstract service. *Done.*
3. RMH-B, node and network. *Done.*
4. The trickle timer with a protocol on it. *Done.*
5. The CSMA sender with receiver and duplicate detection over a lossy link; the
   serial line over the ring buffer itself. *Done.*
6. TSCH: lock, queues, schedule and slot operation; 6top. *Done.*
7. `NbrTable` with locks and eviction, and its users in the MAC layer.
8. `CoapTransactions` and `CoapObserve` (retransmission against late answers).
9. Coffee with a crash between two flash writes.
10. Proofs: every safety invariant and every refinement that a run checks is
    proved. *Done.*

## 9. Running the checks

```
tlc -workers 2 -config MCProcess.cfg MCProcess      # any run of PROJECT.json
tlapm CsmaLinkProofs.tla                            # any *Proofs module
```
