------------------------------- MODULE Process -------------------------------
(***************************************************************************)
(* The process scheduler of os/sys/process.c with the main loop of         *)
(* os/contiki-main.c.  Processes are protothreads: the kernel calls        *)
(* p->thread(), which runs to completion on the one C stack, and may call  *)
(* the kernel again from there.  The stack is explicit, because the loops  *)
(* over process_list hold a cursor across the calls that they make, while  *)
(* the processes they call change the list under them.  Interrupts poll    *)
(* processes between any two steps.                                        *)
(*                                                                         *)
(* What a thread does when it runs is left open: any kernel calls (at most *)
(* MaxCalls of them), then a yield or its end.  The event queue is the     *)
(* FIFO that module EventQueue shows it to be.                             *)
(***************************************************************************)
EXTENDS Naturals, Sequences, FiniteSets

CONSTANTS Proc,        \* the struct process objects
          NULL,        \* the null pointer, which is also PROCESS_BROADCAST
          NumEvents,   \* PROCESS_CONF_NUMEVENTS
          Posted,      \* the events that processes post: "MSG", "EXIT"
          MaxThreads,  \* bound: nested thread calls
          MaxCalls,    \* bound: kernel calls of one activation of a thread
          MaxStarts,   \* bound: calls of process_start() that start
          SelfExit     \* may a thread call process_exit() on itself?

ASSUME ProcessAssumption ==
    /\ NULL \notin Proc
    /\ NumEvents \in Nat \ {0}
    /\ Posted \subseteq {"MSG", "EXIT"}
    /\ MaxThreads \in Nat /\ MaxCalls \in Nat /\ MaxStarts \in Nat
    /\ SelfExit \in BOOLEAN

VARIABLES process_list,     \* head of the list of started processes
          next,             \* p->next, never cleared by the code
          state,            \* p->state
          needspoll,        \* p->needspoll
          poll_requested,
          process_current,
          events,           \* the queued events, oldest first
          stack,            \* the activations on the C stack, innermost first
          main,             \* where main() is when the stack is empty
          starts,           \* processes started so far (for MaxStarts)
          owed              \* history: polls requested and not yet served

vars == <<process_list, next, state, needspoll, poll_requested,
          process_current, events, stack, main, starts, owed>>
listVars == <<process_list, next, starts>>
pollVars == <<needspoll, poll_requested, owed>>

(* The processes met by a walk along the next pointers from q on: they are *)
(* in every set that holds q and that no pointer leads out of.             *)
Closed(S) == \A x \in S : next[x] \in S \cup {NULL}
From(q) ==
    {x \in Proc :
       \A S \in SUBSET Proc : q \in S \cup {NULL} /\ Closed(S) => x \in S}

OnList(p) == p \in From(process_list)

------------------------------------------------------------------------------
(* Activations.  A walk holds its cursor q, and whether q has been handled *)
(* already ("advance"); due is history: who was running when it began.     *)
Thread(p, ev, direct) ==
    [f |-> "thread", p |-> p, ev |-> ev, direct |-> direct, calls |-> 0]
PollWalk(q) == [f |-> "do_poll", q |-> q, at |-> "visit"]
EventWalk(q, ev, due) ==
    [f |-> "do_event", q |-> q, at |-> "poll", ev |-> ev, due |-> due]
ExitWalk(p, from, q, due) ==
    [f |-> "exit_process", p |-> p, from |-> from, q |-> q, at |-> "visit",
     old |-> process_current, due |-> due]
Unlink(p, old) == [f |-> "unlink", p |-> p, old |-> old]
Synch == [f |-> "post_synch", caller |-> process_current]

Top == Head(stack)
Rest == Tail(stack)
In(f) == stack # <<>> /\ Top.f = f
At(f, at) == In(f) /\ Top.at = at
Replaced(f) == <<f>> \o Rest

Depth == Cardinality({i \in DOMAIN stack : stack[i].f = "thread"})
Frames(p) == {i \in DOMAIN stack :
                stack[i].f \in {"thread", "exit_process", "unlink"}
                /\ stack[i].p = p}
Running == {p \in Proc : state[p] = "RUNNING"}

(* A process that (re)starts is not due anything from the walks under way. *)
Forget(p, s) ==
    [i \in DOMAIN s |->
       IF s[i].f \in {"do_event", "exit_process"}
       THEN [s[i] EXCEPT !.due = @ \ {p}] ELSE s[i]]

------------------------------------------------------------------------------
(* process_init() and the statics. *)
Init ==
    /\ process_list = NULL
    /\ next = [p \in Proc |-> NULL]
    /\ state = [p \in Proc |-> "NONE"]
    /\ needspoll = [p \in Proc |-> FALSE]
    /\ poll_requested = FALSE
    /\ process_current = NULL
    /\ events = <<>>
    /\ stack = <<>>
    /\ main = "boot"
    /\ starts = 0
    /\ owed = {}

(* Slip: any process that is not stopped is called. *)
call_started(p, ev, rest, s) ==
    IF s[p] # "NONE"
    THEN /\ stack' = <<Thread(p, ev, FALSE)>> \o rest
         /\ state' = [s EXCEPT ![p] = "CALLED"]
         /\ process_current' = p
    ELSE stack' = rest /\ state' = s /\ UNCHANGED process_current

(* call_process(), up to the call of the thread, with the stack that the   *)
(* thread returns to and the process states at the call.                   *)
call_process(p, ev, rest, s) ==
    IF s[p] = "RUNNING"
    THEN /\ stack' = <<Thread(p, ev, FALSE)>> \o rest
         /\ state' = [s EXCEPT ![p] = "CALLED"]
         /\ process_current' = p
    ELSE stack' = rest /\ state' = s /\ UNCHANGED process_current

(* process_post(); the result is not used by the model's threads. *)
process_post(p, ev) ==
    events' = IF Len(events) = NumEvents THEN events
              ELSE Append(events, [p |-> p, ev |-> ev])

(* Slip: the flag is raised only for a process that is not in a call. *)
process_poll_idle(p) ==
    IF state[p] # "NONE"
    THEN /\ needspoll' = [needspoll EXCEPT ![p] = TRUE]
         /\ poll_requested' = (poll_requested \/ state[p] = "RUNNING")
         /\ owed' = owed \cup {p}
    ELSE UNCHANGED pollVars

process_poll(p) ==
    IF state[p] # "NONE"
    THEN /\ needspoll' = [needspoll EXCEPT ![p] = TRUE]
         /\ poll_requested' = TRUE
         /\ owed' = owed \cup {p}
    ELSE UNCHANGED pollVars

process_start(p, rest) ==
    IF OnList(p)
    THEN stack' = rest /\ UNCHANGED <<listVars, state, process_current, owed>>
    ELSE /\ starts < MaxStarts
         /\ starts' = starts + 1
         /\ next' = [next EXCEPT ![p] = process_list]
         /\ process_list' = p
         /\ owed' = owed \ {p}
         /\ call_process(p, "INIT", <<Synch>> \o Forget(p, rest),
                         [state EXCEPT ![p] = "RUNNING"])

(* Slip: a process that ends by itself is not taken off the list. *)
exit_process_stop(p, from, rest) ==
    IF ~ OnList(p)
    THEN stack' = rest /\ UNCHANGED <<state, owed>>
    ELSE /\ state' = [state EXCEPT ![p] = "NONE"]
         /\ owed' = owed \ {p}
         /\ stack' = IF p = from THEN rest
                     ELSE <<ExitWalk(p, from, process_list, Running \ {p})>>
                          \o rest

(* exit_process(), up to its first loop over the list. *)
exit_process(p, from, rest) ==
    IF ~ OnList(p)
    THEN stack' = rest /\ UNCHANGED <<state, owed>>
    ELSE IF state[p] # "NONE"
    THEN /\ state' = [state EXCEPT ![p] = "NONE"]
         /\ owed' = owed \ {p}
         /\ stack' = <<ExitWalk(p, from, process_list, Running \ {p})>> \o rest
    ELSE /\ stack' = <<Unlink(p, process_current)>> \o rest
         /\ UNCHANGED <<state, owed>>

------------------------------------------------------------------------------
(* The loop of exit_process() that tells everybody else; *)
exit_visit ==
    /\ At("exit_process", "visit")
    /\ LET q == Top.q
           gone == Unlink(Top.p, Top.old)
           told == Replaced([Top EXCEPT !.at = "advance", !.due = @ \ {q}])
       IN CASE q = NULL /\ Top.p = Top.from ->
                 stack' = Replaced(gone) /\ UNCHANGED <<state, process_current>>
            [] q = NULL /\ Top.p # Top.from ->
                 /\ stack' = <<Thread(Top.p, "EXIT", TRUE)>> \o Replaced(gone)
                 /\ process_current' = Top.p
                 /\ UNCHANGED state
            [] q # NULL /\ q = Top.p ->
                 stack' = told /\ UNCHANGED <<state, process_current>>
            [] OTHER -> call_process(q, "EXITED", told, state)
    /\ UNCHANGED <<listVars, pollVars, events, main>>

exit_advance ==
    /\ At("exit_process", "advance")
    /\ stack' = Replaced([Top EXCEPT !.q = next[@], !.at = "visit"])
    /\ UNCHANGED <<listVars, state, pollVars, process_current, events, main>>

(* Slip: the removed process forgets its successor. *)
exit_unlink_clear ==
    /\ In("unlink")
    /\ LET p == Top.p
           q == {x \in From(process_list) : next[x] = p}
       IN IF p = process_list
          THEN process_list' = next[p] /\ next' = [next EXCEPT ![p] = NULL]
          ELSE /\ next' = [x \in Proc |-> IF x = p THEN NULL
                             ELSE IF x \in q THEN next[p] ELSE next[x]]
               /\ UNCHANGED process_list
    /\ process_current' = Top.old
    /\ stack' = Rest
    /\ UNCHANGED <<starts, state, pollVars, events, main>>

(* and the removal of the process from the list. *)
exit_unlink ==
    /\ In("unlink")
    /\ LET p == Top.p
           q == {x \in From(process_list) : next[x] = p}
       IN IF p = process_list
          THEN process_list' = next[p] /\ UNCHANGED next
          ELSE /\ next' = [x \in Proc |-> IF x \in q THEN next[p] ELSE next[x]]
               /\ UNCHANGED process_list
    /\ process_current' = Top.old
    /\ stack' = Rest
    /\ UNCHANGED <<starts, state, pollVars, events, main>>

------------------------------------------------------------------------------
(* Slip: the flag is cleared when the walk is over. *)
poll_visit_clear ==
    /\ At("do_poll", "visit")
    /\ LET q == Top.q
           seen == Replaced([Top EXCEPT !.at = "advance"])
       IN IF q # NULL /\ needspoll[q]
          THEN /\ needspoll' = [needspoll EXCEPT ![q] = FALSE]
               /\ owed' = owed \ {q}
               /\ call_process(q, "POLL", seen, [state EXCEPT ![q] = "RUNNING"])
          ELSE /\ stack' = IF q = NULL THEN Rest ELSE seen
               /\ UNCHANGED <<state, process_current, needspoll, owed>>
    /\ poll_requested' = (poll_requested /\ Top.q # NULL)
    /\ UNCHANGED <<listVars, events, main>>

(* The walk of do_poll(). *)
poll_visit ==
    /\ At("do_poll", "visit")
    /\ LET q == Top.q
           seen == Replaced([Top EXCEPT !.at = "advance"])
       IN IF q # NULL /\ needspoll[q]
          THEN /\ needspoll' = [needspoll EXCEPT ![q] = FALSE]
               /\ owed' = owed \ {q}
               /\ call_process(q, "POLL", seen, [state EXCEPT ![q] = "RUNNING"])
          ELSE /\ stack' = IF q = NULL THEN Rest ELSE seen
               /\ UNCHANGED <<state, process_current, needspoll, owed>>
    /\ UNCHANGED <<listVars, poll_requested, events, main>>

poll_advance ==
    /\ At("do_poll", "advance")
    /\ stack' = Replaced([Top EXCEPT !.q = next[@], !.at = "visit"])
    /\ UNCHANGED <<listVars, state, pollVars, process_current, events, main>>

(* The walk of do_event() for a broadcast, which polls in between. *)
event_poll ==
    /\ At("do_event", "poll")
    /\ LET calling == Replaced([Top EXCEPT !.at = "call"])
       IN CASE Top.q = NULL -> stack' = Rest /\ UNCHANGED poll_requested
            [] Top.q # NULL /\ poll_requested ->
                 /\ poll_requested' = FALSE
                 /\ stack' = <<PollWalk(process_list)>> \o calling
            [] OTHER -> stack' = calling /\ UNCHANGED poll_requested
    /\ UNCHANGED <<listVars, state, needspoll, owed, process_current, events,
                   main>>

event_call ==
    /\ At("do_event", "call")
    /\ call_process(Top.q, Top.ev,
         Replaced([Top EXCEPT !.at = "advance", !.due = @ \ {Top.q}]), state)
    /\ UNCHANGED <<listVars, pollVars, events, main>>

event_advance ==
    /\ At("do_event", "advance")
    /\ stack' = Replaced([Top EXCEPT !.q = next[@], !.at = "poll"])
    /\ UNCHANGED <<listVars, state, pollVars, process_current, events, main>>

------------------------------------------------------------------------------
(* The kernel calls of the thread that runs. *)
MayCall == In("thread") /\ Top.calls < MaxCalls
Calling == Replaced([Top EXCEPT !.calls = @ + 1])

thread_post(p, ev) ==
    /\ MayCall
    /\ process_post(p, ev)
    /\ stack' = Calling
    /\ UNCHANGED <<listVars, state, pollVars, process_current, main>>

process_post_synch(p, ev) ==
    /\ MayCall /\ Depth < MaxThreads
    /\ call_process(p, ev, <<Synch>> \o Calling, state)
    /\ UNCHANGED <<listVars, pollVars, events, main>>

thread_start(p) ==
    /\ MayCall /\ Depth < MaxThreads
    /\ process_start(p, Calling)
    /\ UNCHANGED <<needspoll, poll_requested, events, main>>

(* A thread stops another process that is neither in a call nor exiting,   *)
(* or, with SelfExit, itself.                                              *)
process_exit(p) ==
    /\ MayCall /\ Depth < MaxThreads
    /\ Frames(p) = {} \/ (SelfExit /\ Frames(p) = {1})
    /\ exit_process(p, process_current, Calling)
    /\ UNCHANGED <<listVars, process_current, needspoll, poll_requested,
                   events, main>>

(* The thread yields, *)
thread_yield ==
    /\ In("thread") /\ Top.ev # "EXIT"
    /\ state' = [state EXCEPT ![Top.p] = "RUNNING"]
    /\ stack' = Rest
    /\ UNCHANGED <<listVars, pollVars, process_current, events, main>>

(* or ends, or returns from the exit event. *)
thread_end ==
    /\ In("thread") /\ ~ Top.direct
    /\ exit_process(Top.p, Top.p, Rest)
    /\ UNCHANGED <<listVars, process_current, needspoll, poll_requested,
                   events, main>>

(* The direct call by exit_process() ignores what the thread returns. *)
thread_exited ==
    /\ In("thread") /\ Top.direct
    /\ stack' = Rest
    /\ UNCHANGED <<listVars, state, pollVars, process_current, events, main>>

(* process_post_synch() restores its caller. *)
synch_return ==
    /\ In("post_synch")
    /\ process_current' = Top.caller
    /\ stack' = Rest
    /\ UNCHANGED <<listVars, state, pollVars, events, main>>

------------------------------------------------------------------------------
(* main(): processes are started, then process_run() is called for ever. *)
boot_start(p) ==
    /\ main = "boot" /\ stack = <<>>
    /\ process_start(p, <<>>)
    /\ UNCHANGED <<needspoll, poll_requested, events, main>>

boot_done ==
    /\ main = "boot" /\ stack = <<>>
    /\ main' = "run"
    /\ UNCHANGED <<listVars, state, pollVars, process_current, events, stack>>

(* process_run(): first the polls, *)
run_poll ==
    /\ main = "run" /\ stack = <<>>
    /\ main' = "event"
    /\ poll_requested' = FALSE
    /\ stack' = IF poll_requested THEN <<PollWalk(process_list)>> ELSE <<>>
    /\ UNCHANGED <<listVars, state, needspoll, owed, process_current, events>>

(* then one event. *)
do_event ==
    /\ main = "event" /\ stack = <<>>
    /\ main' = "result"
    /\ IF events = <<>>
       THEN UNCHANGED <<events, stack, state, process_current>>
       ELSE LET e == Head(events) IN
            /\ events' = Tail(events)
            /\ IF e.p = NULL
               THEN /\ stack' = <<EventWalk(process_list, e.ev, Running)>>
                    /\ UNCHANGED <<state, process_current>>
               ELSE call_process(e.p, e.ev, <<>>, state)
    /\ UNCHANGED <<listVars, pollVars>>

(* main() idles when process_run() returns that nothing is waiting; *)
run_return ==
    /\ main = "result" /\ stack = <<>>
    /\ main' = IF events = <<>> /\ ~ poll_requested THEN "idle" ELSE "run"
    /\ UNCHANGED <<listVars, state, pollVars, process_current, events, stack>>

(* Slip: the CPU sleeps without looking again. *)
platform_idle_blind ==
    /\ main = "idle"
    /\ main' = "sleep"
    /\ UNCHANGED <<listVars, state, pollVars, process_current, events, stack>>

(* platform_idle() looks again, with interrupts disabled. *)
platform_idle ==
    /\ main = "idle"
    /\ main' = IF events = <<>> /\ ~ poll_requested THEN "sleep" ELSE "run"
    /\ UNCHANGED <<listVars, state, pollVars, process_current, events, stack>>

(* An interrupt handler polls a process and wakes the CPU. *)
interrupt(p) ==
    /\ process_poll(p)
    /\ main' = IF main = "sleep" THEN "run" ELSE main
    /\ UNCHANGED <<listVars, state, process_current, events, stack>>

------------------------------------------------------------------------------
ThreadCall ==
    \/ \E p \in Proc \cup {NULL}, ev \in Posted : thread_post(p, ev)
    \/ \E p \in Proc, ev \in Posted : process_post_synch(p, ev)
    \/ \E p \in Proc : thread_start(p) \/ process_exit(p)

ThreadReturn == thread_yield \/ thread_end \/ thread_exited

Kernel ==
    \/ exit_visit \/ exit_advance \/ exit_unlink
    \/ poll_visit \/ poll_advance
    \/ event_poll \/ event_call \/ event_advance
    \/ synch_return
    \/ run_poll \/ do_event \/ run_return \/ platform_idle

Boot == (\E p \in Proc : boot_start(p)) \/ boot_done

Next ==
    \/ Boot
    \/ Kernel
    \/ ThreadCall
    \/ ThreadReturn
    \/ \E p \in Proc : interrupt(p)

Spec == Init /\ [][Next]_vars

(* Every loop and every thread runs to its end: there is one stack and the *)
(* interrupts leave it time.                                               *)
FairSpec ==
    Spec /\ WF_vars(boot_done) /\ WF_vars(Kernel) /\ WF_vars(ThreadReturn)

------------------------------------------------------------------------------
(* Type invariant; the activations are those that the code can nest. *)
TypeOK ==
    /\ process_list \in Proc \cup {NULL}
    /\ next \in [Proc -> Proc \cup {NULL}]
    /\ state \in [Proc -> {"NONE", "RUNNING", "CALLED"}]
    /\ needspoll \in [Proc -> BOOLEAN]
    /\ poll_requested \in BOOLEAN
    /\ process_current \in Proc \cup {NULL}
    /\ events \in Seq([p : Proc \cup {NULL}, ev : Posted])
    /\ Len(events) <= NumEvents
    /\ \A i \in DOMAIN stack :
         stack[i].f \in {"thread", "do_poll", "do_event", "exit_process",
                         "unlink", "post_synch"}
    /\ main \in {"boot", "run", "event", "result", "idle", "sleep"}
    /\ starts \in 0..MaxStarts
    /\ owed \subseteq Proc

(* process.h: process_is_running() and process_list agree.  A process that *)
(* runs is on the list, where polls and broadcasts find it, and one that   *)
(* is on the list without running is on its way out.                       *)
RunningIsListed ==
    LET listed == From(process_list) IN
    /\ \A p \in Proc : state[p] # "NONE" => p \in listed
    /\ \A p \in listed : state[p] = "NONE" => Frames(p) # {}

(* A protothread has no stack of its own: its thread is never called again *)
(* while an earlier call of it has not returned, by whatever mixture of    *)
(* synchronous events, polls, exits and restarts.                          *)
NoReentry ==
    \A p \in Proc :
      Cardinality({i \in DOMAIN stack :
                     stack[i].f = "thread" /\ stack[i].p = p}) <= 1

(* Whatever a thread has called, PROCESS_CURRENT() is that thread's process *)
(* when it goes on: timers and sockets are charged to it.                   *)
CurrentIsRunner == In("thread") => process_current = Top.p

(* The state is well formed, and so is the C stack: no process is entered  *)
(* twice, and the innermost one is process_current.                        *)
StackSound == TypeOK /\ NoReentry /\ CurrentIsRunner

(* What a walk that stands at q, or has handled q, will still meet. *)
Ahead(w) == IF w.at = "advance" THEN From(next[w.q]) ELSE From(w.q)

(* A poll is never lost: until it is served the process is marked, and     *)
(* either the flag is up or do_poll() has yet to come to it, although the  *)
(* list changes under the cursor and interrupts strike anywhere.           *)
PollKept ==
    \A p \in owed :
      /\ needspoll[p]
      /\ \/ poll_requested
         \/ \E i \in DOMAIN stack :
              stack[i].f = "do_poll" /\ p \in Ahead(stack[i])

(* A broadcast event, and the news that a process exits, reach every       *)
(* process that was running when the walk began and has run since.         *)
WalkReachesAll ==
    \A i \in DOMAIN stack :
      stack[i].f \in {"do_event", "exit_process"} =>
        stack[i].due \cap Running \subseteq Ahead(stack[i])

(* The CPU sleeps only when no event and no poll is waiting. *)
SleepsIdle == main = "sleep" => events = <<>> /\ owed = {}

(* A poll is served, unless the process exits first; and a queue that      *)
(* refuses events has room again, however often processes are polled: the  *)
(* oldest event is taken out.                                              *)
Served ==
    /\ \A p \in Proc : p \in owed ~> p \notin owed
    /\ Len(events) = NumEvents ~> Len(events) < NumEvents
==============================================================================
