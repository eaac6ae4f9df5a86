-------------------------------- MODULE Timers --------------------------------
(***************************************************************************)
(* Event timers (os/sys/etimer.c), callback timers (os/sys/ctimer.c) and   *)
(* the passive timers below them (os/sys/timer.c), together with the clock *)
(* interrupt and the event queue, which may be full.                       *)
(*                                                                         *)
(* The clock is a clock_time_t of Width values and wraps.  What time it    *)
(* really is, the model keeps apart: left[t] is the number of ticks until  *)
(* timer t is to expire, counted down tick by tick, and no code reads it.  *)
(* Processes run one at a time, but the clock interrupt comes at any       *)
(* moment, also while etimer_process scans its list.                       *)
(***************************************************************************)
EXTENDS Integers, Sequences, Functions

CONSTANTS Etimer,      \* the etimers that processes own
          Ctimer,      \* the ctimers, each with its embedded etimer
          User,        \* the processes that own etimers
          NULL,        \* PROCESS_NONE, and "no timer" in an event
          Width,       \* number of values of clock_time_t
          Intervals,   \* the intervals that are set
          Adjustments, \* the arguments of etimer_adjust()
          QueueSize,   \* PROCESS_CONF_NUMEVENTS
          MaxPosts,    \* bound: other events posted
          MaxLag       \* bound: ticks that a timer is overdue

Timer == Etimer \cup Ctimer
Half == Width \div 2

ctimer_process == "ctimer_process"

ASSUME TimersAssumption ==
    /\ Etimer \cap Ctimer = {} /\ NULL \notin Timer \cup User \cup {ctimer_process}
    /\ ctimer_process \notin User
    /\ Width \in Nat /\ Half >= 1 /\ Width = 2 * Half
    /\ Intervals \subseteq 0..(Half - 1) /\ Intervals \subseteq 0..(MaxLag + 1)
    /\ Adjustments \subseteq Int
    /\ QueueSize \in Nat \ {0} /\ MaxPosts \in Nat
    /\ MaxLag \in 1..(Half - 1)

VARIABLES clock,            \* clock_time()
          start, interval,  \* t->timer
          p,                \* t->p
          timerlist,        \* in list order
          next_expiration,
          needspoll,        \* etimer_process has been polled
          scan,             \* 0, or where etimer_process is in timerlist
          queue,            \* the event queue
          ctimer_list,
          posts,            \* other events posted so far (for MaxPosts)
          left              \* history: ticks until the timer is to expire

vars == <<clock, start, interval, p, timerlist, next_expiration, needspoll,
          scan, queue, ctimer_list, posts, left>>
timerVars == <<start, interval, left>>
listVars == <<p, timerlist, next_expiration, needspoll>>

TimerEvent(t) == [p |-> p[t], t |-> t]
OtherEvent(u) == [p |-> u, t |-> NULL]

Clock(x) == x % Width
Listed(t) == t \in Range(timerlist)
Overdue == -MaxLag           \* left is not counted below this

Init ==
    /\ clock \in 0..(Width - 1)
    /\ start = [t \in Timer |-> 0] /\ interval = [t \in Timer |-> 0]
    /\ p = [t \in Timer |-> NULL]
    /\ timerlist = <<>> /\ next_expiration = 0
    /\ needspoll = FALSE /\ scan = 0
    /\ queue = <<>> /\ posts = 0
    /\ ctimer_list = {}
    /\ left = [t \in Timer |-> Overdue]

------------------------------------------------------------------------------
(* Slip: now + interval is compared as plain numbers. *)
timer_expired_unwrapped(t) == start[t] + interval[t] <= clock

(* timer_expired(): the elapsed time plus one, in clock_time_t. *)
timer_expired(t) == interval[t] < Clock(clock - start[t] + 1)

(* Slip: the earliest expiration is the smallest clock value. *)
update_time_smallest(list, s, i) ==
    IF list = <<>> THEN 0
    ELSE LET Ends == {Clock(s[t] + i[t]) : t \in Range(list)}
         IN CHOOSE x \in Ends : \A y \in Ends : x <= y

(* update_time(): the smallest distance from now, computed with wraps. *)
update_time(list, s, i) ==
    IF list = <<>> THEN 0
    ELSE LET Distances == {Clock(s[t] + i[t] - clock) : t \in Range(list)}
             tdist == CHOOSE x \in Distances : \A y \in Distances : x <= y
         IN Clock(clock + tdist)

(* The list without the timers in gone; the links of the others stay. *)
Without(list, gone) ==
    LET kept[i \in 0..Len(list)] ==
          IF i = 0 THEN <<>>
          ELSE IF list[i] \in gone THEN kept[i - 1]
          ELSE Append(kept[i - 1], list[i])
    IN kept[Len(list)]

(* Slip: a timer that runs already is put on the list once more. *)
add_timer_again(t, u, s, i) ==
    /\ needspoll' = TRUE
    /\ p' = [p EXCEPT ![t] = u]
    /\ timerlist' = <<t>> \o timerlist
    /\ next_expiration' = update_time(timerlist', s, i)

(* add_timer(), called by u with t->timer as s and i. *)
add_timer(t, u, s, i) ==
    /\ needspoll' = TRUE
    /\ p' = [p EXCEPT ![t] = u]
    /\ timerlist' = IF p[t] # NULL /\ Listed(t) THEN timerlist
                    ELSE <<t>> \o timerlist
    /\ next_expiration' = update_time(timerlist', s, i)

(* A process runs: etimer_process is not in the middle of its scan. *)
Running == scan = 0

timer_set(t, n) ==
    /\ start' = [start EXCEPT ![t] = clock]
    /\ interval' = [interval EXCEPT ![t] = n]
    /\ left' = [left EXCEPT ![t] = n]

(* timer_reset(), then the new interval n.  How late a timer is counts up  *)
(* to MaxLag ticks; one that expired MaxLag ticks ago or more is not reset.*)
timer_reset(t, n) ==
    /\ left[t] > Overdue
    /\ start' = IF timer_expired(t)
                THEN [start EXCEPT ![t] = Clock(@ + interval[t])] ELSE start
    /\ interval' = [interval EXCEPT ![t] = n]
    /\ left' = [left EXCEPT ![t] = IF @ <= 0 THEN @ + n
                                   ELSE @ - interval[t] + n]

timer_restart(t) ==
    /\ start' = [start EXCEPT ![t] = clock]
    /\ left' = [left EXCEPT ![t] = interval[t]]
    /\ UNCHANGED interval

etimer_set(t, n, u) ==
    /\ Running
    /\ timer_set(t, n)
    /\ add_timer(t, u, start', interval')
    /\ UNCHANGED <<clock, scan, queue, ctimer_list, posts>>

etimer_reset_with_new_interval(t, n, u) ==
    /\ Running
    /\ timer_reset(t, n)
    /\ add_timer(t, u, start', interval')
    /\ UNCHANGED <<clock, scan, queue, ctimer_list, posts>>

etimer_reset(t, u) == etimer_reset_with_new_interval(t, interval[t], u)

etimer_restart(t, u) ==
    /\ Running
    /\ timer_restart(t)
    /\ add_timer(t, u, start', interval')
    /\ UNCHANGED <<clock, scan, queue, ctimer_list, posts>>

(* The callers adjust a timer that is running, by a few ticks. *)
etimer_adjust(t, d) ==
    /\ Running /\ Listed(t) /\ left[t] + d \in 0..(Half - 1)
    /\ start' = [start EXCEPT ![t] = Clock(@ + d)]
    /\ left' = [left EXCEPT ![t] = @ + d]
    /\ next_expiration' = update_time(timerlist, start', interval)
    /\ UNCHANGED <<clock, interval, p, timerlist, needspoll, scan, queue,
                   ctimer_list, posts>>

(* etimer_stop() takes the timer off the list, if it is on it. *)
stop_timer(t) ==
    /\ p' = [p EXCEPT ![t] = NULL]
    /\ timerlist' = Without(timerlist, {t})
    /\ next_expiration' = IF Listed(t)
                          THEN update_time(timerlist', start, interval)
                          ELSE next_expiration
    /\ UNCHANGED needspoll

etimer_stop(t) ==
    /\ Running
    /\ stop_timer(t)
    /\ UNCHANGED <<clock, timerVars, scan, queue, ctimer_list, posts>>

------------------------------------------------------------------------------
ctimer_set(c, n) ==
    /\ Running
    /\ timer_set(c, n)
    /\ add_timer(c, ctimer_process, start', interval')
    /\ ctimer_list' = ctimer_list \cup {c}
    /\ UNCHANGED <<clock, scan, queue, posts>>

ctimer_reset(c) ==
    /\ Running
    /\ timer_reset(c, interval[c])
    /\ add_timer(c, ctimer_process, start', interval')
    /\ ctimer_list' = ctimer_list \cup {c}
    /\ UNCHANGED <<clock, scan, queue, posts>>

ctimer_restart(c) ==
    /\ Running
    /\ timer_restart(c)
    /\ add_timer(c, ctimer_process, start', interval')
    /\ ctimer_list' = ctimer_list \cup {c}
    /\ UNCHANGED <<clock, scan, queue, posts>>

ctimer_stop(c) ==
    /\ Running
    /\ stop_timer(c)
    /\ ctimer_list' = ctimer_list \ {c}
    /\ UNCHANGED <<clock, timerVars, scan, queue, posts>>

------------------------------------------------------------------------------
(* etimer_process: a process exits, and its timers are dropped. *)
etimer_exited(u) ==
    /\ Running
    /\ timerlist' = Without(timerlist, {t \in Timer : p[t] = u})
    /\ UNCHANGED <<clock, timerVars, p, next_expiration, needspoll, scan,
                   queue, ctimer_list, posts>>

(* A poll begins the scan, *)
etimer_poll ==
    /\ Running /\ needspoll
    /\ needspoll' = FALSE
    /\ scan' = 1
    /\ UNCHANGED <<clock, timerVars, p, timerlist, next_expiration, queue,
                   ctimer_list, posts>>

(* which passes over a timer that is not expired, *)
scan_skip ==
    /\ scan \in DOMAIN timerlist
    /\ ~ timer_expired(timerlist[scan])
    /\ scan' = scan + 1
    /\ UNCHANGED <<clock, timerVars, listVars, queue, ctimer_list, posts>>

(* posts the event of one that is and starts again, *)
scan_post ==
    /\ scan \in DOMAIN timerlist
    /\ Len(queue) < QueueSize
    /\ LET t == timerlist[scan] IN
         /\ timer_expired(t)
         /\ queue' = Append(queue, TimerEvent(t))
         /\ p' = [p EXCEPT ![t] = NULL]
         /\ timerlist' = Without(timerlist, {t})
    /\ next_expiration' = update_time(timerlist', start, interval)
    /\ scan' = 1
    /\ UNCHANGED <<clock, timerVars, needspoll, ctimer_list, posts>>

(* Slip: the timer waits for the next poll, which nobody requests. *)
scan_full_silent ==
    /\ scan \in DOMAIN timerlist
    /\ Len(queue) = QueueSize
    /\ timer_expired(timerlist[scan])
    /\ scan' = scan + 1
    /\ UNCHANGED <<clock, timerVars, listVars, queue, ctimer_list, posts>>

(* or asks for another poll when the queue is full. *)
scan_full ==
    /\ scan \in DOMAIN timerlist
    /\ Len(queue) = QueueSize
    /\ timer_expired(timerlist[scan])
    /\ needspoll' = TRUE
    /\ scan' = scan + 1
    /\ UNCHANGED <<clock, timerVars, p, timerlist, next_expiration, queue,
                   ctimer_list, posts>>

scan_end ==
    /\ scan > Len(timerlist)
    /\ scan' = 0
    /\ UNCHANGED <<clock, timerVars, listVars, queue, ctimer_list, posts>>

------------------------------------------------------------------------------
(* The scheduler delivers the oldest event.  ctimer_process looks up the   *)
(* ctimer that the event names, takes it off its list and calls it; what   *)
(* a callback or a process then does are further actions.                  *)
take_event ==
    /\ Running /\ queue # <<>>
    /\ queue' = Tail(queue)
    /\ ctimer_list' = IF Head(queue).p = ctimer_process
                      THEN ctimer_list \ {Head(queue).t} ELSE ctimer_list
    /\ UNCHANGED <<clock, timerVars, listVars, scan, posts>>

(* Other events compete for the queue. *)
post_other(u) ==
    /\ Running /\ posts < MaxPosts /\ Len(queue) < QueueSize
    /\ queue' = Append(queue, OtherEvent(u))
    /\ posts' = posts + 1
    /\ UNCHANGED <<clock, timerVars, listVars, scan, ctimer_list>>

(* The clock interrupt: (next - count - 1) > MAX_TICKS, for the clock that *)
(* it has just advanced.  The CPU is not so slow that a timer is overdue   *)
(* by more than MaxLag.                                                    *)
clock_tick ==
    /\ \A t \in Timer : Listed(t) => left[t] > Overdue
    /\ clock' = Clock(clock + 1)
    /\ left' = [t \in Timer |-> IF left[t] > Overdue THEN left[t] - 1
                                ELSE left[t]]
    /\ needspoll' = (needspoll \/ (/\ timerlist # <<>>
                                   /\ Clock(next_expiration - clock' - 1) >= Half))
    /\ UNCHANGED <<start, interval, p, timerlist, next_expiration, scan, queue,
                   ctimer_list, posts>>

------------------------------------------------------------------------------
EtimerCall ==
    \E t \in Etimer, u \in User :
      \/ \E n \in Intervals : \/ etimer_set(t, n, u)
                              \/ etimer_reset_with_new_interval(t, n, u)
      \/ etimer_reset(t, u)
      \/ etimer_restart(t, u)
      \/ etimer_stop(t)
      \/ \E d \in Adjustments : etimer_adjust(t, d)

CtimerCall ==
    \E c \in Ctimer :
      \/ \E n \in Intervals : ctimer_set(c, n)
      \/ ctimer_reset(c) \/ ctimer_restart(c) \/ ctimer_stop(c)

ProcessCall ==
    \/ EtimerCall \/ CtimerCall
    \/ \E u \in User : etimer_exited(u) \/ post_other(u)

Scan == scan_skip \/ scan_post \/ scan_full \/ scan_end

Next ==
    \/ ProcessCall
    \/ etimer_poll \/ Scan \/ take_event \/ clock_tick

Spec == Init /\ [][Next]_vars

(* process_run() takes an event out after every round of polls, so that a  *)
(* process that polls itself cannot keep the queue from being served, and  *)
(* the clock does not stop.                                                *)
FairSpec == Spec /\ WF_vars(etimer_poll) /\ WF_vars(Scan)
                 /\ SF_vars(take_event) /\ WF_vars(clock_tick)

------------------------------------------------------------------------------
(* Type invariant. *)
TypeOK ==
    /\ clock \in 0..(Width - 1)
    /\ start \in [Timer -> 0..(Width - 1)]
    /\ interval \in [Timer -> Intervals \cup {0}]
    /\ p \in [Timer -> User \cup {NULL, ctimer_process}]
    /\ timerlist \in Seq(Timer)
    /\ next_expiration \in 0..(Width - 1)
    /\ needspoll \in BOOLEAN
    /\ scan \in 0..(Len(timerlist) + 1)
    /\ queue \in Seq([p : User \cup {ctimer_process}, t : Timer \cup {NULL}])
    /\ Len(queue) <= QueueSize
    /\ ctimer_list \subseteq Ctimer
    /\ posts \in 0..MaxPosts
    /\ left \in [Timer -> Overdue..Half]

(* The list has no timer twice (a second insertion would tie it into a     *)
(* loop), and every timer on it has the process that its event goes to.    *)
(* A ctimer on ctimer_list has not been forgotten: its etimer is running   *)
(* or its event is in the queue, so that its callback will be called.      *)
ListSound ==
    /\ TypeOK
    /\ \A i, j \in DOMAIN timerlist : timerlist[i] = timerlist[j] => i = j
    /\ \A t \in Timer : Listed(t) => p[t] # NULL
    /\ \A c \in ctimer_list :
         \/ Listed(c)
         \/ [p |-> ctimer_process, t |-> c] \in Range(queue)

(* The clock and the comparisons wrap, but the code's idea of which listed *)
(* timers have expired is the true one.                                    *)
ExpiredIsTrue == \A t \in Timer : Listed(t) => (timer_expired(t) <=> left[t] <= 0)

(* A timer that is overdue is always about to be seen: etimer_process has  *)
(* been polled, or its scan has yet to reach it, although update_time()    *)
(* takes expired timers for timers of the far future.                      *)
ExpiryNoticed ==
    \A i \in DOMAIN timerlist :
      left[timerlist[i]] < 0 => needspoll \/ (scan > 0 /\ scan <= i)

(* Once the processes leave the timers alone, every timer that has expired *)
(* posts its event, even when the queue was full at first.  While they do  *)
(* not, new timers, which go to the head of the list, can take each free   *)
(* place in a full queue.                                                  *)
ExpiryPosted ==
    <>[][~ ProcessCall]_vars =>
      \A t \in Timer :
        Listed(t) /\ left[t] <= 0 ~> ~ Listed(t) \/ left[t] > 0
==============================================================================
