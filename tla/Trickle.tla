------------------------------- MODULE Trickle --------------------------------
(***************************************************************************)
(* The trickle timer of os/lib/trickle-timer.c, with the protocol that     *)
(* examples/libs/trickle-library runs on it: nodes broadcast a one-byte    *)
(* token and take over one that is newer in serial number arithmetic.      *)
(*                                                                         *)
(* The code only uses differences of clock values, so that the state holds *)
(* the time since an interval began and the time until a timer expires     *)
(* (negative when the expiry is noticed late).  The ctimer of a node is    *)
(* that of module Timers: its expiry posts an event, and ctimer_process    *)
(* calls the function that is set when it takes the event, which may have  *)
(* been changed in between.                                                *)
(***************************************************************************)
EXTENDS Integers

CONSTANTS Node,
          NoMail,      \* nothing is on its way
          Imin, Imax,  \* the shortest interval and how often it may double
          K,           \* the redundancy constant
          Clock,       \* the values of clock_time_t
          Token,       \* 256: a token is a byte
          FirstToken,  \* bound: the token all nodes have at first; the
                       \* code starts with 0, and wraps only much later
          MaxTokens,   \* bound: the last token generated
          MaxLag       \* bound: how late an expired timer is served

i_max_abs == Imin * 2^Imax

(* The checks of trickle_timer_config(). *)
ASSUME TrickleAssumption ==
    /\ Imin \in Nat /\ Imin >= 2 /\ Imax \in Nat \ {0} /\ K \in Nat \ {0}
    /\ i_max_abs \in Nat /\ i_max_abs >= Imin
    /\ Clock \in Nat /\ 2 * i_max_abs <= Clock
    /\ Token \in Nat /\ Token % 2 = 0 /\ Token > 2
    /\ FirstToken \in Nat /\ MaxTokens \in Nat /\ MaxLag \in Nat
    /\ NoMail \notin Nat

VARIABLES i_cur,   \* tt.i_cur
          age,     \* now - tt.i_start
          c,       \* tt.c
          f,       \* the function of tt.ct: "fire" or "double_interval"
          listed,  \* tt.ct is on ctimer_list
          left,    \* time until its etimer expires
          armed,   \* its etimer is on the list
          posted,  \* an event of the etimer waits for ctimer_process
          value,   \* how many tokens ago the count began; token is the rest
          mail,    \* the message on its way to a node
          fired    \* history: the callback was called in this interval

timerVars == <<i_cur, age, c, f, listed, left, armed, posted, fired>>
vars == <<timerVars, value, mail>>

token(v) == v % Token

(* get_t(): t in [I/2, I) *)
get_t(i) == (i \div 2)..(2 * (i \div 2) - 1)

(* ctimer_set() of tt.ct *)
ctimer_set(n, delay, fn) ==
    /\ left' = [left EXCEPT ![n] = delay]
    /\ f' = [f EXCEPT ![n] = fn]
    /\ armed' = [armed EXCEPT ![n] = TRUE]
    /\ listed' = [listed EXCEPT ![n] = TRUE]

(* trickle_timer_set(): I in [Imin, Imax]. *)
Init ==
    /\ i_cur \in [Node -> Imin..i_max_abs]
    /\ left \in [Node -> 0..i_max_abs] /\ \A n \in Node : left[n] \in get_t(i_cur[n])
    /\ age = [n \in Node |-> 0]
    /\ c = [n \in Node |-> 0]
    /\ f = [n \in Node |-> "fire"]
    /\ listed = [n \in Node |-> TRUE] /\ armed = [n \in Node |-> TRUE]
    /\ posted = [n \in Node |-> FALSE]
    /\ value = [n \in Node |-> FirstToken]
    /\ mail = [n \in Node |-> NoMail]
    /\ fired = [n \in Node |-> FALSE]

------------------------------------------------------------------------------
(* Slip: a time in the past is taken for one in the far future. *)
NotPast_raw(d) == d % Clock

(* A difference that is more than half the clock's range is in the past. *)
NotPast(d) == IF d % Clock > (Clock - 1) \div 2 THEN 0 ELSE d % Clock

(* new_interval(), with the new I *)
new_interval(n, i) ==
    /\ i_cur' = [i_cur EXCEPT ![n] = i]
    /\ c' = [c EXCEPT ![n] = 0]
    /\ \E t \in get_t(i) : ctimer_set(n, t, "fire")
    /\ age' = [age EXCEPT ![n] = 0]
    /\ fired' = [fired EXCEPT ![n] = FALSE]

(* trickle_timer_inconsistency() *)
inconsistency(n) ==
    IF i_cur[n] = Imin
    THEN UNCHANGED <<i_cur, age, c, f, listed, left, armed, fired>>
    ELSE new_interval(n, Imin)

(* trickle_timer_consistency(); the counter stays below 0xFF here. *)
consistency(n) ==
    /\ c' = [c EXCEPT ![n] = @ + 1]
    /\ UNCHANGED <<i_cur, age, f, listed, left, armed, fired>>

(* double_interval(): the new interval began when the last one ended. *)
double_interval(n) ==
    LET i == IF i_cur[n] <= i_max_abs \div 2 THEN 2 * i_cur[n] ELSE i_max_abs
        late == age[n] - i_cur[n]
    IN /\ i_cur' = [i_cur EXCEPT ![n] = i]
       /\ c' = [c EXCEPT ![n] = 0]
       /\ \E t \in get_t(i) : ctimer_set(n, NotPast(t - late), "fire")
       /\ age' = [age EXCEPT ![n] = late]
       /\ fired' = [fired EXCEPT ![n] = FALSE]
       /\ UNCHANGED <<value, mail>>

(* trickle_tx() *)
trickle_tx(n, suppress) ==
    /\ mail' = IF suppress THEN mail
               ELSE [m \in Node |-> IF m = n THEN mail[m] ELSE value[n]]
    /\ UNCHANGED value

(* Slip: the end of the interval is not scheduled when nothing is sent. *)
fire_suppressed(n) ==
    /\ trickle_tx(n, c[n] >= K)
    /\ IF c[n] >= K
       THEN UNCHANGED <<f, left, armed>> /\ listed' = [listed EXCEPT ![n] = FALSE]
       ELSE ctimer_set(n, NotPast(i_cur[n] - age[n]), "double_interval")
    /\ fired' = [fired EXCEPT ![n] = TRUE]
    /\ UNCHANGED <<i_cur, age, c>>

(* fire(): the callback, then schedule_for_end(). *)
fire(n) ==
    /\ trickle_tx(n, c[n] >= K)
    /\ ctimer_set(n, NotPast(i_cur[n] - age[n]), "double_interval")
    /\ fired' = [fired EXCEPT ![n] = TRUE]
    /\ UNCHANGED <<i_cur, age, c>>

------------------------------------------------------------------------------
(* The clock; an event that is posted is handled before the next tick. *)
tick ==
    /\ \A n \in Node : ~ posted[n] /\ (armed[n] => left[n] > 0 - MaxLag)
    /\ age' = [n \in Node |-> age[n] + 1]
    /\ left' = [n \in Node |-> IF armed[n] THEN left[n] - 1 ELSE left[n]]
    /\ UNCHANGED <<i_cur, c, f, listed, armed, posted, fired, value, mail>>

(* etimer_process posts the event of an expired timer; *)
expire(n) ==
    /\ armed[n] /\ left[n] <= 0 /\ ~ posted[n]
    /\ armed' = [armed EXCEPT ![n] = FALSE]
    /\ posted' = [posted EXCEPT ![n] = TRUE]
    /\ UNCHANGED <<i_cur, age, c, f, listed, left, fired, value, mail>>

(* ctimer_process takes it and calls the function, if tt.ct is listed. *)
take_event(n) ==
    /\ posted[n]
    /\ posted' = [posted EXCEPT ![n] = FALSE]
    /\ IF listed[n]
       THEN IF f[n] = "fire" THEN fire(n) ELSE double_interval(n)
       ELSE UNCHANGED <<i_cur, age, c, f, listed, left, armed, fired, value, mail>>

(* Slip: the bytes are compared as they are. *)
Newer_raw(v, w) == token(v) > token(w)

(* Is v newer than w?  (signed char)(w - v) < 0 *)
Newer(v, w) == (token(w) - token(v)) % Token >= Token \div 2

(* Slip: the message of a node that is behind counts as redundant. *)
tcpip_handler_count(n) ==
    /\ mail[n] # NoMail
    /\ mail' = [mail EXCEPT ![n] = NoMail]
    /\ value' = [value EXCEPT ![n] = IF Newer(mail[n], @) THEN mail[n] ELSE @]
    /\ IF ~ Newer(mail[n], value[n]) THEN consistency(n) ELSE inconsistency(n)
    /\ UNCHANGED posted

(* tcpip_handler() *)
tcpip_handler(n) ==
    /\ mail[n] # NoMail
    /\ mail' = [mail EXCEPT ![n] = NoMail]
    /\ IF token(mail[n]) = token(value[n])
       THEN consistency(n) /\ UNCHANGED value
       ELSE /\ value' = [value EXCEPT ![n] = IF Newer(mail[n], @) THEN mail[n] ELSE @]
            /\ inconsistency(n)
    /\ UNCHANGED posted

lose(n) ==
    /\ mail[n] # NoMail
    /\ mail' = [mail EXCEPT ![n] = NoMail]
    /\ UNCHANGED <<timerVars, value>>

(* The tokens that some node has or may still receive. *)
Live == {value[m] : m \in Node} \cup ({mail[m] : m \in Node} \ {NoMail})

(* A node generates a token, less than half their number ahead of any that *)
(* is live.                                                                *)
new_token(n) ==
    /\ value[n] < MaxTokens
    /\ \A v \in Live : value[n] + 1 - v < Token \div 2
    /\ value' = [value EXCEPT ![n] = @ + 1]
    /\ inconsistency(n)
    /\ UNCHANGED <<posted, mail>>

Next ==
    \/ tick
    \/ \E n \in Node : \/ expire(n) \/ take_event(n)
                       \/ tcpip_handler(n) \/ lose(n) \/ new_token(n)

Spec == Init /\ [][Next]_vars

(* Time passes, timers are served, and not every message is lost. *)
FairSpec ==
    /\ Spec
    /\ WF_vars(tick)
    /\ \A n \in Node : /\ WF_vars(expire(n)) /\ WF_vars(take_event(n))
                       /\ SF_vars(tcpip_handler(n))

------------------------------------------------------------------------------
(* The trickle timer never stalls: its ctimer is listed and will call it,  *)
(* even when an event of an earlier expiry was taken for the present one.  *)
NeverStalls == \A n \in Node : listed[n] /\ (armed[n] \/ posted[n])

(* Every interval has one point at which the callback is called, and then  *)
(* an end: the timer is set for the former exactly until it has been, in   *)
(* the interval or as late as timers are served, whatever inconsistencies  *)
(* cut intervals short.                                                    *)
IntervalSound ==
    \A n \in Node :
      /\ i_cur[n] \in Imin..i_max_abs /\ age[n] >= 0
      /\ f[n] = "double_interval" <=> fired[n]
      /\ armed[n] => age[n] + left[n] <= i_cur[n] + 2 * MaxLag
      /\ armed[n] /\ fired[n] => age[n] + left[n] >= i_cur[n]

(* A node never exchanges its token for an older one, although the number  *)
(* is a byte that wraps.                                                   *)
NoRegress == [][\A n \in Node : value'[n] >= value[n]]_vars

(* "they have a newer token and we also update": when no more tokens are   *)
(* generated, all nodes have the same one in the end.                      *)
Agreement == <>[](\A n, m \in Node : value[n] = value[m])
==============================================================================
