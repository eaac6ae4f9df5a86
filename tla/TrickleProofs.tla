---------------------------- MODULE TrickleProofs -----------------------------
(***************************************************************************)
(* Proofs about Trickle for any nodes, intervals, clock and token widths:  *)
(* the timer never stalls, its intervals are sound when timers are served  *)
(* soon enough, and serial number arithmetic never sets a node back.       *)
(***************************************************************************)
EXTENDS Trickle, TLAPS

(* What calls of the timers of a node do to the flags. *)
Flags == listed \in [Node -> BOOLEAN] /\ armed \in [Node -> BOOLEAN]
         /\ posted \in [Node -> BOOLEAN]

StallInv == Flags /\ NeverStalls

LEMMA CallRearms ==
  ASSUME Flags, NEW n \in Node, fire(n) \/ double_interval(n)
  PROVE  /\ listed' = [listed EXCEPT ![n] = TRUE]
         /\ armed' = [armed EXCEPT ![n] = TRUE]
  BY DEF fire, double_interval, ctimer_set

LEMMA InconsistencyArms ==
  ASSUME Flags, NEW n \in Node, inconsistency(n) \/ consistency(n)
  PROVE  \/ UNCHANGED <<listed, armed>>
         \/ /\ listed' = [listed EXCEPT ![n] = TRUE]
            /\ armed' = [armed EXCEPT ![n] = TRUE]
  BY DEF inconsistency, consistency, new_interval, ctimer_set

LEMMA StallStep == StallInv /\ [Next]_vars => StallInv'
  <1> SUFFICES ASSUME StallInv, [Next]_vars PROVE StallInv'
    OBVIOUS
  <1> USE DEF StallInv, NeverStalls, Flags
  <1>1. CASE tick
    BY <1>1 DEF tick
  <1>2. ASSUME NEW n \in Node, expire(n) PROVE StallInv'
    BY <1>2 DEF expire
  <1>3. ASSUME NEW n \in Node, take_event(n) PROVE StallInv'
    <2>1. fire(n) \/ double_interval(n)
      BY <1>3 DEF take_event
    <2>2. posted' = [posted EXCEPT ![n] = FALSE]
      BY <1>3 DEF take_event
    <2> QED BY <2>1, <2>2, CallRearms
  <1>4. ASSUME NEW n \in Node, tcpip_handler(n) \/ new_token(n) PROVE StallInv'
    <2>1. (inconsistency(n) \/ consistency(n)) /\ UNCHANGED posted
      BY <1>4 DEF tcpip_handler, new_token
    <2> QED BY <2>1, InconsistencyArms
  <1>5. ASSUME NEW n \in Node, lose(n) PROVE StallInv'
    BY <1>5 DEF lose, timerVars
  <1>6. CASE UNCHANGED vars
    BY <1>6 DEF vars, timerVars
  <1> QED BY <1>1, <1>2, <1>3, <1>4, <1>5, <1>6 DEF Next

(* However inconsistencies, messages and late events of ctimer_process are *)
(* mixed, trickle-timer.c always has a ctimer that will call it.           *)
THEOREM TrickleRuns == Spec => []NeverStalls
  <1>1. Init => StallInv
    BY DEF Init, StallInv, Flags, NeverStalls
  <1>2. StallInv => NeverStalls
    BY DEF StallInv
  <1> QED BY <1>1, <1>2, StallStep, PTL DEF Spec

------------------------------------------------------------------------------
(* The live tokens are less than half the range of a token apart. *)
TokenTypes == value \in [Node -> Nat] /\ mail \in [Node -> Nat \cup {NoMail}]
Window == \A v, w \in Live : v - w < Token \div 2
TokenInv == TokenTypes /\ Window

(* The remainder by the number of tokens. *)
LEMMA Division ==
  \A x \in Nat : /\ x \div Token \in Nat /\ x % Token \in 0..(Token - 1)
                 /\ x = Token * (x \div Token) + (x % Token)
  BY TrickleAssumption

LEMMA Multiples == \A q, k \in Int : q > k => Token * q >= Token * k + Token
  <1> SUFFICES ASSUME NEW q \in Int, NEW k \in Int, q > k
               PROVE  Token * q >= Token * k + Token
    OBVIOUS
  <1>1. PICK d \in Nat : q = k + 1 + d
    <2>1. q - k - 1 \in Nat /\ q = k + 1 + (q - k - 1)
      OBVIOUS
    <2> QED BY <2>1
  <1>2. /\ Token * q = Token * k + Token + Token * d /\ Token * d >= 0
        /\ Token * k \in Int /\ Token * d \in Int
    BY <1>1, TrickleAssumption
  <1> QED BY <1>2, TrickleAssumption

LEMMA RemainderOf ==
  ASSUME NEW q \in Nat, NEW r \in 0..(Token - 1)
  PROVE  (Token * q + r) % Token = r
  <1> DEFINE x == Token * q + r
             k == x \div Token
  <1>0. x \in Nat /\ Token * q \in Nat
    BY TrickleAssumption
  <1>1. /\ x = Token * k + (x % Token) /\ k \in Nat /\ Token * k \in Nat
        /\ x % Token \in 0..(Token - 1)
    BY <1>0, Division, TrickleAssumption
  <1> HIDE DEF k
  <1>2. ~ (q > k) /\ ~ (q < k)
    <2>1. q > k => Token * q >= Token * k + Token
      BY <1>1, Multiples
    <2>2. q < k => Token * k >= Token * q + Token
      BY <1>1, Multiples
    <2> QED BY <2>1, <2>2, <1>0, <1>1, TrickleAssumption
  <1>3. q = k
    BY <1>1, <1>2
  <1> QED BY <1>0, <1>1, <1>3, TrickleAssumption

(* Differences of remainders, of numbers that are close to each other. *)
LEMMA Differences ==
  ASSUME NEW a \in Nat, NEW b \in Nat, a <= b, b - a < Token \div 2
  PROVE  /\ (token(b) - token(a)) % Token = b - a
         /\ a < b => (token(a) - token(b)) % Token = Token - (b - a)
         /\ token(a) = token(b) => a = b
  <1> DEFINE H == Token \div 2
             q == a \div Token
             r == a % Token
  <1>1. Token \in Nat /\ Token > 2 /\ H \in Nat /\ 2 * H = Token
    BY TrickleAssumption
  <1>2. q \in Nat /\ r \in 0..(Token - 1) /\ a = Token * q + r /\ token(a) = r
    BY Division DEF token
  <1>3. Token * q \in Nat /\ Token * (q + 1) = Token * q + Token
    BY <1>1, <1>2
  <1>4. \A d \in (-(Token - 1))..(-1) : d % Token = d + Token
    BY <1>1
  <1>5. \A d \in 0..(Token - 1) : d % Token = d
    BY <1>1
  <1>6. b - a \in 0..(H - 1)
    BY <1>1
  <1> HIDE DEF H, q, r
  <1>7. CASE r + (b - a) < Token
    <2>1. r + (b - a) \in 0..(Token - 1) /\ b = Token * q + (r + (b - a))
      BY <1>1, <1>2, <1>3, <1>6, <1>7
    <2>2. token(b) = r + (b - a)
      BY <1>2, <2>1, RemainderOf DEF token
    <2> QED BY <1>1, <1>2, <1>4, <1>5, <1>6, <2>2
  <1>8. CASE r + (b - a) >= Token
    <2>1. /\ r + (b - a) - Token \in 0..(Token - 1)
          /\ b = Token * (q + 1) + (r + (b - a) - Token)
      BY <1>1, <1>2, <1>3, <1>6, <1>8
    <2>2. token(b) = r + (b - a) - Token
      BY <1>2, <2>1, RemainderOf DEF token
    <2>3. /\ token(b) - token(a) = (b - a) - Token
          /\ token(a) - token(b) = Token - (b - a)
          /\ (b - a) - Token \in (-(Token - 1))..(-1) \/ b - a = 0
      BY <1>1, <1>2, <1>6, <2>2
    <2>4. b - a # 0
      BY <1>1, <1>2, <1>6, <1>8
    <2>5. ((b - a) - Token) % Token = b - a
      BY <1>1, <1>4, <1>6, <2>3, <2>4
    <2>6. (Token - (b - a)) % Token = Token - (b - a)
      <3>1. Token - (b - a) \in 0..(Token - 1)
        BY <1>1, <1>6, <2>4
      <3> QED BY <3>1, <1>5
    <2> QED BY <1>1, <1>2, <1>6, <2>2, <2>3, <2>4, <2>5, <2>6
  <1> QED BY <1>1, <1>2, <1>6, <1>7, <1>8

(* (signed char)(w - v) < 0 is the true order of tokens that are close. *)
LEMMA NewerIsLater ==
  ASSUME NEW v \in Nat, NEW w \in Nat, v - w < Token \div 2, w - v < Token \div 2
  PROVE  Newer(v, w) <=> v > w
  <1>1. Token \in Nat /\ Token > 2 /\ Token = 2 * (Token \div 2) /\ Token \div 2 \in Nat
    BY TrickleAssumption
  <1>2. CASE v > w
    BY <1>1, <1>2, Differences DEF Newer
  <1>3. CASE v <= w
    BY <1>1, <1>3, Differences DEF Newer
  <1> QED BY <1>2, <1>3

------------------------------------------------------------------------------
(* Messages only repeat the tokens that nodes have. *)
LEMMA NothingNew ==
  ASSUME TokenInv, TokenTypes', Live' \subseteq Live
  PROVE  TokenInv'
  BY DEF TokenInv, Window

(* Every step keeps the tokens close, and no step sets a node back. *)
LEMMA TokenStep ==
  TokenInv /\ [Next]_vars => TokenInv' /\ [\A n \in Node : value'[n] >= value[n]]_vars
  <1> SUFFICES ASSUME TokenInv, [Next]_vars
               PROVE  TokenInv' /\ \A n \in Node : value'[n] >= value[n]
    OBVIOUS
  <1>0. TokenTypes /\ Window /\ Live \subseteq Nat
    BY DEF TokenInv, TokenTypes, Live
  <1>1. ASSUME UNCHANGED <<value, mail>>
        PROVE  TokenInv' /\ \A n \in Node : value'[n] >= value[n]
    BY <1>0, <1>1 DEF TokenInv, TokenTypes, Window, Live
  <1>2. ASSUME NEW n \in Node, NEW s, trickle_tx(n, s)
        PROVE  TokenInv' /\ \A m \in Node : value'[m] >= value[m]
    <2>1. TokenTypes' /\ Live' \subseteq Live /\ value' = value
      BY <1>0, <1>2 DEF trickle_tx, TokenTypes, Live
    <2> QED BY <1>0, <2>1, NothingNew DEF TokenTypes
  <1>3. ASSUME NEW n \in Node, tcpip_handler(n)
        PROVE  TokenInv' /\ \A m \in Node : value'[m] >= value[m]
    <2>1. mail[n] \in Nat /\ mail[n] \in Live /\ value[n] \in Live /\ value[n] \in Nat
      BY <1>0, <1>3 DEF tcpip_handler, TokenTypes, Live
    <2>2. \/ value' = value
          \/ value' = [value EXCEPT ![n] = mail[n]] /\ Newer(mail[n], value[n])
      BY <1>0, <1>3 DEF tcpip_handler, TokenTypes
    <2>3. mail' = [mail EXCEPT ![n] = NoMail]
      BY <1>3 DEF tcpip_handler
    <2>4. Newer(mail[n], value[n]) => mail[n] > value[n]
      BY <1>0, <2>1, NewerIsLater DEF Window
    <2>5. TokenTypes' /\ Live' \subseteq Live
      BY <1>0, <2>1, <2>2, <2>3 DEF TokenTypes, Live
    <2> QED BY <1>0, <2>1, <2>2, <2>4, <2>5, NothingNew DEF TokenTypes
  <1>4. ASSUME NEW n \in Node, lose(n)
        PROVE  TokenInv' /\ \A m \in Node : value'[m] >= value[m]
    <2>1. TokenTypes' /\ Live' \subseteq Live /\ value' = value
      BY <1>0, <1>4 DEF lose, TokenTypes, Live
    <2> QED BY <1>0, <2>1, NothingNew DEF TokenTypes
  <1>5. ASSUME NEW n \in Node, new_token(n)
        PROVE  TokenInv' /\ \A m \in Node : value'[m] >= value[m]
    <2> DEFINE x == value[n] + 1
    <2>1. /\ value[n] \in Nat /\ value[n] \in Live
          /\ value' = [value EXCEPT ![n] = x] /\ mail' = mail
      BY <1>0, <1>5 DEF new_token, TokenTypes, Live
    <2>6. \A v \in Live : x - v < Token \div 2
      BY <1>0, <1>5, <2>1, TrickleAssumption DEF new_token
    <2>2. TokenTypes' /\ Live' \subseteq Live \cup {x}
      BY <1>0, <2>1 DEF TokenTypes, Live
    <2>3. \A v \in Live : v - x < Token \div 2
      BY <1>0, <2>1, TrickleAssumption DEF Window
    <2>4. x - x < Token \div 2
      BY <2>1, TrickleAssumption
    <2>5. Window'
      BY <1>0, <2>1, <2>2, <2>3, <2>4, <2>6 DEF Window
    <2> QED BY <1>0, <2>1, <2>2, <2>5 DEF TokenInv, TokenTypes
  <1>6. ASSUME NEW n \in Node, take_event(n)
        PROVE  UNCHANGED <<value, mail>> \/ \E s : trickle_tx(n, s)
    BY <1>6 DEF take_event, fire, double_interval
  <1>7. CASE tick
    BY <1>1, <1>7 DEF tick
  <1>8. ASSUME NEW n \in Node, expire(n) PROVE UNCHANGED <<value, mail>>
    BY <1>8 DEF expire
  <1>9. CASE UNCHANGED vars
    BY <1>1, <1>9 DEF vars
  <1> QED BY <1>1, <1>2, <1>3, <1>4, <1>5, <1>6, <1>7, <1>8, <1>9 DEF Next

(* However messages are lost, late or sent again, and although the token   *)
(* of trickle-library.c is a byte that wraps, a node never exchanges its   *)
(* token for an older one.                                                 *)
THEOREM TokensAdvance == Spec => NoRegress
  <1>1. Init => TokenInv
    BY TrickleAssumption DEF Init, TokenInv, TokenTypes, Window, Live
  <1> QED BY <1>1, TokenStep, PTL DEF Spec, NoRegress

------------------------------------------------------------------------------
(* Timers are served soon enough, and the longest interval is not so long  *)
(* that half the range of the clock is taken for the past.                 *)
Punctual == 2 * MaxLag <= Imin /\ 2 * i_max_abs < Clock

TimerTypes ==
    /\ i_cur \in [Node -> Imin..i_max_abs]
    /\ age \in [Node -> Nat] /\ left \in [Node -> Int]
    /\ f \in [Node -> {"fire", "double_interval"}] /\ fired \in [Node -> BOOLEAN]
    /\ armed \in [Node -> BOOLEAN] /\ posted \in [Node -> BOOLEAN]

(* When the next call of a node's trickle timer is due, counted from the   *)
(* start of its interval, and when a call that is posted comes.            *)
InTime(n) ==
    /\ f[n] = "double_interval" <=> fired[n]
    /\ armed[n] => left[n] >= -MaxLag
    /\ armed[n] /\ ~ fired[n] => age[n] + left[n] <= i_cur[n]
    /\ armed[n] /\ fired[n] => /\ age[n] + left[n] >= i_cur[n]
                               /\ age[n] + left[n] <= i_cur[n] + MaxLag
    /\ posted[n] /\ ~ fired[n] => age[n] <= i_cur[n] + MaxLag
    /\ posted[n] /\ fired[n] => /\ age[n] >= i_cur[n]
                                /\ age[n] <= i_cur[n] + 2 * MaxLag

IntervalInv == TimerTypes /\ \A n \in Node : InTime(n)

LEMMA FutureOrPast ==
  ASSUME Punctual
  PROVE  /\ \A d \in 0..i_max_abs : NotPast(d) = d
         /\ \A d \in (-i_max_abs)..(-1) : NotPast(d) = 0
  <1>1. /\ i_max_abs \in Nat /\ Clock \in Nat /\ 2 * i_max_abs < Clock
        /\ (Clock - 1) \div 2 \in Nat /\ i_max_abs <= (Clock - 1) \div 2
        /\ (Clock - 1) \div 2 < Clock - i_max_abs
    BY TrickleAssumption DEF Punctual
  <1>2. \A d \in 0..i_max_abs : d % Clock = d
    BY <1>1
  <1>3. \A d \in (-i_max_abs)..(-1) : d % Clock = d + Clock
    BY <1>1
  <1>4. ASSUME NEW d \in 0..i_max_abs PROVE NotPast(d) = d
    BY <1>1, <1>2 DEF NotPast
  <1>5. ASSUME NEW d \in (-i_max_abs)..(-1) PROVE NotPast(d) = 0
    BY <1>1, <1>3 DEF NotPast
  <1> QED BY <1>4, <1>5

LEMMA Points ==
  ASSUME NEW i \in Imin..i_max_abs, NEW t \in get_t(i)
  PROVE  t \in 0..(i - 1)
  BY TrickleAssumption DEF get_t

(* A call that sets the timer of n to expire in d. *)
LEMMA SetTimer ==
  ASSUME IntervalInv, NEW n \in Node, NEW d \in Nat, NEW fn \in {"fire", "double_interval"},
         NEW i \in Imin..i_max_abs, NEW x \in Nat, NEW b \in BOOLEAN,
         b <=> fn = "double_interval",
         ctimer_set(n, d, fn),
         i_cur' = [i_cur EXCEPT ![n] = i], age' = [age EXCEPT ![n] = x],
         fired' = [fired EXCEPT ![n] = b],
         posted' = posted \/ posted' = [posted EXCEPT ![n] = FALSE],
         posted'[n] => fn = "fire" /\ x <= i,
         fn = "fire" => x + d <= i,
         fn = "double_interval" => x + d >= i /\ x + d <= i + MaxLag
  PROVE  IntervalInv'
  <1>1. TimerTypes'
    <2>1. i_cur' \in [Node -> Imin..i_max_abs] /\ age' \in [Node -> Nat]
      BY DEF IntervalInv, TimerTypes
    <2>2. left' \in [Node -> Int]
      BY DEF IntervalInv, TimerTypes, ctimer_set
    <2>3. f' \in [Node -> {"fire", "double_interval"}]
      BY DEF IntervalInv, TimerTypes, ctimer_set
    <2>4. /\ fired' \in [Node -> BOOLEAN] /\ armed' \in [Node -> BOOLEAN]
          /\ posted' \in [Node -> BOOLEAN]
      BY DEF IntervalInv, TimerTypes, ctimer_set
    <2> QED BY <2>1, <2>2, <2>3, <2>4 DEF TimerTypes
  <1>2. MaxLag \in Nat /\ Imin \in Nat /\ i_max_abs \in Nat
    BY TrickleAssumption
  <1>3. /\ i_cur'[n] = i /\ age'[n] = x /\ left'[n] = d /\ f'[n] = fn
        /\ fired'[n] = b /\ armed'[n] = TRUE
    BY DEF IntervalInv, TimerTypes, ctimer_set
  <1>4. InTime(n)'
    BY <1>1, <1>2, <1>3 DEF InTime, TimerTypes
  <1>5. ASSUME NEW m \in Node, m # n PROVE InTime(m)'
    BY <1>5 DEF IntervalInv, TimerTypes, InTime, ctimer_set
  <1> QED BY <1>1, <1>4, <1>5 DEF IntervalInv

LEMMA NewInterval ==
  ASSUME IntervalInv, NEW n \in Node, new_interval(n, Imin), posted' = posted
  PROVE  IntervalInv'
  <1>1. PICK t \in get_t(Imin) : ctimer_set(n, t, "fire")
    BY DEF new_interval
  <1>2. Imin \in Imin..i_max_abs /\ Imin \in Nat
    BY TrickleAssumption
  <1>3. t \in Nat /\ 0 + t <= Imin
    BY <1>2, Points
  <1>4. /\ i_cur' = [i_cur EXCEPT ![n] = Imin] /\ age' = [age EXCEPT ![n] = 0]
        /\ fired' = [fired EXCEPT ![n] = FALSE]
    BY DEF new_interval
  <1>5. "fire" # "double_interval" /\ 0 \in Nat /\ 0 <= Imin
    BY <1>2
  <1> QED BY <1>1, <1>2, <1>3, <1>4, <1>5, SetTimer

LEMMA FireInTime ==
  ASSUME Punctual, IntervalInv, NEW n \in Node, posted[n], f[n] = "fire", fire(n),
         posted' = [posted EXCEPT ![n] = FALSE]
  PROVE  IntervalInv'
  <1> DEFINE d == i_cur[n] - age[n]
  <1>1. /\ i_cur[n] \in Imin..i_max_abs /\ age[n] \in Nat
        /\ age[n] <= i_cur[n] + MaxLag
    BY DEF IntervalInv, TimerTypes, InTime
  <1>2. /\ Imin \in Nat /\ i_max_abs \in Nat /\ MaxLag \in Nat
        /\ MaxLag <= i_max_abs
    BY TrickleAssumption DEF Punctual
  <1>3. /\ NotPast(d) \in Nat
        /\ age[n] + NotPast(d) >= i_cur[n] /\ age[n] + NotPast(d) <= i_cur[n] + MaxLag
    <2>1. CASE d >= 0
      BY <1>1, <1>2, <2>1, FutureOrPast
    <2>2. CASE d < 0
      <3>1. d \in (-i_max_abs)..(-1)
        BY <1>1, <1>2, <2>2
      <3> QED BY <1>1, <1>2, <2>2, <3>1, FutureOrPast
    <2> QED BY <1>1, <1>2, <2>1, <2>2
  <1>4. ctimer_set(n, NotPast(d), "double_interval")
    BY DEF fire
  <1>5. /\ i_cur' = [i_cur EXCEPT ![n] = i_cur[n]]
        /\ age' = [age EXCEPT ![n] = age[n]]
        /\ fired' = [fired EXCEPT ![n] = TRUE]
    BY DEF fire, IntervalInv, TimerTypes
  <1>6. ~ posted'[n]
    BY DEF IntervalInv, TimerTypes
  <1> HIDE DEF d
  <1> QED BY <1>1, <1>3, <1>4, <1>5, <1>6, SetTimer

LEMMA DoubleInTime ==
  ASSUME Punctual, IntervalInv, NEW n \in Node, posted[n], f[n] = "double_interval",
         double_interval(n), posted' = [posted EXCEPT ![n] = FALSE]
  PROVE  IntervalInv'
  <1> DEFINE i == IF i_cur[n] <= i_max_abs \div 2 THEN 2 * i_cur[n] ELSE i_max_abs
             late == age[n] - i_cur[n]
  <1>1. /\ i_cur[n] \in Imin..i_max_abs /\ age[n] \in Nat
        /\ age[n] >= i_cur[n] /\ age[n] <= i_cur[n] + 2 * MaxLag
    BY DEF IntervalInv, TimerTypes, InTime
  <1>2. /\ Imin \in Nat /\ i_max_abs \in Nat /\ MaxLag \in Nat
        /\ 2 * MaxLag <= Imin /\ Imin <= i_max_abs
    BY TrickleAssumption DEF Punctual
  <1>3. i \in Imin..i_max_abs /\ late \in 0..Imin
    BY <1>1, <1>2
  <1>4. PICK t \in get_t(i) : ctimer_set(n, NotPast(t - late), "fire")
    BY DEF double_interval
  <1>5. /\ i_cur' = [i_cur EXCEPT ![n] = i] /\ age' = [age EXCEPT ![n] = late]
        /\ fired' = [fired EXCEPT ![n] = FALSE]
    BY DEF double_interval
  <1>6. ~ posted'[n]
    BY DEF IntervalInv, TimerTypes
  <1> HIDE DEF i, late
  <1>7. t \in 0..(i - 1)
    BY <1>3, Points
  <1>8. NotPast(t - late) \in Nat /\ late + NotPast(t - late) <= i
    <2>1. CASE t >= late
      <3>1. t - late \in 0..i_max_abs
        BY <1>2, <1>3, <1>7, <2>1
      <3> QED BY <1>2, <1>3, <1>7, <3>1, FutureOrPast
    <2>2. CASE t < late
      <3>1. t - late \in (-i_max_abs)..(-1)
        BY <1>2, <1>3, <1>7, <2>2
      <3> QED BY <1>2, <1>3, <1>7, <3>1, FutureOrPast
    <2> QED BY <1>3, <1>7, <2>1, <2>2
  <1>9. late \in Nat
    BY <1>2, <1>3
  <1> QED BY <1>3, <1>4, <1>5, <1>6, <1>8, <1>9, SetTimer

LEMMA IntervalStep ==
  ASSUME Punctual PROVE IntervalInv /\ StallInv /\ [Next]_vars => IntervalInv'
  <1> SUFFICES ASSUME IntervalInv, StallInv, [Next]_vars PROVE IntervalInv'
    OBVIOUS
  <1>0. MaxLag \in Nat /\ Imin \in Nat /\ i_max_abs \in Nat
    BY TrickleAssumption
  <1>1. ASSUME UNCHANGED timerVars PROVE IntervalInv'
    BY <1>1 DEF IntervalInv, TimerTypes, InTime, timerVars
  <1>2. CASE tick
    <2>1. /\ TimerTypes'
          /\ \A n \in Node :
               /\ ~ posted[n] /\ ~ posted'[n] /\ armed'[n] = armed[n]
               /\ armed[n] => left[n] > 0 - MaxLag /\ left'[n] = left[n] - 1
               /\ age'[n] = age[n] + 1 /\ i_cur'[n] = i_cur[n]
               /\ f'[n] = f[n] /\ fired'[n] = fired[n]
      BY <1>2 DEF tick, IntervalInv, TimerTypes
    <2>2. ASSUME NEW n \in Node PROVE InTime(n)'
      BY <1>0, <2>1 DEF IntervalInv, TimerTypes, InTime
    <2> QED BY <2>1, <2>2 DEF IntervalInv
  <1>3. ASSUME NEW n \in Node, expire(n) PROVE IntervalInv'
    <2>1. /\ TimerTypes' /\ armed[n] /\ left[n] <= 0
          /\ ~ armed'[n] /\ posted'[n]
          /\ UNCHANGED <<i_cur, age, f, left, fired>>
          /\ \A m \in Node \ {n} : armed'[m] = armed[m] /\ posted'[m] = posted[m]
      BY <1>3 DEF expire, IntervalInv, TimerTypes
    <2>2. InTime(n)'
      BY <1>0, <2>1 DEF IntervalInv, TimerTypes, InTime
    <2>3. ASSUME NEW m \in Node \ {n} PROVE InTime(m)'
      BY <2>1 DEF IntervalInv, InTime
    <2> QED BY <2>1, <2>2, <2>3 DEF IntervalInv
  <1>4. ASSUME NEW n \in Node, take_event(n) PROVE IntervalInv'
    <2>1. /\ posted[n] /\ posted' = [posted EXCEPT ![n] = FALSE]
          /\ \/ f[n] = "fire" /\ fire(n)
             \/ f[n] # "fire" /\ double_interval(n)
      BY <1>4 DEF take_event, StallInv, NeverStalls
    <2>2. f[n] # "fire" => f[n] = "double_interval"
      BY DEF IntervalInv, TimerTypes
    <2> QED BY <2>1, <2>2, FireInTime, DoubleInTime
  <1>5. ASSUME NEW n \in Node, consistency(n) \/ inconsistency(n), posted' = posted
        PROVE  IntervalInv'
    <2>1. \/ UNCHANGED <<i_cur, age, f, left, armed, fired>>
          \/ new_interval(n, Imin)
      BY <1>5 DEF consistency, inconsistency
    <2>2. CASE UNCHANGED <<i_cur, age, f, left, armed, fired>>
      BY <1>5, <2>2 DEF IntervalInv, TimerTypes, InTime
    <2> QED BY <1>5, <2>1, <2>2, NewInterval
  <1>6. ASSUME NEW n \in Node, tcpip_handler(n) \/ new_token(n) PROVE IntervalInv'
    BY <1>5, <1>6 DEF tcpip_handler, new_token
  <1>7. ASSUME NEW n \in Node, lose(n) PROVE IntervalInv'
    BY <1>1, <1>7 DEF lose
  <1>8. CASE UNCHANGED vars
    BY <1>1, <1>8 DEF vars
  <1> QED BY <1>2, <1>3, <1>4, <1>6, <1>7, <1>8 DEF Next

(* When timers are served within half of the shortest interval and the     *)
(* longest is below half the range of the clock, every interval of         *)
(* trickle-timer.c has its one point and its end, through late calls, the  *)
(* compensation of drift, and events of earlier expiries.                  *)
THEOREM IntervalsHold ==
  ASSUME Punctual PROVE Spec => []IntervalSound
  <1>1. Init => IntervalInv /\ StallInv
    <2> SUFFICES ASSUME Init PROVE IntervalInv /\ StallInv
      OBVIOUS
    <2>1. StallInv
      BY DEF Init, StallInv, Flags, NeverStalls
    <2>2. i_max_abs \in Nat /\ Imin \in Nat /\ MaxLag \in Nat
      BY TrickleAssumption
    <2>3. \A n \in Node : left[n] \in 0..(i_cur[n] - 1)
      BY Points DEF Init
    <2>4. TimerTypes
      BY <2>2 DEF Init, TimerTypes
    <2>5. ASSUME NEW n \in Node PROVE InTime(n)
      <3>1. /\ age[n] = 0 /\ f[n] = "fire" /\ ~ fired[n] /\ ~ posted[n]
            /\ left[n] \in 0..(i_cur[n] - 1) /\ i_cur[n] \in Nat
        BY <2>2, <2>3, <2>4 DEF Init, TimerTypes
      <3> QED BY <2>2, <3>1 DEF InTime
    <2> QED BY <2>1, <2>4, <2>5 DEF IntervalInv
  <1>2. IntervalInv => IntervalSound
    <2> SUFFICES ASSUME IntervalInv, NEW n \in Node
                 PROVE  /\ i_cur[n] \in Imin..i_max_abs /\ age[n] >= 0
                        /\ f[n] = "double_interval" <=> fired[n]
                        /\ armed[n] => age[n] + left[n] <= i_cur[n] + 2 * MaxLag
                        /\ armed[n] /\ fired[n] => age[n] + left[n] >= i_cur[n]
      BY DEF IntervalSound
    <2>1. i_max_abs \in Nat /\ Imin \in Nat /\ MaxLag \in Nat
      BY TrickleAssumption
    <2> QED BY <2>1 DEF IntervalInv, TimerTypes, InTime
  <1> QED BY <1>1, <1>2, IntervalStep, StallStep, PTL DEF Spec
==============================================================================
