---------------------------- MODULE ProcessProofs ----------------------------
(***************************************************************************)
(* Proofs about module Process, for any number of processes, any depth of  *)
(* nested calls and any queue of events: the C stack is well formed, a     *)
(* process that runs is on the list, no poll is lost, a broadcast reaches  *)
(* everybody, and the CPU sleeps only when nothing is waiting.  They hold  *)
(* as long as no thread calls process_exit() on itself.                    *)
(***************************************************************************)
EXTENDS Process, FiniteSetTheorems, TLAPS

(* What a walk along the pointers nx meets. *)
Lead(nx, S) == \A x \in S : nx[x] \in S \cup {NULL}
Reach(nx, q) ==
  {x \in Proc : \A S \in SUBSET Proc : q \in S \cup {NULL} /\ Lead(nx, S) => x \in S}
After(nx, q) == Reach(nx, nx[q])

Pointer == Proc \cup {NULL}

LEMMA FromReach ==
  \A q : From(q) = Reach(next, q)
  BY DEF From, Reach, Closed, Lead

LEMMA ReachIn ==
  ASSUME NEW nx, NEW q, NEW S \in SUBSET Proc, q \in S \cup {NULL}, Lead(nx, S)
  PROVE  Reach(nx, q) \subseteq S
  BY DEF Reach

LEMMA ReachProc ==
  ASSUME NEW nx, NEW q PROVE Reach(nx, q) \in SUBSET Proc
  BY DEF Reach

LEMMA ReachNull ==
  ASSUME NEW nx PROVE Reach(nx, NULL) = {}
  <1>1. Lead(nx, {}) BY DEF Lead
  <1> QED BY <1>1, ReachIn

LEMMA ReachSelf ==
  ASSUME NEW nx, NEW q \in Proc PROVE q \in Reach(nx, q)
  BY ProcessAssumption DEF Reach

LEMMA ReachClosed ==
  ASSUME NEW nx \in [Proc -> Pointer], NEW q PROVE Lead(nx, Reach(nx, q))
  <1> SUFFICES ASSUME NEW x \in Reach(nx, q), nx[x] # NULL
               PROVE  nx[x] \in Reach(nx, q)
    BY DEF Lead
  <1>1. x \in Proc /\ nx[x] \in Proc BY DEF Reach, Pointer
  <1>2. ASSUME NEW S \in SUBSET Proc, q \in S \cup {NULL}, Lead(nx, S)
        PROVE  nx[x] \in S
    BY <1>2 DEF Reach, Lead
  <1> QED BY <1>1, <1>2 DEF Reach

LEMMA ReachMono ==
  ASSUME NEW nx \in [Proc -> Pointer], NEW q, NEW y,
         y \in Reach(nx, q) \cup {NULL}
  PROVE  Reach(nx, y) \subseteq Reach(nx, q)
  BY ReachProc, ReachClosed, ReachIn

LEMMA ReachSplit ==
  ASSUME NEW nx \in [Proc -> Pointer], NEW q \in Proc
  PROVE  Reach(nx, q) = {q} \cup After(nx, q)
  <1>1. q \in Reach(nx, q) BY ReachSelf
  <1>2. nx[q] \in Reach(nx, q) \cup {NULL} BY <1>1, ReachClosed DEF Lead
  <1>3. After(nx, q) \subseteq Reach(nx, q) BY <1>2, ReachMono DEF After
  <1>4. Reach(nx, q) \subseteq {q} \cup After(nx, q)
    <2>1. {q} \cup After(nx, q) \in SUBSET Proc BY ReachProc DEF After
    <2>2. nx[q] \in Proc => nx[q] \in After(nx, q) BY ReachSelf DEF After
    <2>3. Lead(nx, After(nx, q)) BY ReachClosed DEF After
    <2>4. Lead(nx, {q} \cup After(nx, q)) BY <2>2, <2>3 DEF Lead, Pointer
    <2> QED BY <2>1, <2>4, ReachIn
  <1> QED BY <1>1, <1>3, <1>4

(* Pointers that agree where the walk passes. *)
LEMMA ReachSame ==
  ASSUME NEW nx \in [Proc -> Pointer], NEW mx \in [Proc -> Pointer], NEW q,
         \A x \in Reach(nx, q) : mx[x] = nx[x], q \in Pointer
  PROVE  Reach(mx, q) = Reach(nx, q)
  <1> DEFINE R == Reach(nx, q)
  <1>1. R \in SUBSET Proc /\ Lead(nx, R) BY ReachProc, ReachClosed
  <1>2. q \in R \cup {NULL} BY ReachSelf DEF Pointer
  <1>3. Lead(mx, R) BY <1>1 DEF Lead
  <1>4. Reach(mx, q) \subseteq R
    <2> HIDE DEF R
    <2> QED BY <1>1, <1>2, <1>3, ReachIn
  <1>5. ASSUME NEW S \in SUBSET Proc, q \in S \cup {NULL}, Lead(mx, S)
        PROVE  R \subseteq S
    <2>1. Lead(nx, S \cap R) BY <1>1, <1>5 DEF Lead
    <2>2. q \in (S \cap R) \cup {NULL} BY <1>2, <1>5
    <2>3. S \cap R \in SUBSET Proc BY <1>1
    <2> QED BY <2>1, <2>2, <2>3, ReachIn
  <1>6. R \subseteq Reach(mx, q) BY <1>1, <1>5 DEF Reach
  <1> QED BY <1>4, <1>6

------------------------------------------------------------------------------
(* The list when process_start() puts a process at its head, *)
Pushed(nx, hd, p) == [nx EXCEPT ![p] = hd]

LEMMA StartReach ==
  ASSUME NEW nx \in [Proc -> Pointer], NEW hd \in Pointer, NEW p \in Proc,
         p \notin Reach(nx, hd)
  PROVE  /\ Pushed(nx, hd, p) \in [Proc -> Pointer]
         /\ Reach(Pushed(nx, hd, p), hd) = Reach(nx, hd)
         /\ Reach(Pushed(nx, hd, p), p) = {p} \cup Reach(nx, hd)
  <1> DEFINE mx == Pushed(nx, hd, p)
  <1>1. mx \in [Proc -> Pointer] /\ mx[p] = hd BY DEF Pushed
  <1>2. \A x \in Proc : x # p => mx[x] = nx[x] BY DEF Pushed
  <1>3. Reach(mx, hd) = Reach(nx, hd)
    <2>1. \A x \in Reach(nx, hd) : mx[x] = nx[x] BY <1>2, ReachProc
    <2> QED BY <1>1, <2>1, ReachSame
  <1> QED BY <1>1, <1>3, ReachSplit DEF After

LEMMA StartKeeps ==
  ASSUME NEW nx \in [Proc -> Pointer], NEW hd \in Pointer, NEW p \in Proc,
         p \notin Reach(nx, hd),
         NEW q \in Pointer, NEW x \in Reach(nx, q), x \in Reach(nx, hd)
  PROVE  x \in Reach(Pushed(nx, hd, p), q)
  <1> DEFINE mx == Pushed(nx, hd, p)
  <1>1. mx \in [Proc -> Pointer] /\ mx[p] = hd BY DEF Pushed
  <1>2. \A y \in Proc : y # p => mx[y] = nx[y] BY DEF Pushed
  <1>3. CASE p \notin Reach(nx, q)
    <2>1. \A y \in Reach(nx, q) : mx[y] = nx[y] BY <1>2, <1>3, ReachProc
    <2> QED BY <1>1, <2>1, ReachSame
  <1>4. CASE p \in Reach(nx, q)
    <2>1. ASSUME NEW S \in SUBSET Proc, q \in S \cup {NULL}, Lead(mx, S), p \notin S
          PROVE  FALSE
      <3>1. Lead(nx, S) BY <1>2, <2>1 DEF Lead
      <3> QED BY <1>4, <2>1, <3>1, ReachIn
    <2>2. p \in Reach(mx, q) BY <2>1 DEF Reach
    <2>3. Reach(mx, p) \subseteq Reach(mx, q) BY <1>1, <2>2, ReachMono
    <2>4. Reach(mx, p) = {p} \cup Reach(nx, hd) BY StartReach
    <2> QED BY <2>3, <2>4
  <1> QED BY <1>3, <1>4

LEMMA StartAfter ==
  ASSUME NEW nx \in [Proc -> Pointer], NEW hd \in Pointer, NEW p \in Proc,
         p \notin Reach(nx, hd),
         NEW q \in Proc, NEW x \in After(nx, q), x \in Reach(nx, hd)
  PROVE  x \in After(Pushed(nx, hd, p), q)
  <1> DEFINE mx == Pushed(nx, hd, p)
  <1>1. CASE q = p
    <2>1. mx[p] = hd BY DEF Pushed
    <2>2. Reach(mx, hd) = Reach(nx, hd) BY StartReach
    <2> QED BY <1>1, <2>1, <2>2 DEF After
  <1>2. CASE q # p
    <2>1. mx[q] = nx[q] /\ nx[q] \in Pointer BY <1>2 DEF Pushed
    <2> QED BY <2>1, StartKeeps DEF After
  <1> QED BY <1>1, <1>2

NoCycle(nx, hd) == \A x \in Reach(nx, hd) : x \notin After(nx, x)

LEMMA StartCycle ==
  ASSUME NEW nx \in [Proc -> Pointer], NEW hd \in Pointer, NEW p \in Proc,
         p \notin Reach(nx, hd),
         NoCycle(nx, hd)
  PROVE  NoCycle(Pushed(nx, hd, p), p)
  <1> DEFINE mx == Pushed(nx, hd, p)
  <1>1. mx \in [Proc -> Pointer] /\ mx[p] = hd BY DEF Pushed
  <1>2. \A y \in Proc : y # p => mx[y] = nx[y] BY DEF Pushed
  <1>3. Reach(mx, hd) = Reach(nx, hd) /\ Reach(mx, p) = {p} \cup Reach(nx, hd)
    BY StartReach
  <1>5. p \notin After(mx, p) BY <1>1, <1>3 DEF After
  <1>4. ASSUME NEW x \in Reach(nx, hd) PROVE x \notin After(mx, x)
    <2>1. x \in Proc /\ x # p /\ mx[x] = nx[x] /\ nx[x] \in Pointer
      BY <1>2, ReachProc
    <2>2. nx[x] \in Reach(nx, hd) \cup {NULL} BY ReachClosed DEF Lead
    <2>3. Reach(nx, nx[x]) \subseteq Reach(nx, hd) BY <2>2, ReachMono
    <2>4. \A y \in Reach(nx, nx[x]) : mx[y] = nx[y] BY <1>2, <2>3, ReachProc
    <2>5. Reach(mx, nx[x]) = Reach(nx, nx[x]) BY <1>1, <2>1, <2>4, ReachSame
    <2> QED BY <2>1, <2>5 DEF After, NoCycle
  <1> QED BY <1>3, <1>4, <1>5 DEF NoCycle

------------------------------------------------------------------------------
(* and when exit_process() takes it off. *)
Unlinked(nx, hd, p) ==
  [x \in Proc |-> IF x \in Reach(nx, hd) /\ nx[x] = p THEN nx[p] ELSE nx[x]]

LEMMA UnlinkedTyped ==
  ASSUME NEW nx \in [Proc -> Pointer], NEW hd, NEW p \in Proc
  PROVE  Unlinked(nx, hd, p) \in [Proc -> Pointer]
  BY DEF Unlinked

LEMMA UnlinkKeeps ==
  ASSUME NEW nx \in [Proc -> Pointer], NEW hd \in Pointer, NEW p \in Proc,
         p \notin After(nx, p),
         NEW q \in Pointer, NEW x \in Reach(nx, q), x # p
  PROVE  x \in Reach(Unlinked(nx, hd, p), q)
  <1> DEFINE mx == Unlinked(nx, hd, p)
  <1>1. \A y \in Proc : mx[y] = IF y \in Reach(nx, hd) /\ nx[y] = p THEN nx[p] ELSE nx[y]
    BY DEF Unlinked
  <1>2. x \in Proc BY ReachProc
  <1>3. ASSUME NEW S \in SUBSET Proc, q \in S \cup {NULL}, Lead(mx, S)
        PROVE  x \in S
    <2>1. CASE p \in S
      <3>1. Lead(nx, S) BY <1>1, <1>3, <2>1 DEF Lead
      <3> QED BY <1>3, <3>1, ReachIn
    <2>2. CASE p \notin S /\ \E y \in S : y \in Reach(nx, hd) /\ nx[y] = p
      <3>1. nx[p] \in S \cup {NULL} BY <1>1, <1>3, <2>2 DEF Lead
      <3>2. Lead(nx, S \cup {p}) BY <1>1, <1>3, <3>1 DEF Lead
      <3>3. S \cup {p} \in SUBSET Proc /\ q \in (S \cup {p}) \cup {NULL} BY <1>3
      <3>4. Reach(nx, q) \subseteq S \cup {p} BY <3>2, <3>3, ReachIn
      <3> QED BY <3>4
    <2>3. CASE p \notin S /\ ~ \E y \in S : y \in Reach(nx, hd) /\ nx[y] = p
      <3>1. Lead(nx, S) BY <1>1, <1>3, <2>3 DEF Lead
      <3> QED BY <1>3, <3>1, ReachIn
    <2> QED BY <2>1, <2>2, <2>3
  <1> QED BY <1>2, <1>3 DEF Reach

LEMMA UnlinkAfter ==
  ASSUME NEW nx \in [Proc -> Pointer], NEW hd \in Pointer, NEW p \in Proc,
         p \notin After(nx, p),
         NEW q \in Proc, NEW x \in After(nx, q), x # p
  PROVE  x \in After(Unlinked(nx, hd, p), q)
  <1> DEFINE mx == Unlinked(nx, hd, p)
  <1>1. mx[q] = IF q \in Reach(nx, hd) /\ nx[q] = p THEN nx[p] ELSE nx[q]
    BY DEF Unlinked
  <1>2. CASE mx[q] = nx[q]
    <2>1. nx[q] \in Pointer OBVIOUS
    <2>2. x \in Reach(nx, nx[q]) BY DEF After
    <2>3. x \in Reach(mx, nx[q]) BY <2>1, <2>2, UnlinkKeeps
    <2> QED BY <1>2, <2>3 DEF After
  <1>3. CASE nx[q] = p /\ mx[q] = nx[p]
    <2>1. x \in Reach(nx, p) BY <1>3 DEF After
    <2>2. x \in Reach(nx, nx[p]) BY <2>1, ReachSplit DEF After
    <2>3. nx[p] \in Pointer OBVIOUS
    <2>4. x \in Reach(mx, nx[p]) BY <2>2, <2>3, UnlinkKeeps
    <2> QED BY <1>3, <2>4 DEF After
  <1> QED BY <1>1, <1>2, <1>3

LEMMA UnlinkReach ==
  ASSUME NEW nx \in [Proc -> Pointer], NEW hd \in Pointer, NEW p \in Proc,
         NoCycle(nx, hd), p \in Reach(nx, hd), hd # p
  PROVE  Reach(Unlinked(nx, hd, p), hd) = Reach(nx, hd) \ {p}
  <1> DEFINE mx == Unlinked(nx, hd, p)
             l == Reach(nx, hd)
  <1>1. \A y \in Proc : mx[y] = IF y \in l /\ nx[y] = p THEN nx[p] ELSE nx[y]
    BY DEF Unlinked
  <1>2. p \notin After(nx, p) BY DEF NoCycle
  <1>3. nx[p] # p BY <1>2, ReachSelf DEF After
  <1>4. l \in SUBSET Proc /\ Lead(nx, l) BY ReachProc, ReachClosed
  <1>5. hd \in (l \ {p}) \cup {NULL} BY ReachSelf DEF Pointer
  <1>6. Lead(mx, l \ {p}) BY <1>1, <1>3, <1>4 DEF Lead
  <1>7. Reach(mx, hd) \subseteq l \ {p}
    <2>1. l \ {p} \in SUBSET Proc BY <1>4
    <2> HIDE DEF mx, l
    <2> QED BY <1>5, <1>6, <2>1, ReachIn
  <1>8. \A x \in l \ {p} : x \in Reach(mx, hd) BY <1>2, UnlinkKeeps
  <1> QED BY <1>7, <1>8

LEMMA UnlinkCycle ==
  ASSUME NEW nx \in [Proc -> Pointer], NEW hd \in Pointer, NEW p \in Proc,
         NoCycle(nx, hd), p \in Reach(nx, hd), hd # p
  PROVE  NoCycle(Unlinked(nx, hd, p), hd)
  <1> DEFINE mx == Unlinked(nx, hd, p)
  <1>1. \A y \in Proc : mx[y] = IF y \in Reach(nx, hd) /\ nx[y] = p THEN nx[p] ELSE nx[y]
    BY DEF Unlinked
  <1> SUFFICES ASSUME NEW x \in Reach(nx, hd), x # p PROVE x \notin After(mx, x)
    BY UnlinkReach DEF NoCycle
  <1>2. x \in Proc /\ x \notin After(nx, x) BY ReachProc DEF NoCycle
  <1> DEFINE A == After(nx, x)
  <1>3. A \in SUBSET Proc /\ Lead(nx, A) BY ReachProc, ReachClosed DEF After
  <1>4. nx[x] \in A \cup {NULL}
    BY <1>2, ReachSelf DEF After, Pointer
  <1>5. Lead(mx, A)
    <2> SUFFICES ASSUME NEW y \in A PROVE mx[y] \in A \cup {NULL} BY DEF Lead
    <2>1. y \in Proc /\ nx[y] \in A \cup {NULL} BY <1>3 DEF Lead
    <2>2. nx[y] = p => nx[p] \in A \cup {NULL}
      BY <1>3, <2>1, ProcessAssumption DEF Lead
    <2> HIDE DEF A, mx
    <2> QED BY <1>1, <2>1, <2>2
  <1>6. mx[x] \in A \cup {NULL}
    <2>1. nx[x] = p => p \in A BY <1>4, ProcessAssumption
    <2> QED BY <1>1, <1>2, <1>3, <1>4, <2>1 DEF Lead
  <1>7. Reach(mx, mx[x]) \subseteq A
    <2> HIDE DEF A, mx
    <2> QED BY <1>3, <1>5, <1>6, ReachIn
  <1> QED BY <1>2, <1>7 DEF After

------------------------------------------------------------------------------
(* Activations. *)
Event == Posted \cup {"INIT", "POLL", "EXITED", "EXIT"}

ThreadFrame ==
  [f : {"thread"}, p : Proc, ev : Event, direct : BOOLEAN, calls : Nat]
PollFrame == [f : {"do_poll"}, q : Pointer, at : {"visit", "advance"}]
EventFrame ==
  [f : {"do_event"}, q : Pointer, at : {"poll", "call", "advance"}, ev : Event,
   due : SUBSET Proc]
ExitFrame ==
  [f : {"exit_process"}, p : Proc, from : Proc, q : Pointer,
   at : {"visit", "advance"}, old : Pointer, due : SUBSET Proc]
UnlinkFrame == [f : {"unlink"}, p : Proc, old : Pointer]
SynchFrame == [f : {"post_synch"}, caller : Pointer]

(* A cursor that is being handled is a process; the direct call of a       *)
(* thread is that of exit_process().                                       *)
Direct(w) == w.f = "thread" /\ w.direct
Walk(w) == w.f \in {"do_event", "exit_process"}
Frame ==
  {w \in ThreadFrame : w.direct => w.ev = "EXIT"}
  \cup {w \in PollFrame : w.at # "visit" => w.q \in Proc}
  \cup {w \in EventFrame : w.at # "poll" => w.q \in Proc}
  \cup {w \in ExitFrame : w.at # "visit" => w.q \in Proc}
  \cup UnlinkFrame \cup SynchFrame

LEMMA FrameKinds ==
  ASSUME NEW w \in Frame
  PROVE  /\ w.f = "thread" => w \in ThreadFrame /\ (w.direct => w.ev = "EXIT")
         /\ w.f = "do_poll" => w \in PollFrame /\ (w.at # "visit" => w.q \in Proc)
         /\ w.f = "do_event" => w \in EventFrame /\ (w.at # "poll" => w.q \in Proc)
         /\ w.f = "exit_process" =>
              w \in ExitFrame /\ (w.at # "visit" => w.q \in Proc)
         /\ w.f = "unlink" => w \in UnlinkFrame
         /\ w.f = "post_synch" => w \in SynchFrame
         /\ w.f \in {"thread", "do_poll", "do_event", "exit_process", "unlink",
                     "post_synch"}
  BY DEF Frame, ThreadFrame, PollFrame, EventFrame, ExitFrame, UnlinkFrame,
         SynchFrame

(* The activation that holds a process: it is in a call, or exits. *)
Owns(w) == w.f \in {"exit_process", "unlink"} \/ (w.f = "thread" /\ ~ w.direct)
Returns(w) == IF w.f = "post_synch" THEN w.caller ELSE w.old

(* What lies directly under an activation. *)
Under(a, b) ==
  /\ a.f # "do_event"
  /\ a.f = "do_poll" => b.f = "do_event"
  /\ a.f = "post_synch" => b.f = "thread"
  /\ Direct(a) => b.f = "unlink" /\ b.p = a.p
  /\ a.f = "thread" /\ ~ Direct(a) =>
       b.f \in {"post_synch", "do_poll", "do_event", "exit_process"}
  /\ b.f = "thread" =>
       a.f \in {"post_synch", "exit_process", "unlink"} /\ Returns(a) = b.p
  /\ b.f = "do_poll" => Owns(a) /\ a.p = b.q /\ b.at = "advance"

Fits(w, s) == IF s = <<>> THEN ~ Direct(w) ELSE Under(w, s[1])

Nested(s) ==
  /\ \A i, j \in 1..Len(s) : j = i + 1 => Under(s[i], s[j])
  /\ \A i \in 1..Len(s) : i = Len(s) => ~ Direct(s[i])

Unique(s) ==
  \A i, j \in 1..Len(s) :
    Owns(s[i]) /\ Owns(s[j]) /\ s[i].p = s[j].p => i = j

StateOf(w) == IF w.f = "thread" THEN "CALLED" ELSE "NONE"
Owners(s, st, l) ==
  \A i \in 1..Len(s) : Owns(s[i]) => s[i].p \in l /\ st[s[i].p] = StateOf(s[i])

Sound(s, st, l) ==
  s \in Seq(Frame) /\ Nested(s) /\ Unique(s) /\ Owners(s, st, l)

Held(s, p) == \E i \in 1..Len(s) : Owns(s[i]) /\ s[i].p = p

LEMMA SeqPush ==
  ASSUME NEW S, NEW s \in Seq(S), NEW w \in S
  PROVE  /\ <<w>> \o s \in Seq(S) /\ Len(<<w>> \o s) = Len(s) + 1
         /\ <<w>> \o s # <<>> /\ Head(<<w>> \o s) = w /\ Tail(<<w>> \o s) = s
         /\ Len(s) \in Nat /\ (<<w>> \o s)[1] = w
         /\ \A i \in 1..Len(s) : (<<w>> \o s)[i + 1] = s[i]
         /\ \A i \in 1..Len(<<w>> \o s) :
              i = 1 \/ (i - 1 \in 1..Len(s) /\ (<<w>> \o s)[i] = s[i - 1])
  <1>1. Len(<<w>> \o s) = Len(s) + 1 /\ <<w>> \o s \in Seq(S) OBVIOUS
  <1>2. (<<w>> \o s)[1] = w /\ Len(s) \in Nat OBVIOUS
  <1>3. \A i \in 1..Len(s) : (<<w>> \o s)[i + 1] = s[i] OBVIOUS
  <1>4. \A i \in 1..Len(<<w>> \o s) :
              i = 1 \/ (i - 1 \in 1..Len(s) /\ (<<w>> \o s)[i] = s[i - 1])
    <2> SUFFICES ASSUME NEW i \in 1..Len(<<w>> \o s), i # 1
                 PROVE  i - 1 \in 1..Len(s) /\ (<<w>> \o s)[i] = s[i - 1]
      OBVIOUS
    <2>1. i - 1 \in 1..Len(s) /\ (i - 1) + 1 = i BY <1>1, <1>2
    <2> QED BY <1>3, <2>1
  <1>5. <<w>> \o s # <<>> /\ Head(<<w>> \o s) = w BY <1>1, <1>2
  <1>6. Tail(<<w>> \o s) = s
    <2>1. Tail(<<w>> \o s) \in Seq(S) /\ Len(Tail(<<w>> \o s)) = Len(s)
      BY <1>1, <1>2, <1>5
    <2>2. \A i \in 1..Len(s) : Tail(<<w>> \o s)[i] = s[i]
      BY <1>1, <1>2, <1>3, <1>5, <2>1
    <2> QED BY <2>1, <2>2
  <1> QED BY <1>1, <1>2, <1>3, <1>4, <1>5, <1>6

LEMMA SeqPop ==
  ASSUME NEW S, NEW s \in Seq(S), s # <<>>
  PROVE  /\ Tail(s) \in Seq(S) /\ Len(Tail(s)) = Len(s) - 1
         /\ Len(s) \in Nat /\ Len(s) >= 1 /\ 1 \in 1..Len(s)
         /\ Head(s) = s[1] /\ s[1] \in S
         /\ \A i \in 1..Len(Tail(s)) : i + 1 \in 1..Len(s) /\ Tail(s)[i] = s[i + 1]
         /\ \A i \in 1..Len(s) :
              i = 1 \/ (i - 1 \in 1..Len(Tail(s)) /\ Tail(s)[i - 1] = s[i])
  <1>1. Len(s) \in Nat /\ Len(s) >= 1 OBVIOUS
  <1>2. Tail(s) \in Seq(S) /\ Len(Tail(s)) = Len(s) - 1 OBVIOUS
  <1>3. \A i \in 1..Len(Tail(s)) : i + 1 \in 1..Len(s) /\ Tail(s)[i] = s[i + 1]
    BY <1>1, <1>2
  <1>4. Head(s) = s[1] /\ s[1] \in S /\ 1 \in 1..Len(s) BY <1>1
  <1>5. \A i \in 1..Len(s) :
              i = 1 \/ (i - 1 \in 1..Len(Tail(s)) /\ Tail(s)[i - 1] = s[i])
    <2> SUFFICES ASSUME NEW i \in 1..Len(s), i # 1
                 PROVE  i - 1 \in 1..Len(Tail(s)) /\ Tail(s)[i - 1] = s[i]
      OBVIOUS
    <2>1. i - 1 \in 1..Len(Tail(s)) /\ (i - 1) + 1 = i BY <1>1, <1>2
    <2> QED BY <1>3, <2>1
  <1> QED BY <1>1, <1>2, <1>3, <1>4, <1>5

LEMMA SoundPop ==
  ASSUME NEW s, NEW st, NEW l, Sound(s, st, l), s # <<>>
  PROVE  /\ Sound(Tail(s), st, l)
         /\ Owns(s[1]) => ~ Held(Tail(s), s[1].p)
         /\ Fits(s[1], Tail(s))
         /\ Owns(s[1]) => s[1].p \in l /\ st[s[1].p] = StateOf(s[1])
  <1> DEFINE t == Tail(s)
  <1>1. s \in Seq(Frame) BY DEF Sound
  <1>2. /\ t \in Seq(Frame) /\ Len(t) = Len(s) - 1 /\ Len(s) \in Nat /\ Len(s) >= 1
        /\ 1 \in 1..Len(s)
        /\ \A i \in 1..Len(t) : i + 1 \in 1..Len(s) /\ t[i] = s[i + 1]
    BY <1>1, SeqPop
  <1> HIDE DEF t
  <1>3. Nested(t)
    <2>1. ASSUME NEW i \in 1..Len(t), NEW j \in 1..Len(t), j = i + 1
          PROVE  Under(t[i], t[j])
      <3>1. i + 1 \in 1..Len(s) /\ j + 1 \in 1..Len(s) /\ j + 1 = (i + 1) + 1
            /\ t[i] = s[i + 1] /\ t[j] = s[j + 1]
        BY <1>2, <2>1
      <3> QED BY <3>1 DEF Sound, Nested
    <2>2. ASSUME NEW i \in 1..Len(t), i = Len(t) PROVE ~ Direct(t[i])
      <3>1. i + 1 \in 1..Len(s) /\ i + 1 = Len(s) /\ t[i] = s[i + 1] BY <1>2, <2>2
      <3> QED BY <3>1 DEF Sound, Nested
    <2> QED BY <2>1, <2>2 DEF Nested
  <1>4. Unique(t)
    <2> SUFFICES ASSUME NEW i \in 1..Len(t), NEW j \in 1..Len(t), Owns(t[i]),
                        Owns(t[j]), t[i].p = t[j].p
                 PROVE  i = j
      BY DEF Unique
    <2>1. i + 1 \in 1..Len(s) /\ j + 1 \in 1..Len(s)
          /\ t[i] = s[i + 1] /\ t[j] = s[j + 1]
      BY <1>2
    <2>2. i + 1 = j + 1 BY <2>1 DEF Sound, Unique
    <2> QED BY <2>2
  <1>5. Owners(t, st, l) BY <1>2 DEF Sound, Owners
  <1>6. ASSUME Owns(s[1]), Held(t, s[1].p) PROVE FALSE
    <2>1. PICK i \in 1..Len(t) : Owns(t[i]) /\ t[i].p = s[1].p BY <1>6 DEF Held
    <2>2. i + 1 \in 1..Len(s) /\ t[i] = s[i + 1] BY <1>2
    <2>3. i + 1 = 1 BY <1>2, <1>6, <2>1, <2>2 DEF Sound, Unique
    <2> QED BY <1>2, <2>3
  <1>7. Fits(s[1], t)
    <2>1. CASE t = <<>>
      <3>1. Len(s) = 1 BY <1>2, <2>1
      <3> QED BY <1>2, <2>1, <3>1 DEF Sound, Nested, Fits
    <2>2. CASE t # <<>>
      <3>1. 1 \in 1..Len(t) BY <1>2, <2>2
      <3>2. 2 \in 1..Len(s) /\ t[1] = s[2] BY <1>2, <3>1
      <3>3. Under(s[1], s[2]) BY <1>2, <3>2 DEF Sound, Nested
      <3> QED BY <2>2, <3>2, <3>3 DEF Fits
    <2> QED BY <2>1, <2>2
  <1>8. Owns(s[1]) => s[1].p \in l /\ st[s[1].p] = StateOf(s[1])
    BY <1>2 DEF Sound, Owners
  <1> QED BY <1>2, <1>3, <1>4, <1>5, <1>6, <1>7, <1>8 DEF Sound, t

LEMMA SoundPush ==
  ASSUME NEW s, NEW st, NEW l, Sound(s, st, l), NEW w \in Frame, Fits(w, s),
         Owns(w) => /\ ~ Held(s, w.p) /\ w.p \in l
                    /\ st[w.p] = StateOf(w)
  PROVE  Sound(<<w>> \o s, st, l)
  <1> DEFINE t == <<w>> \o s
  <1>1. s \in Seq(Frame) BY DEF Sound
  <1>2. /\ t \in Seq(Frame) /\ Len(t) = Len(s) + 1 /\ Len(s) \in Nat /\ t[1] = w
        /\ \A i \in 1..Len(t) : i = 1 \/ (i - 1 \in 1..Len(s) /\ t[i] = s[i - 1])
    BY <1>1, SeqPush
  <1> HIDE DEF t
  <1>3. Nested(t)
    <2>1. ASSUME NEW i \in 1..Len(t), NEW j \in 1..Len(t), j = i + 1
          PROVE  Under(t[i], t[j])
      <3>1. CASE i = 1
        <4>1. j = 2 /\ 1 \in 1..Len(s) /\ t[j] = s[1] BY <1>2, <2>1, <3>1
        <4>2. s # <<>> BY <4>1
        <4> QED BY <1>2, <3>1, <4>1, <4>2 DEF Fits
      <3>2. CASE i # 1
        <4>1. /\ i - 1 \in 1..Len(s) /\ j - 1 \in 1..Len(s) /\ j - 1 = (i - 1) + 1
              /\ t[i] = s[i - 1] /\ t[j] = s[j - 1]
          BY <1>2, <2>1, <3>2
        <4> QED BY <4>1 DEF Sound, Nested
      <3> QED BY <3>1, <3>2
    <2>2. ASSUME NEW i \in 1..Len(t), i = Len(t) PROVE ~ Direct(t[i])
      <3>1. CASE i = 1
        <4>1. s = <<>> BY <1>1, <1>2, <2>2, <3>1
        <4> QED BY <1>2, <3>1, <4>1 DEF Fits
      <3>2. CASE i # 1
        <4>1. i - 1 \in 1..Len(s) /\ i - 1 = Len(s) /\ t[i] = s[i - 1]
          BY <1>2, <2>2, <3>2
        <4> QED BY <4>1 DEF Sound, Nested
      <3> QED BY <3>1, <3>2
    <2> QED BY <2>1, <2>2 DEF Nested
  <1>4. Unique(t)
    <2> SUFFICES ASSUME NEW i \in 1..Len(t), NEW j \in 1..Len(t), Owns(t[i]),
                        Owns(t[j]), t[i].p = t[j].p
                 PROVE  i = j
      BY DEF Unique
    <2>1. CASE i = 1 /\ j = 1 BY <2>1
    <2>2. CASE i = 1 /\ j # 1
      <3>1. j - 1 \in 1..Len(s) /\ t[j] = s[j - 1] BY <1>2, <2>2
      <3> QED BY <1>2, <2>2, <3>1 DEF Held
    <2>3. CASE i # 1 /\ j = 1
      <3>1. i - 1 \in 1..Len(s) /\ t[i] = s[i - 1] BY <1>2, <2>3
      <3> QED BY <1>2, <2>3, <3>1 DEF Held
    <2>4. CASE i # 1 /\ j # 1
      <3>1. i - 1 \in 1..Len(s) /\ j - 1 \in 1..Len(s)
            /\ t[i] = s[i - 1] /\ t[j] = s[j - 1]
        BY <1>2, <2>4
      <3>2. i - 1 = j - 1 BY <3>1 DEF Sound, Unique
      <3> QED BY <1>2, <3>2
    <2> QED BY <2>1, <2>2, <2>3, <2>4
  <1>5. Owners(t, st, l)
    <2> SUFFICES ASSUME NEW i \in 1..Len(t), Owns(t[i])
                 PROVE  t[i].p \in l /\ st[t[i].p] = StateOf(t[i])
      BY DEF Owners
    <2>1. CASE i = 1 BY <1>2, <2>1
    <2>2. CASE i # 1
      <3>1. i - 1 \in 1..Len(s) /\ t[i] = s[i - 1] BY <1>2, <2>2
      <3> QED BY <3>1 DEF Sound, Owners
    <2> QED BY <2>1, <2>2
  <1> QED BY <1>2, <1>3, <1>4, <1>5 DEF Sound, t

(* A process that no activation holds may change its state, and be taken   *)
(* off the list.                                                           *)
LEMMA SoundState ==
  ASSUME NEW s, NEW st, NEW l, Sound(s, st, l), NEW p, NEW u, NEW m,
         ~ Held(s, p), \A x \in l : x # p => x \in m /\ u[x] = st[x]
  PROVE  Sound(s, u, m)
  <1> SUFFICES ASSUME NEW i \in 1..Len(s), Owns(s[i])
               PROVE  s[i].p \in m /\ u[s[i].p] = StateOf(s[i])
    BY DEF Sound, Owners
  <1>1. s[i].p # p BY DEF Held
  <1>2. s[i].p \in l /\ st[s[i].p] = StateOf(s[i]) BY DEF Sound, Owners
  <1> QED BY <1>1, <1>2

LEMMA SoundEmpty ==
  ASSUME NEW st, NEW l PROVE Sound(<<>>, st, l) /\ \A p : ~ Held(<<>>, p)
  BY DEF Sound, Nested, Unique, Owners, Held

(* Who is held when an activation is put on the stack or taken off it. *)
LEMMA HeldPush ==
  ASSUME NEW s \in Seq(Frame), NEW w \in Frame, NEW p
  PROVE  Held(<<w>> \o s, p) <=> (Owns(w) /\ w.p = p) \/ Held(s, p)
  <1> DEFINE t == <<w>> \o s
  <1>1. /\ Len(t) = Len(s) + 1 /\ Len(s) \in Nat /\ t[1] = w /\ 1 \in 1..Len(t)
        /\ \A i \in 1..Len(s) : i + 1 \in 1..Len(t) /\ t[i + 1] = s[i]
        /\ \A i \in 1..Len(t) : i = 1 \/ (i - 1 \in 1..Len(s) /\ t[i] = s[i - 1])
    <2>1. /\ Len(t) = Len(s) + 1 /\ Len(s) \in Nat /\ t[1] = w
          /\ \A i \in 1..Len(s) : t[i + 1] = s[i]
          /\ \A i \in 1..Len(t) : i = 1 \/ (i - 1 \in 1..Len(s) /\ t[i] = s[i - 1])
      BY SeqPush
    <2> QED BY <2>1
  <1> HIDE DEF t
  <1>2. ASSUME Held(t, p) PROVE (Owns(w) /\ w.p = p) \/ Held(s, p)
    BY <1>1, <1>2 DEF Held
  <1>3. ASSUME Owns(w) /\ w.p = p PROVE Held(t, p) BY <1>1, <1>3 DEF Held
  <1>4. ASSUME Held(s, p) PROVE Held(t, p)
    <2>1. PICK i \in 1..Len(s) : Owns(s[i]) /\ s[i].p = p BY <1>4 DEF Held
    <2>2. i + 1 \in 1..Len(t) /\ t[i + 1] = s[i] BY <1>1
    <2> QED BY <2>1, <2>2 DEF Held
  <1> QED BY <1>2, <1>3, <1>4 DEF t

LEMMA PopPush ==
  ASSUME NEW S, NEW s \in Seq(S), s # <<>>
  PROVE  s = <<s[1]>> \o Tail(s)
  <1> DEFINE t == <<s[1]>> \o Tail(s)
  <1>1. /\ Tail(s) \in Seq(S) /\ Len(Tail(s)) = Len(s) - 1 /\ s[1] \in S
        /\ Len(s) \in Nat /\ Len(s) >= 1
        /\ \A i \in 1..Len(s) :
              i = 1 \/ (i - 1 \in 1..Len(Tail(s)) /\ Tail(s)[i - 1] = s[i])
    BY SeqPop
  <1>2. /\ t \in Seq(S) /\ Len(t) = Len(Tail(s)) + 1 /\ t[1] = s[1]
        /\ \A i \in 1..Len(t) :
             i = 1 \/ (i - 1 \in 1..Len(Tail(s)) /\ t[i] = Tail(s)[i - 1])
    BY <1>1, SeqPush
  <1> HIDE DEF t
  <1>3. Len(t) = Len(s) BY <1>1, <1>2
  <1>4. \A i \in 1..Len(s) : t[i] = s[i] BY <1>1, <1>2, <1>3
  <1>5. t = s BY <1>2, <1>3, <1>4
  <1> QED BY <1>5 DEF t

------------------------------------------------------------------------------
(* What the walks under way have yet to meet. *)
AheadOf(nx, w) == IF w.at = "advance" THEN After(nx, w.q) ELSE Reach(nx, w.q)
Covers(w, st, nx) ==
  Walk(w) => \A p \in w.due : st[p] # "NONE" => p \in AheadOf(nx, w)
Reaching(s, st, nx) == \A i \in 1..Len(s) : Covers(s[i], st, nx)
Polls(w, nx, p) == w.f = "do_poll" /\ p \in AheadOf(nx, w)
Polled(s, nx, p) == \E i \in 1..Len(s) : Polls(s[i], nx, p)

LEMMA PushIndex ==
  ASSUME NEW s \in Seq(Frame), NEW w \in Frame
  PROVE  /\ (<<w>> \o s)[1] = w /\ 1 \in 1..Len(<<w>> \o s)
         /\ \A i \in 1..Len(s) :
              i + 1 \in 1..Len(<<w>> \o s) /\ (<<w>> \o s)[i + 1] = s[i]
         /\ \A i \in 1..Len(<<w>> \o s) :
              i = 1 \/ (i - 1 \in 1..Len(s) /\ (<<w>> \o s)[i] = s[i - 1])
  <1> DEFINE t == <<w>> \o s
  <1>1. /\ Len(t) = Len(s) + 1 /\ Len(s) \in Nat /\ t[1] = w
        /\ \A i \in 1..Len(s) : t[i + 1] = s[i]
        /\ \A i \in 1..Len(t) : i = 1 \/ (i - 1 \in 1..Len(s) /\ t[i] = s[i - 1])
    BY SeqPush
  <1> HIDE DEF t
  <1>2. /\ t[1] = w /\ 1 \in 1..Len(t)
        /\ \A i \in 1..Len(s) : i + 1 \in 1..Len(t) /\ t[i + 1] = s[i]
        /\ \A i \in 1..Len(t) : i = 1 \/ (i - 1 \in 1..Len(s) /\ t[i] = s[i - 1])
    BY <1>1
  <1> QED BY <1>2 DEF t

LEMMA ReachingPush ==
  ASSUME NEW s \in Seq(Frame), NEW w \in Frame, NEW st, NEW nx
  PROVE  Reaching(<<w>> \o s, st, nx) <=> Covers(w, st, nx) /\ Reaching(s, st, nx)
  <1>1. PICK t : t = <<w>> \o s OBVIOUS
  <1>2. /\ t[1] = w /\ 1 \in 1..Len(t)
        /\ \A i \in 1..Len(s) : i + 1 \in 1..Len(t) /\ t[i + 1] = s[i]
        /\ \A i \in 1..Len(t) : i = 1 \/ (i - 1 \in 1..Len(s) /\ t[i] = s[i - 1])
    BY <1>1, PushIndex
  <1>3. ASSUME Reaching(t, st, nx) PROVE Covers(w, st, nx) /\ Reaching(s, st, nx)
    <2>1. Covers(w, st, nx) BY <1>2, <1>3 DEF Reaching
    <2>2. ASSUME NEW i \in 1..Len(s) PROVE Covers(s[i], st, nx)
      <3>1. i + 1 \in 1..Len(t) /\ t[i + 1] = s[i] BY <1>2
      <3> QED BY <1>3, <3>1 DEF Reaching
    <2> QED BY <2>1, <2>2 DEF Reaching
  <1>4. ASSUME Covers(w, st, nx), Reaching(s, st, nx) PROVE Reaching(t, st, nx)
    <2> SUFFICES ASSUME NEW i \in 1..Len(t) PROVE Covers(t[i], st, nx) BY DEF Reaching
    <2>1. i = 1 \/ (i - 1 \in 1..Len(s) /\ t[i] = s[i - 1]) BY <1>2
    <2> QED BY <1>2, <1>4, <2>1 DEF Reaching
  <1> QED BY <1>1, <1>3, <1>4

LEMMA PolledPush ==
  ASSUME NEW s \in Seq(Frame), NEW w \in Frame, NEW nx, NEW p
  PROVE  Polled(<<w>> \o s, nx, p) <=> Polls(w, nx, p) \/ Polled(s, nx, p)
  <1>1. PICK t : t = <<w>> \o s OBVIOUS
  <1>2. /\ t[1] = w /\ 1 \in 1..Len(t)
        /\ \A i \in 1..Len(s) : i + 1 \in 1..Len(t) /\ t[i + 1] = s[i]
        /\ \A i \in 1..Len(t) : i = 1 \/ (i - 1 \in 1..Len(s) /\ t[i] = s[i - 1])
    BY <1>1, PushIndex
  <1>3. ASSUME Polled(t, nx, p) PROVE Polls(w, nx, p) \/ Polled(s, nx, p)
    <2>1. PICK i \in 1..Len(t) : Polls(t[i], nx, p) BY <1>3 DEF Polled
    <2>2. i = 1 \/ (i - 1 \in 1..Len(s) /\ t[i] = s[i - 1]) BY <1>2
    <2> QED BY <1>2, <2>1, <2>2 DEF Polled
  <1>4. ASSUME Polls(w, nx, p) PROVE Polled(t, nx, p) BY <1>2, <1>4 DEF Polled
  <1>5. ASSUME Polled(s, nx, p) PROVE Polled(t, nx, p)
    <2>1. PICK i \in 1..Len(s) : Polls(s[i], nx, p) BY <1>5 DEF Polled
    <2>2. i + 1 \in 1..Len(t) /\ t[i + 1] = s[i] BY <1>2
    <2> QED BY <2>1, <2>2 DEF Polled
  <1> QED BY <1>1, <1>3, <1>4, <1>5

LEMMA ReachingEmpty ==
  ASSUME NEW st, NEW nx PROVE Reaching(<<>>, st, nx)
  BY DEF Reaching

LEMMA WalkTyped ==
  ASSUME NEW w \in Frame, Walk(w) \/ w.f = "do_poll"
  PROVE  /\ w.q \in Pointer /\ (w.at = "advance" => w.q \in Proc)
         /\ Walk(w) => w.due \in SUBSET Proc
  BY FrameKinds DEF Walk, EventFrame, ExitFrame, PollFrame

LEMMA ReachingState ==
  ASSUME NEW s \in Seq(Frame), NEW st, NEW u, NEW nx, Reaching(s, st, nx),
         \A x \in Proc : u[x] # "NONE" => st[x] # "NONE"
  PROVE  Reaching(s, u, nx)
  <1> SUFFICES ASSUME NEW i \in 1..Len(s), Walk(s[i]), NEW p \in s[i].due,
                      u[p] # "NONE"
               PROVE  p \in AheadOf(nx, s[i])
    BY DEF Reaching, Covers
  <1>1. s[i] \in Frame OBVIOUS
  <1>2. p \in Proc BY <1>1, WalkTyped
  <1> QED BY <1>2 DEF Reaching, Covers

LEMMA UnlinkAhead ==
  ASSUME NEW nx \in [Proc -> Pointer], NEW hd \in Pointer, NEW p \in Proc,
         p \notin After(nx, p), NEW w \in Frame, Walk(w) \/ w.f = "do_poll",
         NEW x \in AheadOf(nx, w), x # p
  PROVE  x \in AheadOf(Unlinked(nx, hd, p), w)
  <1>1. w.q \in Pointer /\ (w.at = "advance" => w.q \in Proc) BY WalkTyped
  <1>2. CASE w.at = "advance"
    <2>1. x \in After(nx, w.q) BY <1>2 DEF AheadOf
    <2>2. x \in After(Unlinked(nx, hd, p), w.q) BY <1>1, <1>2, <2>1, UnlinkAfter
    <2> QED BY <1>2, <2>2 DEF AheadOf
  <1>3. CASE w.at # "advance"
    <2>1. x \in Reach(nx, w.q) BY <1>3 DEF AheadOf
    <2>2. x \in Reach(Unlinked(nx, hd, p), w.q) BY <1>1, <2>1, UnlinkKeeps
    <2> QED BY <1>3, <2>2 DEF AheadOf
  <1> QED BY <1>2, <1>3

LEMMA StartAhead ==
  ASSUME NEW nx \in [Proc -> Pointer], NEW hd \in Pointer, NEW p \in Proc,
         p \notin Reach(nx, hd), NEW w \in Frame, Walk(w) \/ w.f = "do_poll",
         NEW x \in AheadOf(nx, w), x \in Reach(nx, hd)
  PROVE  x \in AheadOf(Pushed(nx, hd, p), w)
  <1>1. w.q \in Pointer /\ (w.at = "advance" => w.q \in Proc) BY WalkTyped
  <1>2. CASE w.at = "advance"
    <2>1. x \in After(nx, w.q) BY <1>2 DEF AheadOf
    <2>2. x \in After(Pushed(nx, hd, p), w.q) BY <1>1, <1>2, <2>1, StartAfter
    <2> QED BY <1>2, <2>2 DEF AheadOf
  <1>3. CASE w.at # "advance"
    <2>1. x \in Reach(nx, w.q) BY <1>3 DEF AheadOf
    <2>2. x \in Reach(Pushed(nx, hd, p), w.q) BY <1>1, <2>1, StartKeeps
    <2> QED BY <1>3, <2>2 DEF AheadOf
  <1> QED BY <1>2, <1>3

LEMMA UnlinkWalks ==
  ASSUME NEW nx \in [Proc -> Pointer], NEW hd \in Pointer, NEW p \in Proc,
         p \notin After(nx, p), NEW s \in Seq(Frame), NEW st
  PROVE  /\ Reaching(s, st, nx) /\ st[p] = "NONE" =>
              Reaching(s, st, Unlinked(nx, hd, p))
         /\ \A x : Polled(s, nx, x) /\ x # p => Polled(s, Unlinked(nx, hd, p), x)
  <1>1. \A i \in 1..Len(s) : s[i] \in Frame OBVIOUS
  <1>2. ASSUME Reaching(s, st, nx), st[p] = "NONE"
        PROVE  Reaching(s, st, Unlinked(nx, hd, p))
    <2> SUFFICES ASSUME NEW i \in 1..Len(s), Walk(s[i]), NEW x \in s[i].due,
                        st[x] # "NONE"
                 PROVE  x \in AheadOf(Unlinked(nx, hd, p), s[i])
      BY DEF Reaching, Covers
    <2>1. x \in AheadOf(nx, s[i]) BY <1>2 DEF Reaching, Covers
    <2>2. x # p BY <1>2
    <2> QED BY <1>1, <2>1, <2>2, UnlinkAhead
  <1>3. ASSUME NEW x, Polled(s, nx, x), x # p
        PROVE  Polled(s, Unlinked(nx, hd, p), x)
    <2>1. PICK i \in 1..Len(s) : Polls(s[i], nx, x) BY <1>3 DEF Polled
    <2>2. s[i].f = "do_poll" /\ x \in AheadOf(nx, s[i]) BY <2>1 DEF Polls
    <2>3. x \in AheadOf(Unlinked(nx, hd, p), s[i]) BY <1>1, <1>3, <2>2, UnlinkAhead
    <2> QED BY <2>2, <2>3 DEF Polled, Polls
  <1> QED BY <1>2, <1>3

------------------------------------------------------------------------------
(* A started process is struck from what the walks owe. *)
Forgot(p, w) == IF Walk(w) THEN [w EXCEPT !.due = @ \ {p}] ELSE w

LEMMA ForgotFrame ==
  ASSUME NEW p, NEW w \in Frame
  PROVE  /\ Forgot(p, w) \in Frame /\ Forgot(p, w).f = w.f
         /\ Walk(w) => /\ Forgot(p, w).q = w.q /\ Forgot(p, w).at = w.at
                       /\ Forgot(p, w).due = w.due \ {p}
         /\ w.f = "exit_process" => Forgot(p, w).p = w.p /\ Forgot(p, w).old = w.old
         /\ ~ Walk(w) => Forgot(p, w) = w
  <1>1. CASE w.f = "do_event"
    <2>1. w \in EventFrame /\ (w.at # "poll" => w.q \in Proc) BY <1>1, FrameKinds
    <2>2. PICK v : v = [w EXCEPT !.due = @ \ {p}] OBVIOUS
    <2>3. v \in EventFrame /\ v.f = w.f /\ v.q = w.q /\ v.at = w.at
          /\ v.due = w.due \ {p}
      BY <2>1, <2>2 DEF EventFrame
    <2>4. v \in Frame BY <2>1, <2>3 DEF Frame
    <2>5. Forgot(p, w) = v /\ Walk(w) BY <1>1, <2>2 DEF Forgot, Walk
    <2> QED BY <1>1, <2>3, <2>4, <2>5
  <1>2. CASE w.f = "exit_process"
    <2>1. w \in ExitFrame /\ (w.at # "visit" => w.q \in Proc) BY <1>2, FrameKinds
    <2>2. PICK v : v = [w EXCEPT !.due = @ \ {p}] OBVIOUS
    <2>3. v \in ExitFrame /\ v.f = w.f /\ v.q = w.q /\ v.at = w.at
          /\ v.due = w.due \ {p} /\ v.p = w.p /\ v.old = w.old
      BY <2>1, <2>2 DEF ExitFrame
    <2>4. v \in Frame BY <2>1, <2>3 DEF Frame
    <2>5. Forgot(p, w) = v /\ Walk(w) BY <1>2, <2>2 DEF Forgot, Walk
    <2> QED BY <2>3, <2>4, <2>5
  <1>3. CASE ~ Walk(w) BY <1>3 DEF Forgot, Walk
  <1> QED BY <1>1, <1>2, <1>3 DEF Walk

LEMMA ForgotUnder ==
  ASSUME NEW p, NEW a \in Frame, NEW b \in Frame, Under(a, b)
  PROVE  Under(Forgot(p, a), Forgot(p, b))
  <1>1. PICK v, w : v = Forgot(p, a) /\ w = Forgot(p, b) OBVIOUS
  <1>2. /\ v.f = a.f /\ w.f = b.f
        /\ a.f = "exit_process" => v.p = a.p /\ v.old = a.old
        /\ a.f \notin {"do_event", "exit_process"} => v = a
        /\ b.f \notin {"do_event", "exit_process"} => w = b
    BY <1>1, ForgotFrame DEF Walk
  <1>3. CASE a.f = "exit_process"
    BY <1>1, <1>2, <1>3 DEF Under, Direct, Owns, Returns
  <1>4. CASE a.f # "exit_process"
    <2>1. a.f # "do_event" BY DEF Under
    <2>2. v = a BY <1>2, <1>4, <2>1
    <2> QED BY <1>1, <1>2, <2>2 DEF Under, Direct
  <1> QED BY <1>3, <1>4

LEMMA ForgetIndex ==
  ASSUME NEW p, NEW s \in Seq(Frame)
  PROVE  /\ Forget(p, s) \in Seq(Frame) /\ Len(Forget(p, s)) = Len(s)
         /\ \A i \in 1..Len(s) : Forget(p, s)[i] = Forgot(p, s[i])
  <1>1. DOMAIN s = 1..Len(s) /\ \A i \in 1..Len(s) : s[i] \in Frame OBVIOUS
  <1>2. Forget(p, s) = [i \in 1..Len(s) |-> Forgot(p, s[i])]
    BY <1>1 DEF Forget, Forgot, Walk
  <1>3. \A i \in 1..Len(s) : Forgot(p, s[i]) \in Frame BY <1>1, ForgotFrame
  <1>4. PICK n \in Nat : n = Len(s) OBVIOUS
  <1>5. [i \in 1..n |-> Forgot(p, s[i])] \in Seq(Frame)
        /\ Len([i \in 1..n |-> Forgot(p, s[i])]) = n
    BY <1>3, <1>4
  <1> QED BY <1>2, <1>4, <1>5

LEMMA ForgotOwns ==
  ASSUME NEW p, NEW w \in Frame
  PROVE  /\ Owns(Forgot(p, w)) <=> Owns(w)
         /\ Direct(Forgot(p, w)) <=> Direct(w)
         /\ Owns(w) => Forgot(p, w).p = w.p
         /\ StateOf(Forgot(p, w)) = StateOf(w)
  <1>1. Forgot(p, w).f = w.f /\ (~ Walk(w) => Forgot(p, w) = w)
        /\ (w.f = "exit_process" => Forgot(p, w).p = w.p)
    BY ForgotFrame
  <1> QED BY <1>1 DEF Walk, Owns, Direct, StateOf

LEMMA SoundForget ==
  ASSUME NEW s, NEW st, NEW l, Sound(s, st, l), NEW p
  PROVE  Sound(Forget(p, s), st, l) /\ \A x : Held(Forget(p, s), x) <=> Held(s, x)
  <1>1. s \in Seq(Frame) /\ \A i \in 1..Len(s) : s[i] \in Frame BY DEF Sound
  <1>2. PICK t : t = Forget(p, s) OBVIOUS
  <1>3. t \in Seq(Frame) /\ Len(t) = Len(s)
        /\ \A i \in 1..Len(s) : t[i] = Forgot(p, s[i])
    BY <1>1, <1>2, ForgetIndex
  <1>4. \A i \in 1..Len(s) : /\ Owns(t[i]) <=> Owns(s[i])
                             /\ Direct(t[i]) <=> Direct(s[i])
                             /\ Owns(s[i]) => t[i].p = s[i].p
                             /\ StateOf(t[i]) = StateOf(s[i])
    BY <1>1, <1>3, ForgotOwns
  <1>5. Nested(t)
    <2>1. ASSUME NEW i \in 1..Len(s), NEW j \in 1..Len(s), j = i + 1
          PROVE  Under(t[i], t[j])
      <3>1. Under(s[i], s[j]) BY <2>1 DEF Sound, Nested
      <3> QED BY <1>1, <1>3, <3>1, ForgotUnder
    <2>2. \A i \in 1..Len(s) : i = Len(s) => ~ Direct(t[i])
      BY <1>4 DEF Sound, Nested
    <2> QED BY <1>3, <2>1, <2>2 DEF Nested
  <1>6. Unique(t) BY <1>3, <1>4 DEF Sound, Unique
  <1>7. Owners(t, st, l) BY <1>3, <1>4 DEF Sound, Owners
  <1>8. \A x : Held(t, x) <=> Held(s, x) BY <1>3, <1>4 DEF Held
  <1> QED BY <1>2, <1>3, <1>5, <1>6, <1>7, <1>8 DEF Sound

LEMMA StartWalks ==
  ASSUME NEW nx \in [Proc -> Pointer], NEW hd \in Pointer, NEW p \in Proc,
         p \notin Reach(nx, hd), NEW s \in Seq(Frame), NEW st, NEW u,
         \A x \in Proc : st[x] # "NONE" => x \in Reach(nx, hd),
         \A x \in Proc : x # p /\ u[x] # "NONE" => st[x] # "NONE"
  PROVE  /\ Reaching(s, st, nx) => Reaching(Forget(p, s), u, Pushed(nx, hd, p))
         /\ \A x \in Reach(nx, hd) :
              Polled(s, nx, x) => Polled(Forget(p, s), Pushed(nx, hd, p), x)
  <1>1. \A i \in 1..Len(s) : s[i] \in Frame OBVIOUS
  <1>2. PICK t : t = Forget(p, s) OBVIOUS
  <1>3. t \in Seq(Frame) /\ Len(t) = Len(s)
        /\ \A i \in 1..Len(s) : t[i] = Forgot(p, s[i])
    BY <1>2, ForgetIndex
  <1>4. PICK mx : mx = Pushed(nx, hd, p) OBVIOUS
  <1>5. ASSUME Reaching(s, st, nx) PROVE Reaching(t, u, mx)
    <2> SUFFICES ASSUME NEW i \in 1..Len(s), Walk(t[i]), NEW x \in t[i].due,
                        u[x] # "NONE"
                 PROVE  x \in AheadOf(mx, t[i])
      BY <1>3 DEF Reaching, Covers
    <2>1. Walk(s[i]) /\ t[i].q = s[i].q /\ t[i].at = s[i].at
          /\ t[i].due = s[i].due \ {p}
      <3>1. t[i].f = s[i].f BY <1>1, <1>3, ForgotFrame
      <3>2. Walk(s[i]) BY <3>1 DEF Walk
      <3> QED BY <1>1, <1>3, <3>2, ForgotFrame
    <2>2. x \in s[i].due /\ x # p /\ x \in Proc BY <1>1, <2>1, WalkTyped
    <2>3. st[x] # "NONE" /\ x \in Reach(nx, hd) BY <2>2
    <2>4. x \in AheadOf(nx, s[i]) BY <1>5, <2>1, <2>2, <2>3 DEF Reaching, Covers
    <2>5. x \in AheadOf(mx, s[i]) BY <1>1, <1>4, <2>1, <2>3, <2>4, StartAhead
    <2> QED BY <2>1, <2>5 DEF AheadOf
  <1>6. ASSUME NEW x \in Reach(nx, hd), Polled(s, nx, x) PROVE Polled(t, mx, x)
    <2>1. PICK i \in 1..Len(s) : Polls(s[i], nx, x) BY <1>6 DEF Polled
    <2>2. s[i].f = "do_poll" /\ x \in AheadOf(nx, s[i]) BY <2>1 DEF Polls
    <2>3. x \in AheadOf(mx, s[i]) BY <1>1, <1>4, <2>2, StartAhead
    <2>4. t[i] = s[i] BY <1>1, <1>3, <2>2, ForgotFrame DEF Walk
    <2> QED BY <1>3, <2>2, <2>3, <2>4 DEF Polled, Polls
  <1> QED BY <1>2, <1>4, <1>5, <1>6

------------------------------------------------------------------------------
(* The inductive invariant.  The list has no cycle; whoever runs is on it, *)
(* and whoever is on it without running is held by an activation.          *)
Listing == Reach(next, process_list)
States == {"NONE", "RUNNING", "CALLED"}

Types ==
  /\ process_list \in Pointer
  /\ next \in [Proc -> Pointer]
  /\ state \in [Proc -> States]
  /\ needspoll \in [Proc -> BOOLEAN]
  /\ poll_requested \in BOOLEAN
  /\ process_current \in Pointer
  /\ events \in Seq([p : Pointer, ev : Posted])
  /\ Len(events) <= NumEvents
  /\ main \in {"boot", "run", "event", "result", "idle", "sleep"}
  /\ starts \in 0..MaxStarts
  /\ owed \subseteq Proc

Listed(s, st, l) ==
  /\ \A p \in Proc : st[p] # "NONE" => p \in l
  /\ \A p \in l : st[p] = "NONE" => Held(s, p)

OK(s, st, nx, l) == Sound(s, st, l) /\ Reaching(s, st, nx) /\ Listed(s, st, l)

(* The innermost activation: a thread is the current process, and the      *)
(* cursor of do_poll() is on the list or has just been taken off it.       *)
Tops(s, pc, nx, l) ==
  s # <<>> =>
    /\ s[1].f = "thread" => pc = s[1].p
    /\ s[1].f = "do_poll" =>
         IF s[1].at = "visit" THEN s[1].q \in l \cup {NULL}
                              ELSE nx[s[1].q] \in l \cup {NULL}

Good ==
  /\ OK(stack, state, next, Listing)
  /\ NoCycle(next, process_list)
  /\ Tops(stack, process_current, next, Listing)

Polling ==
  \A x \in owed : /\ needspoll[x] /\ state[x] # "NONE"
                  /\ poll_requested \/ Polled(stack, next, x)

Mains ==
  /\ main \in {"idle", "sleep"} => stack = <<>>
  /\ main = "sleep" => events = <<>> /\ ~ poll_requested

IInv == Types /\ Good /\ Polling /\ Mains

LEMMA TopFrame ==
  ASSUME NEW s, NEW st, NEW nx, NEW l, OK(s, st, nx, l), s # <<>>
  PROVE  /\ Head(s) = s[1] /\ s[1] \in Frame /\ Tail(s) \in Seq(Frame)
         /\ Sound(Tail(s), st, l) /\ Reaching(Tail(s), st, nx)
         /\ Covers(s[1], st, nx) /\ Fits(s[1], Tail(s))
         /\ Owns(s[1]) => /\ ~ Held(Tail(s), s[1].p)
                          /\ s[1].p \in l /\ st[s[1].p] = StateOf(s[1])
         /\ \A p : Held(s, p) <=> (Owns(s[1]) /\ s[1].p = p) \/ Held(Tail(s), p)
         /\ \A p : Polled(s, nx, p) <=> Polls(s[1], nx, p) \/ Polled(Tail(s), nx, p)
  <1>1. s \in Seq(Frame) BY DEF OK, Sound
  <1>2. Head(s) = s[1] /\ s[1] \in Frame /\ Tail(s) \in Seq(Frame) BY <1>1, SeqPop
  <1>3. s = <<s[1]>> \o Tail(s) BY <1>1, PopPush
  <1>4. Reaching(<<s[1]>> \o Tail(s), st, nx) BY <1>3 DEF OK
  <1>5. Covers(s[1], st, nx) /\ Reaching(Tail(s), st, nx)
    BY <1>2, <1>4, ReachingPush
  <1>6. /\ Sound(Tail(s), st, l) /\ Fits(s[1], Tail(s))
        /\ Owns(s[1]) => /\ ~ Held(Tail(s), s[1].p)
                         /\ s[1].p \in l /\ st[s[1].p] = StateOf(s[1])
    BY SoundPop DEF OK
  <1>7. ASSUME NEW p
        PROVE  Held(s, p) <=> (Owns(s[1]) /\ s[1].p = p) \/ Held(Tail(s), p)
    <2>1. Held(<<s[1]>> \o Tail(s), p) <=>
             (Owns(s[1]) /\ s[1].p = p) \/ Held(Tail(s), p)
      BY <1>2, HeldPush
    <2> QED BY <1>3, <2>1
  <1>8. ASSUME NEW p
        PROVE  Polled(s, nx, p) <=> Polls(s[1], nx, p) \/ Polled(Tail(s), nx, p)
    <2>1. Polled(<<s[1]>> \o Tail(s), nx, p) <=>
             Polls(s[1], nx, p) \/ Polled(Tail(s), nx, p)
      BY <1>2, PolledPush
    <2> QED BY <1>3, <2>1
  <1> QED BY <1>2, <1>5, <1>6, <1>7, <1>8

(* The innermost activation goes on. *)
Alike(v, w) ==
  /\ v.f = w.f
  /\ Owns(v) <=> Owns(w)
  /\ Direct(v) <=> Direct(w)
  /\ w.f \in {"thread", "exit_process", "unlink"} => v.p = w.p
  /\ w.f \in {"exit_process", "unlink", "post_synch"} => Returns(v) = Returns(w)

LEMMA AlikeFits ==
  ASSUME NEW v, NEW w, NEW s, Alike(v, w), Fits(w, s) PROVE Fits(v, s)
  <1>1. CASE s = <<>> BY <1>1 DEF Fits, Alike
  <1>2. CASE s # <<>>
    <2>1. Under(w, s[1]) BY <1>2 DEF Fits
    <2>2. Under(v, s[1])
      <3>1. Owns(w) => w.f \in {"thread", "exit_process", "unlink"} BY DEF Owns
      <3>2. Direct(w) => w.f = "thread" BY DEF Direct
      <3> QED BY <2>1, <3>1, <3>2 DEF Under, Alike
    <2> QED BY <1>2, <2>2 DEF Fits
  <1> QED BY <1>1, <1>2

LEMMA GoesOn ==
  ASSUME NEW s, NEW st, NEW nx, NEW l, OK(s, st, nx, l), s # <<>>,
         NEW v \in Frame, Alike(v, s[1]), Covers(v, st, nx)
  PROVE  /\ OK(<<v>> \o Tail(s), st, nx, l)
         /\ <<v>> \o Tail(s) # <<>> /\ (<<v>> \o Tail(s))[1] = v
         /\ \A p : Polled(<<v>> \o Tail(s), nx, p) <=>
                      Polls(v, nx, p) \/ Polled(Tail(s), nx, p)
  <1> DEFINE r == Tail(s)
             w == s[1]
  <1>1. /\ w \in Frame /\ r \in Seq(Frame)
        /\ Sound(r, st, l) /\ Reaching(r, st, nx) /\ Fits(w, r)
        /\ Owns(w) => ~ Held(r, w.p) /\ w.p \in l /\ st[w.p] = StateOf(w)
        /\ \A p : Held(s, p) <=> (Owns(w) /\ w.p = p) \/ Held(r, p)
    BY TopFrame
  <1> HIDE DEF r, w
  <1>2. Alike(v, w) BY DEF w
  <1>3. Fits(v, r) BY <1>1, <1>2, AlikeFits
  <1>4. Owns(v) => v.p = w.p /\ Owns(w) /\ StateOf(v) = StateOf(w)
    BY <1>2 DEF Alike, Owns, StateOf
  <1>5. Sound(<<v>> \o r, st, l) BY <1>1, <1>3, <1>4, SoundPush
  <1>6. Reaching(<<v>> \o r, st, nx) BY <1>1, ReachingPush
  <1>7. \A p : Held(s, p) => Held(<<v>> \o r, p)
    <2> SUFFICES ASSUME NEW p, Held(s, p) PROVE Held(<<v>> \o r, p) OBVIOUS
    <2>1. (Owns(w) /\ w.p = p) \/ Held(r, p) BY <1>1
    <2>2. Owns(w) => Owns(v) /\ v.p = w.p BY <1>2 DEF Alike, Owns
    <2> QED BY <1>1, <2>1, <2>2, HeldPush
  <1>8. Listed(<<v>> \o r, st, l) BY <1>7 DEF OK, Listed
  <1>9. <<v>> \o r # <<>> /\ (<<v>> \o r)[1] = v BY <1>1, SeqPush
  <1>10. \A p : Polled(<<v>> \o r, nx, p) <=> Polls(v, nx, p) \/ Polled(r, nx, p)
    BY <1>1, PolledPush
  <1> QED BY <1>5, <1>6, <1>8, <1>9, <1>10 DEF OK, r

(* An activation that holds nobody comes on top. *)
LEMMA Entered ==
  ASSUME NEW s, NEW st, NEW nx, NEW l, OK(s, st, nx, l),
         NEW v \in Frame, ~ Owns(v), Fits(v, s), Covers(v, st, nx)
  PROVE  /\ OK(<<v>> \o s, st, nx, l)
         /\ <<v>> \o s # <<>> /\ (<<v>> \o s)[1] = v
         /\ \A p : Polled(<<v>> \o s, nx, p) <=> Polls(v, nx, p) \/ Polled(s, nx, p)
  <1>1. s \in Seq(Frame) BY DEF OK, Sound
  <1>2. Sound(<<v>> \o s, st, l) BY SoundPush DEF OK
  <1>3. Reaching(<<v>> \o s, st, nx) BY <1>1, ReachingPush DEF OK
  <1>4. \A p : Held(s, p) => Held(<<v>> \o s, p) BY <1>1, HeldPush
  <1>5. Listed(<<v>> \o s, st, l) BY <1>4 DEF OK, Listed
  <1>6. <<v>> \o s # <<>> /\ (<<v>> \o s)[1] = v BY <1>1, SeqPush
  <1>7. \A p : Polled(<<v>> \o s, nx, p) <=> Polls(v, nx, p) \/ Polled(s, nx, p)
    BY <1>1, PolledPush
  <1> QED BY <1>2, <1>3, <1>5, <1>6, <1>7 DEF OK

(* One that holds nobody returns. *)
LEMMA Left ==
  ASSUME NEW s, NEW st, NEW nx, NEW l, OK(s, st, nx, l), s # <<>>, ~ Owns(s[1])
  PROVE  OK(Tail(s), st, nx, l)
  <1>1. /\ Sound(Tail(s), st, l) /\ Reaching(Tail(s), st, nx)
        /\ \A p : Held(s, p) => Held(Tail(s), p)
    BY TopFrame
  <1> QED BY <1>1 DEF OK, Listed

------------------------------------------------------------------------------
(* call_process() *)
Takes(s, p) ==
  s # <<>> => \/ s[1].f \in {"post_synch", "do_event", "exit_process"}
              \/ s[1].f = "do_poll" /\ s[1].q = p /\ s[1].at = "advance"

LEMMA ThreadFits ==
  ASSUME NEW s, NEW p \in Proc, NEW ev \in Event, Takes(s, p)
  PROVE  /\ Thread(p, ev, FALSE) \in Frame /\ Fits(Thread(p, ev, FALSE), s)
         /\ Owns(Thread(p, ev, FALSE)) /\ Thread(p, ev, FALSE).p = p
         /\ StateOf(Thread(p, ev, FALSE)) = "CALLED"
         /\ Thread(p, ev, FALSE).f = "thread"
  <1>1. PICK v : v = Thread(p, ev, FALSE) OBVIOUS
  <1>2. v \in ThreadFrame /\ v.f = "thread" /\ v.p = p /\ v.direct = FALSE
    BY <1>1 DEF Thread, ThreadFrame
  <1>3. v \in Frame BY <1>2 DEF Frame
  <1>4. Owns(v) /\ ~ Direct(v) /\ StateOf(v) = "CALLED"
    BY <1>2 DEF Owns, Direct, StateOf
  <1>5. Fits(v, s)
    BY <1>2, <1>4 DEF Fits, Under, Takes
  <1> QED BY <1>1, <1>2, <1>3, <1>4, <1>5

LEMMA FreeRuns ==
  ASSUME NEW s, NEW st, NEW nx, NEW l, OK(s, st, nx, l), NEW p,
         st[p] = "RUNNING"
  PROVE  ~ Held(s, p)
  <1> SUFFICES ASSUME Held(s, p) PROVE FALSE OBVIOUS
  <1>1. PICK i \in 1..Len(s) : Owns(s[i]) /\ s[i].p = p BY DEF Held
  <1>2. st[p] = StateOf(s[i]) BY <1>1 DEF OK, Sound, Owners
  <1> QED BY <1>2 DEF StateOf

LEMMA Called ==
  ASSUME NEW s, NEW st \in [Proc -> States], NEW nx, NEW l, OK(s, st, nx, l),
         NEW p \in Proc, st[p] = "RUNNING", NEW ev \in Event, Takes(s, p)
  PROVE  /\ OK(<<Thread(p, ev, FALSE)>> \o s, [st EXCEPT ![p] = "CALLED"], nx, l)
         /\ \A x : Polled(s, nx, x) => Polled(<<Thread(p, ev, FALSE)>> \o s, nx, x)
         /\ <<Thread(p, ev, FALSE)>> \o s # <<>>
         /\ (<<Thread(p, ev, FALSE)>> \o s)[1] = Thread(p, ev, FALSE)
  <1>1. PICK v : v = Thread(p, ev, FALSE) OBVIOUS
  <1>2. PICK u : u = [st EXCEPT ![p] = "CALLED"] OBVIOUS
  <1>3. v \in Frame /\ Fits(v, s) /\ Owns(v) /\ v.p = p /\ StateOf(v) = "CALLED"
        /\ v.f = "thread"
    BY <1>1, ThreadFits
  <1>4. s \in Seq(Frame) /\ p \in l /\ ~ Held(s, p)
    BY FreeRuns DEF OK, Sound, Listed
  <1>5. u[p] = "CALLED" /\ \A x : x # p => u[x] = st[x] BY <1>2
  <1>6. Sound(s, u, l) BY <1>4, <1>5, SoundState DEF OK
  <1>7. Sound(<<v>> \o s, u, l) BY <1>3, <1>4, <1>5, <1>6, SoundPush
  <1>8. Reaching(s, u, nx) BY <1>4, <1>5, ReachingState DEF OK
  <1>9. Covers(v, u, nx) BY <1>3 DEF Covers, Walk
  <1>10. Reaching(<<v>> \o s, u, nx) BY <1>3, <1>4, <1>8, <1>9, ReachingPush
  <1>11. \A x : Held(s, x) => Held(<<v>> \o s, x) BY <1>3, <1>4, HeldPush
  <1>12. Listed(<<v>> \o s, u, l) BY <1>4, <1>5, <1>11 DEF OK, Listed
  <1>13. \A x : Polled(s, nx, x) => Polled(<<v>> \o s, nx, x)
    BY <1>3, <1>4, PolledPush
  <1>14. <<v>> \o s # <<>> /\ (<<v>> \o s)[1] = v BY <1>3, <1>4, SeqPush
  <1> QED BY <1>1, <1>2, <1>7, <1>10, <1>12, <1>13, <1>14 DEF OK

LEMMA CallStep ==
  ASSUME NEW s, NEW st \in [Proc -> States], NEW nx, NEW l, OK(s, st, nx, l),
         NEW p \in Proc, NEW ev \in Event, Takes(s, p),
         call_process(p, ev, s, st), Tops(s, process_current, nx, l),
         process_current \in Pointer
  PROVE  /\ OK(stack', state', nx, l) /\ Tops(stack', process_current', nx, l)
         /\ \A x : Polled(s, nx, x) => Polled(stack', nx, x)
         /\ state' \in [Proc -> States] /\ process_current' \in Pointer
         /\ \A x \in Proc : state'[x] = "NONE" <=> st[x] = "NONE"
  <1>1. CASE st[p] = "RUNNING"
    <2>1. /\ stack' = <<Thread(p, ev, FALSE)>> \o s
          /\ state' = [st EXCEPT ![p] = "CALLED"] /\ process_current' = p
      BY <1>1 DEF call_process
    <2>2. /\ OK(stack', state', nx, l)
          /\ \A x : Polled(s, nx, x) => Polled(stack', nx, x)
          /\ stack' # <<>> /\ stack'[1] = Thread(p, ev, FALSE)
      BY <1>1, <2>1, Called
    <2>3. Thread(p, ev, FALSE).f = "thread" /\ Thread(p, ev, FALSE).p = p
      BY ThreadFits
    <2>4. Tops(stack', process_current', nx, l) BY <2>1, <2>2, <2>3 DEF Tops
    <2>5. state' \in [Proc -> States]
          /\ \A x \in Proc : state'[x] = "NONE" <=> st[x] = "NONE"
      BY <1>1, <2>1 DEF States
    <2> QED BY <2>1, <2>2, <2>4, <2>5 DEF Pointer
  <1>2. CASE st[p] # "RUNNING"
    <2>1. stack' = s /\ state' = st /\ process_current' = process_current
      BY <1>2 DEF call_process
    <2> QED BY <2>1
  <1> QED BY <1>1, <1>2

------------------------------------------------------------------------------
(* exit_process() begins, for a process that is on the list. *)
ExitsAt(v, s, p, q, due) ==
  /\ v \in Frame /\ Fits(v, s) /\ Owns(v) /\ v.p = p
  /\ StateOf(v) = "NONE" /\ v.f = "exit_process"
  /\ v.q = q /\ v.at = "visit" /\ v.due = due

LEMMA ExitFits ==
  ASSUME NEW s, NEW p \in Proc, NEW from \in Proc, NEW q \in Pointer,
         NEW due \in SUBSET Proc, process_current \in Pointer,
         s # <<>> => /\ s[1].f = "thread" => process_current = s[1].p
                     /\ s[1].f = "do_poll" => s[1].q = p /\ s[1].at = "advance"
  PROVE  ExitsAt(ExitWalk(p, from, q, due), s, p, q, due)
  <1>1. PICK v : v = ExitWalk(p, from, q, due) OBVIOUS
  <1>2. /\ v \in ExitFrame /\ v.f = "exit_process" /\ v.p = p /\ v.q = q
        /\ v.at = "visit" /\ v.due = due /\ v.old = process_current
    BY <1>1 DEF ExitWalk, ExitFrame
  <1>3. v \in Frame BY <1>2 DEF Frame
  <1>4. Owns(v) /\ ~ Direct(v) /\ StateOf(v) = "NONE" /\ Returns(v) = process_current
    BY <1>2 DEF Owns, Direct, StateOf, Returns
  <1>5. Fits(v, s) BY <1>2, <1>4 DEF Fits, Under
  <1> QED BY <1>1, <1>2, <1>3, <1>4, <1>5 DEF ExitsAt

LEMMA ExitStep ==
  ASSUME Types, NEW r, Sound(r, state, Listing), Reaching(r, state, next),
         NEW p \in Listing, ~ Held(r, p), state[p] # "NONE",
         \A x \in Proc : state[x] # "NONE" => x \in Listing,
         \A x \in Listing : state[x] = "NONE" => Held(r, x),
         NEW from \in Proc, exit_process(p, from, r),
         r # <<>> => /\ r[1].f = "thread" => process_current = r[1].p
                     /\ r[1].f = "do_poll" => r[1].q = p /\ r[1].at = "advance"
  PROVE  /\ OK(stack', state', next, Listing)
         /\ \A pc : Tops(stack', pc, next, Listing)
         /\ \A x : Polled(r, next, x) => Polled(stack', next, x)
         /\ state' = [state EXCEPT ![p] = "NONE"] /\ owed' = owed \ {p}
  <1>1. p \in Proc BY ReachProc DEF Listing
  <1>2. OnList(p) BY FromReach DEF OnList, Listing
  <1>3. PICK v : v = ExitWalk(p, from, process_list, Running \ {p}) OBVIOUS
  <1>4. state' = [state EXCEPT ![p] = "NONE"] /\ owed' = owed \ {p}
        /\ stack' = <<v>> \o r
    BY <1>2, <1>3 DEF exit_process
  <1>5. /\ v \in Frame /\ Fits(v, r) /\ Owns(v) /\ v.p = p
        /\ StateOf(v) = "NONE" /\ v.f = "exit_process"
        /\ v.q = process_list /\ v.at = "visit" /\ v.due = Running \ {p}
    <2>1. process_list \in Pointer /\ process_current \in Pointer BY DEF Types
    <2>2. Running \ {p} \in SUBSET Proc BY DEF Running
    <2>3. ExitsAt(v, r, p, process_list, Running \ {p})
      BY <1>1, <1>3, <2>1, <2>2, ExitFits
    <2> QED BY <2>3 DEF ExitsAt
  <1>6. PICK u : u = [state EXCEPT ![p] = "NONE"] OBVIOUS
  <1>7. /\ u[p] = "NONE" /\ \A x : x # p => u[x] = state[x]
        /\ \A x \in Proc : u[x] # "NONE" => state[x] # "NONE"
    BY <1>1, <1>6 DEF Types
  <1>8. r \in Seq(Frame) BY DEF Sound
  <1>9. Sound(r, u, Listing) BY <1>7, SoundState
  <1>10. Sound(<<v>> \o r, u, Listing) BY <1>5, <1>7, <1>9, SoundPush
  <1>11. Reaching(r, u, next) BY <1>7, <1>8, ReachingState
  <1>12. Covers(v, u, next)
    <2> SUFFICES ASSUME NEW x \in Running PROVE x \in AheadOf(next, v)
      BY <1>5 DEF Covers
    <2>1. x \in Listing BY DEF Running
    <2> QED BY <1>5, <2>1 DEF AheadOf, Listing
  <1>13. Reaching(<<v>> \o r, u, next) BY <1>5, <1>8, <1>11, <1>12, ReachingPush
  <1>14. \A x : Held(r, x) \/ x = p => Held(<<v>> \o r, x)
    BY <1>5, <1>8, HeldPush
  <1>15. Listed(<<v>> \o r, u, Listing)
    <2>1. ASSUME NEW x \in Proc, u[x] # "NONE" PROVE x \in Listing BY <1>7, <2>1
    <2>2. ASSUME NEW x \in Listing, u[x] = "NONE" PROVE Held(<<v>> \o r, x)
      BY <1>7, <1>14, <2>2
    <2> QED BY <2>1, <2>2 DEF Listed
  <1>16. \A x : Polled(r, next, x) => Polled(<<v>> \o r, next, x)
    BY <1>5, <1>8, PolledPush
  <1>17. (<<v>> \o r)[1] = v BY <1>5, <1>8, SeqPush
  <1>18. \A pc : Tops(<<v>> \o r, pc, next, Listing) BY <1>5, <1>17 DEF Tops
  <1> QED BY <1>4, <1>6, <1>10, <1>13, <1>15, <1>16, <1>18 DEF OK

(* process_start() *)
LEMMA SynchFits ==
  ASSUME NEW s, process_current \in Pointer,
         s # <<>> => s[1].f = "thread" /\ process_current = s[1].p
  PROVE  /\ Synch \in Frame /\ Fits(Synch, s) /\ ~ Owns(Synch)
         /\ Synch.f = "post_synch"
  <1>1. PICK v : v = Synch OBVIOUS
  <1>2. v \in SynchFrame /\ v.f = "post_synch" /\ v.caller = process_current
    BY <1>1 DEF Synch, SynchFrame
  <1>3. v \in Frame BY <1>2 DEF Frame
  <1>4. ~ Owns(v) /\ ~ Direct(v) /\ Returns(v) = process_current
    BY <1>2 DEF Owns, Direct, Returns
  <1>5. Fits(v, s) BY <1>2, <1>4 DEF Fits, Under
  <1> QED BY <1>1, <1>2, <1>3, <1>4, <1>5

LEMMA StartStep ==
  ASSUME Types, NEW r, OK(r, state, next, Listing), NoCycle(next, process_list),
         NEW p \in Proc, process_start(p, r),
         r # <<>> => r[1].f = "thread" /\ process_current = r[1].p
  PROVE  /\ OK(stack', state', next', Listing') /\ NoCycle(next', process_list')
         /\ Tops(stack', process_current', next', Listing')
         /\ \A x \in owed' : /\ x \in owed
                             /\ state[x] # "NONE" => state'[x] # "NONE"
         /\ \A x \in owed' : state[x] # "NONE" /\ Polled(r, next, x) =>
                               Polled(stack', next', x)
         /\ state' \in [Proc -> States] /\ process_current' \in Pointer
         /\ process_list' \in Pointer /\ next' \in [Proc -> Pointer]
         /\ starts' \in 0..MaxStarts /\ owed' \subseteq owed
  <1>1. CASE OnList(p)
    <2>1. stack' = r /\ UNCHANGED <<listVars, state, process_current, owed>>
      BY <1>1 DEF process_start
    <2>2. Listing' = Listing BY <2>1 DEF Listing, listVars
    <2>3. Tops(r, process_current, next, Listing) BY DEF Tops
    <2> QED BY <2>1, <2>2, <2>3 DEF listVars, Types
  <1>2. CASE ~ OnList(p)
    <2>1. p \notin Listing BY <1>2, FromReach DEF OnList, Listing
    <2>2. PICK mx : mx = Pushed(next, process_list, p) OBVIOUS
    <2>3. PICK u : u = [state EXCEPT ![p] = "RUNNING"] OBVIOUS
    <2>4. PICK t : t = Forget(p, r) OBVIOUS
    <2>5. PICK l : l = {p} \cup Listing OBVIOUS
    <2>6. /\ starts < MaxStarts /\ starts' = starts + 1 /\ next' = mx
          /\ process_list' = p /\ owed' = owed \ {p}
          /\ call_process(p, "INIT", <<Synch>> \o t, u)
      BY <1>2, <2>2, <2>3, <2>4 DEF process_start, Pushed
    <2>7. next \in [Proc -> Pointer] /\ process_list \in Pointer
          /\ state \in [Proc -> States] /\ process_current \in Pointer
          /\ starts \in 0..MaxStarts
      BY DEF Types
    <2>8. mx \in [Proc -> Pointer] /\ Reach(mx, p) = l
      <3>1. p \notin Reach(next, process_list) BY <2>1 DEF Listing
      <3>2. Pushed(next, process_list, p) \in [Proc -> Pointer]
            /\ Reach(Pushed(next, process_list, p), p)
                  = {p} \cup Reach(next, process_list)
        BY <2>7, <3>1, StartReach
      <3> QED BY <2>2, <2>5, <3>2 DEF Listing
    <2>9. Listing' = l BY <2>6, <2>8 DEF Listing
    <2>10. NoCycle(mx, p)
      BY <2>1, <2>2, <2>7, StartCycle DEF Listing
    <2>11. /\ u \in [Proc -> States] /\ u[p] = "RUNNING"
           /\ \A x : x # p => u[x] = state[x]
      BY <2>3, <2>7 DEF States
    <2>12. r \in Seq(Frame) /\ ~ Held(r, p)
      <3>1. ASSUME Held(r, p) PROVE FALSE
        <4>1. PICK i \in 1..Len(r) : Owns(r[i]) /\ r[i].p = p BY <3>1 DEF Held
        <4>2. p \in Listing BY <4>1 DEF OK, Sound, Owners
        <4> QED BY <2>1, <4>2
      <3> QED BY <3>1 DEF OK, Sound
    <2>13. Sound(t, u, l) /\ \A x : Held(t, x) <=> Held(r, x)
      <3>1. Sound(t, state, Listing) /\ \A x : Held(t, x) <=> Held(r, x)
        BY <2>4, SoundForget DEF OK
      <3> QED BY <2>5, <2>11, <2>12, <3>1, SoundState
    <2>14. Reaching(t, u, mx)
           /\ \A x \in Listing : Polled(r, next, x) => Polled(t, mx, x)
      <3>1. /\ p \notin Reach(next, process_list)
            /\ \A x \in Proc : state[x] # "NONE" => x \in Reach(next, process_list)
        BY <2>1 DEF OK, Listed, Listing
      <3>2. \A x \in Proc : x # p /\ u[x] # "NONE" => state[x] # "NONE" BY <2>11
      <3>3. Reaching(r, state, next) BY DEF OK
      <3>4. /\ Reaching(Forget(p, r), u, Pushed(next, process_list, p))
            /\ \A x \in Reach(next, process_list) :
                  Polled(r, next, x) =>
                    Polled(Forget(p, r), Pushed(next, process_list, p), x)
        BY <2>7, <2>12, <3>1, <3>2, <3>3, StartWalks
      <3> QED BY <2>2, <2>4, <3>4 DEF Listing
    <2>15. Listed(t, u, l)
      <3>1. ASSUME NEW x \in Proc, u[x] # "NONE" PROVE x \in l
        BY <2>5, <2>11, <3>1 DEF OK, Listed
      <3>2. ASSUME NEW x \in l, u[x] = "NONE" PROVE Held(t, x)
        BY <2>5, <2>11, <2>13, <3>2 DEF OK, Listed
      <3> QED BY <3>1, <3>2 DEF Listed
    <2>16. OK(t, u, mx, l) BY <2>13, <2>14, <2>15 DEF OK
    <2>17. t # <<>> => t[1].f = "thread" /\ process_current = t[1].p
      <3> SUFFICES ASSUME t # <<>>
                   PROVE  t[1].f = "thread" /\ process_current = t[1].p
        OBVIOUS
      <3>1. t \in Seq(Frame) /\ Len(t) = Len(r)
            /\ \A i \in 1..Len(r) : t[i] = Forgot(p, r[i])
        BY <2>4, <2>12, ForgetIndex
      <3>2. 1 \in 1..Len(r) /\ r # <<>> BY <2>12, <3>1
      <3>3. r[1].f = "thread" /\ process_current = r[1].p BY <3>2
      <3>4. t[1] = r[1] BY <3>1, <3>2, <3>3 DEF Forgot, Walk
      <3> QED BY <3>3, <3>4
    <2>18. Synch \in Frame /\ Fits(Synch, t) /\ ~ Owns(Synch)
           /\ Synch.f = "post_synch"
      BY <2>7, <2>17, SynchFits
    <2>19. PICK v : v = Synch OBVIOUS
    <2>20. Covers(v, u, mx) BY <2>18, <2>19 DEF Covers, Walk
    <2>21. PICK w : w = <<v>> \o t OBVIOUS
    <2>22. /\ OK(w, u, mx, l) /\ w # <<>> /\ w[1] = v
           /\ \A x : Polled(t, mx, x) => Polled(w, mx, x)
      BY <2>16, <2>18, <2>19, <2>20, <2>21, Entered
    <2>23. Takes(w, p) BY <2>18, <2>19, <2>22 DEF Takes
    <2>24. Tops(w, process_current, mx, l) BY <2>18, <2>19, <2>22 DEF Tops
    <2>25. call_process(p, "INIT", w, u) BY <2>6, <2>19, <2>21
    <2>26. "INIT" \in Event BY DEF Event
    <2>27. /\ OK(stack', state', mx, l) /\ Tops(stack', process_current', mx, l)
           /\ \A x : Polled(w, mx, x) => Polled(stack', mx, x)
           /\ state' \in [Proc -> States] /\ process_current' \in Pointer
           /\ \A x \in Proc : state'[x] = "NONE" <=> u[x] = "NONE"
      BY <2>7, <2>11, <2>22, <2>23, <2>24, <2>25, <2>26, CallStep
    <2>28. ASSUME NEW x \in owed'
           PROVE  /\ x \in owed /\ (state[x] # "NONE" => state'[x] # "NONE")
                  /\ state[x] # "NONE" /\ Polled(r, next, x) =>
                       Polled(stack', next', x)
      <3>1. x \in owed /\ x # p /\ x \in Proc BY <2>6, <2>28 DEF Types
      <3>2. state[x] # "NONE" => state'[x] # "NONE" BY <2>11, <2>27, <3>1
      <3>3. state[x] # "NONE" => x \in Listing BY <3>1 DEF OK, Listed
      <3> QED BY <2>6, <2>14, <2>22, <2>27, <3>1, <3>2, <3>3
    <2>29. starts' \in 0..MaxStarts
      BY <2>6, <2>7, ProcessAssumption
    <2>30. p \in Pointer BY DEF Pointer
    <2> QED BY <2>6, <2>8, <2>9, <2>10, <2>27, <2>28, <2>29, <2>30
  <1> QED BY <1>1, <1>2

------------------------------------------------------------------------------
(* How an activation changes in a step. *)
LEMMA ThreadCalls ==
  ASSUME NEW w \in Frame, w.f = "thread", NEW v, v = [w EXCEPT !.calls = @ + 1]
  PROVE  v \in Frame /\ Alike(v, w) /\ v.f = "thread" /\ v.p = w.p
  <1>1. w \in ThreadFrame /\ (w.direct => w.ev = "EXIT") BY FrameKinds
  <1>2. v \in ThreadFrame /\ v.f = "thread" /\ v.p = w.p /\ v.direct = w.direct
        /\ v.ev = w.ev
    BY <1>1 DEF ThreadFrame
  <1>3. v \in Frame BY <1>1, <1>2 DEF Frame
  <1> QED BY <1>2, <1>3 DEF Alike, Owns, Direct

LEMMA ExitTold ==
  ASSUME NEW w \in Frame, w.f = "exit_process", w.q \in Proc,
         NEW v, v = [w EXCEPT !.at = "advance", !.due = @ \ {w.q}]
  PROVE  /\ v \in Frame /\ Alike(v, w) /\ v.f = "exit_process" /\ v.q = w.q
         /\ v.at = "advance" /\ v.due = w.due \ {w.q}
  <1>1. w \in ExitFrame BY FrameKinds
  <1>2. /\ v \in ExitFrame /\ v.f = "exit_process" /\ v.p = w.p /\ v.old = w.old
        /\ v.q = w.q /\ v.at = "advance" /\ v.due = w.due \ {w.q}
    BY <1>1 DEF ExitFrame
  <1>3. v \in Frame BY <1>2 DEF Frame
  <1> QED BY <1>2, <1>3 DEF Alike, Owns, Direct, Returns

Moved(w, q, at) == [w EXCEPT !.q = q, !.at = at]

LEMMA ExitMoves ==
  ASSUME NEW w \in Frame, w.f = "exit_process", NEW q \in Pointer,
         NEW v, v = Moved(w, q, "visit")
  PROVE  /\ v \in Frame /\ Alike(v, w) /\ v.f = "exit_process" /\ v.q = q
         /\ v.at = "visit" /\ v.due = w.due
  <1>1. w \in ExitFrame BY FrameKinds
  <1>2. /\ v \in ExitFrame /\ v.f = "exit_process" /\ v.p = w.p /\ v.old = w.old
        /\ v.q = q /\ v.at = "visit" /\ v.due = w.due
    BY <1>1 DEF ExitFrame, Moved
  <1>3. v \in Frame BY <1>2 DEF Frame
  <1> QED BY <1>2, <1>3 DEF Alike, Owns, Direct, Returns

LEMMA EventCalls ==
  ASSUME NEW w \in Frame, w.f = "do_event", w.q \in Proc,
         NEW v, v = [w EXCEPT !.at = "call"]
  PROVE  /\ v \in Frame /\ Alike(v, w) /\ v.f = "do_event" /\ v.q = w.q
         /\ v.at = "call" /\ v.due = w.due
  <1>1. w \in EventFrame BY FrameKinds
  <1>2. /\ v \in EventFrame /\ v.f = "do_event"
        /\ v.q = w.q /\ v.at = "call" /\ v.due = w.due
    BY <1>1 DEF EventFrame
  <1>3. v \in Frame BY <1>2 DEF Frame
  <1> QED BY <1>2, <1>3 DEF Alike, Owns, Direct

LEMMA EventTold ==
  ASSUME NEW w \in Frame, w.f = "do_event", w.q \in Proc,
         NEW v, v = [w EXCEPT !.at = "advance", !.due = @ \ {w.q}]
  PROVE  /\ v \in Frame /\ Alike(v, w) /\ v.f = "do_event" /\ v.q = w.q
         /\ v.at = "advance" /\ v.due = w.due \ {w.q}
  <1>1. w \in EventFrame BY FrameKinds
  <1>2. /\ v \in EventFrame /\ v.f = "do_event"
        /\ v.q = w.q /\ v.at = "advance" /\ v.due = w.due \ {w.q}
    BY <1>1 DEF EventFrame
  <1>3. v \in Frame BY <1>2 DEF Frame
  <1> QED BY <1>2, <1>3 DEF Alike, Owns, Direct

LEMMA EventMoves ==
  ASSUME NEW w \in Frame, w.f = "do_event", NEW q \in Pointer,
         NEW v, v = Moved(w, q, "poll")
  PROVE  /\ v \in Frame /\ Alike(v, w) /\ v.f = "do_event" /\ v.q = q
         /\ v.at = "poll" /\ v.due = w.due
  <1>1. w \in EventFrame BY FrameKinds
  <1>2. /\ v \in EventFrame /\ v.f = "do_event"
        /\ v.q = q /\ v.at = "poll" /\ v.due = w.due
    BY <1>1 DEF EventFrame, Moved
  <1>3. v \in Frame BY <1>2 DEF Frame
  <1> QED BY <1>2, <1>3 DEF Alike, Owns, Direct

LEMMA PollSeen ==
  ASSUME NEW w \in Frame, w.f = "do_poll", w.q \in Proc,
         NEW v, v = [w EXCEPT !.at = "advance"]
  PROVE  /\ v \in Frame /\ Alike(v, w) /\ v.f = "do_poll" /\ v.q = w.q
         /\ v.at = "advance"
  <1>1. w \in PollFrame BY FrameKinds
  <1>2. v \in PollFrame /\ v.f = "do_poll" /\ v.q = w.q /\ v.at = "advance"
    BY <1>1 DEF PollFrame
  <1>3. v \in Frame BY <1>2 DEF Frame
  <1> QED BY <1>2, <1>3 DEF Alike, Owns, Direct

LEMMA PollMoves ==
  ASSUME NEW w \in Frame, w.f = "do_poll", NEW q \in Pointer,
         NEW v, v = Moved(w, q, "visit")
  PROVE  /\ v \in Frame /\ Alike(v, w) /\ v.f = "do_poll" /\ v.q = q
         /\ v.at = "visit"
  <1>1. w \in PollFrame BY FrameKinds
  <1>2. v \in PollFrame /\ v.f = "do_poll" /\ v.q = q /\ v.at = "visit"
    BY <1>1 DEF PollFrame, Moved
  <1>3. v \in Frame BY <1>2 DEF Frame
  <1> QED BY <1>2, <1>3 DEF Alike, Owns, Direct

LEMMA CoverVisited ==
  ASSUME NEW nx \in [Proc -> Pointer], NEW st, NEW w, NEW v, Walk(w),
         w.at # "advance", w.q \in Proc, Covers(w, st, nx),
         v.q = w.q, v.at = "advance", v.due = w.due \ {w.q}
  PROVE  Covers(v, st, nx)
  <1> SUFFICES ASSUME NEW x \in v.due, st[x] # "NONE" PROVE x \in AheadOf(nx, v)
    BY DEF Covers
  <1>1. x \in w.due /\ x # w.q OBVIOUS
  <1>2. x \in Reach(nx, w.q) BY <1>1 DEF Covers, AheadOf
  <1>3. x \in After(nx, w.q) BY <1>1, <1>2, ReachSplit
  <1> QED BY <1>3 DEF AheadOf

LEMMA CoverMoved ==
  ASSUME NEW nx, NEW st, NEW w, NEW v, Walk(w), w.at = "advance",
         Covers(w, st, nx), v.q = nx[w.q], v.at # "advance", v.due = w.due
  PROVE  Covers(v, st, nx)
  BY DEF Covers, AheadOf, After

(* Steps that leave the list alone. *)
LEMMA SameList ==
  ASSUME IInv, process_list' = process_list, next' = next,
         OK(stack', state', next, Listing),
         Tops(stack', process_current', next, Listing)
  PROVE  Good'
  <1>1. Listing' = Listing BY DEF Listing
  <1> QED BY <1>1 DEF IInv, Good

LEMMA SamePolls ==
  ASSUME IInv, next' = next, needspoll' = needspoll,
         poll_requested' = poll_requested, owed' \subseteq owed,
         \A x \in owed' : state[x] # "NONE" => state'[x] # "NONE",
         \A x \in owed' : Polled(stack, next, x) => Polled(stack', next, x)
  PROVE  Polling'
  BY DEF IInv, Polling

LEMMA ListClosed ==
  ASSUME Types, NEW x \in Listing
  PROVE  x \in Proc /\ next[x] \in Listing \cup {NULL}
  BY ReachProc, ReachClosed DEF Listing, Types, Lead

LEMMA ListHead ==
  ASSUME Types PROVE process_list \in Listing \cup {NULL}
  BY ReachSelf DEF Listing, Types, Pointer

------------------------------------------------------------------------------
(* The kernel calls of a thread. *)
LEMMA CallingOK ==
  ASSUME IInv, MayCall
  PROVE  /\ OK(Calling, state, next, Listing) /\ Calling # <<>>
         /\ Calling[1].f = "thread" /\ Calling[1].p = process_current
         /\ process_current \in Proc
         /\ \A x : Polled(stack, next, x) => Polled(Calling, next, x)
         /\ \A x : Held(Calling, x) => Held(stack, x)
  <1>1. stack # <<>> /\ Top.f = "thread" /\ OK(stack, state, next, Listing)
    BY DEF MayCall, In, IInv, Good
  <1>2. PICK w : w = stack[1] OBVIOUS
  <1>3. PICK r : r = Tail(stack) OBVIOUS
  <1>4. /\ Top = w /\ w \in Frame /\ r \in Seq(Frame)
        /\ \A p : Held(stack, p) <=> (Owns(w) /\ w.p = p) \/ Held(r, p)
        /\ \A p : Polled(stack, next, p) <=> Polls(w, next, p) \/ Polled(r, next, p)
    BY <1>1, <1>2, <1>3, TopFrame DEF Top
  <1>5. PICK v : v = [w EXCEPT !.calls = @ + 1] OBVIOUS
  <1>6. v \in Frame /\ Alike(v, w) /\ v.f = "thread" /\ v.p = w.p
    BY <1>1, <1>4, <1>5, ThreadCalls
  <1>7. Calling = <<v>> \o r BY <1>3, <1>4, <1>5 DEF Calling, Replaced, Rest
  <1>8. Covers(v, state, next) BY <1>6 DEF Covers, Walk
  <1>9. /\ OK(Calling, state, next, Listing) /\ Calling # <<>> /\ Calling[1] = v
        /\ \A p : Polled(Calling, next, p) <=> Polls(v, next, p) \/ Polled(r, next, p)
    BY <1>1, <1>2, <1>3, <1>6, <1>7, <1>8, GoesOn
  <1>10. process_current = w.p /\ w.p \in Proc
    <2>1. process_current = w.p BY <1>1, <1>2, <1>4 DEF IInv, Good, Tops
    <2>2. w \in ThreadFrame BY <1>1, <1>4, FrameKinds
    <2> QED BY <2>1, <2>2 DEF ThreadFrame
  <1>11. \A x : Polled(stack, next, x) => Polled(Calling, next, x)
    BY <1>1, <1>4, <1>9 DEF Polls
  <1>12. ASSUME NEW x, Held(Calling, x) PROVE Held(stack, x)
    <2>1. (Owns(v) /\ v.p = x) \/ Held(r, x) BY <1>4, <1>6, <1>7, <1>12, HeldPush
    <2> QED BY <1>4, <1>6, <2>1 DEF Alike
  <1> QED BY <1>6, <1>9, <1>10, <1>11, <1>12

LEMMA PostOK ==
  ASSUME IInv, NEW p, NEW ev, thread_post(p, ev) PROVE Good' /\ Polling'
  <1>1. /\ MayCall /\ stack' = Calling
        /\ UNCHANGED <<listVars, state, pollVars, process_current>>
    BY DEF thread_post
  <1>2. /\ OK(Calling, state, next, Listing) /\ Calling # <<>>
        /\ Calling[1].f = "thread" /\ Calling[1].p = process_current
        /\ \A x : Polled(stack, next, x) => Polled(Calling, next, x)
    BY <1>1, CallingOK
  <1>3. Tops(Calling, process_current, next, Listing) BY <1>2 DEF Tops
  <1>4. Good' BY <1>1, <1>2, <1>3, SameList DEF listVars
  <1>5. Polling' BY <1>1, <1>2, SamePolls DEF listVars, pollVars
  <1> QED BY <1>4, <1>5

LEMMA SynchOK ==
  ASSUME IInv, NEW p \in Proc, NEW ev \in Posted, process_post_synch(p, ev)
  PROVE  /\ Good' /\ Polling' /\ state' \in [Proc -> States]
         /\ process_current' \in Pointer
  <1>1. /\ MayCall /\ call_process(p, ev, <<Synch>> \o Calling, state)
        /\ UNCHANGED <<listVars, pollVars>>
    BY DEF process_post_synch
  <1>2. PICK c : c = Calling OBVIOUS
  <1>3. /\ OK(c, state, next, Listing) /\ c # <<>>
        /\ c[1].f = "thread" /\ c[1].p = process_current
        /\ \A x : Polled(stack, next, x) => Polled(c, next, x)
    BY <1>1, <1>2, CallingOK
  <1>4. process_current \in Pointer /\ state \in [Proc -> States]
    BY DEF IInv, Types
  <1>5. PICK v : v = Synch OBVIOUS
  <1>6. v \in Frame /\ Fits(v, c) /\ ~ Owns(v) /\ v.f = "post_synch"
    BY <1>3, <1>4, <1>5, SynchFits
  <1>7. Covers(v, state, next) BY <1>6 DEF Covers, Walk
  <1>8. PICK s : s = <<v>> \o c OBVIOUS
  <1>9. /\ OK(s, state, next, Listing) /\ s # <<>> /\ s[1] = v
        /\ \A x : Polled(c, next, x) => Polled(s, next, x)
    BY <1>3, <1>6, <1>7, <1>8, Entered
  <1>10. Takes(s, p) /\ Tops(s, process_current, next, Listing)
    BY <1>6, <1>9 DEF Takes, Tops
  <1>11. ev \in Event BY DEF Event
  <1>12. call_process(p, ev, s, state) BY <1>1, <1>2, <1>5, <1>8
  <1>13. /\ OK(stack', state', next, Listing)
         /\ Tops(stack', process_current', next, Listing)
         /\ \A x : Polled(s, next, x) => Polled(stack', next, x)
         /\ state' \in [Proc -> States] /\ process_current' \in Pointer
         /\ \A x \in Proc : state'[x] = "NONE" <=> state[x] = "NONE"
    BY <1>4, <1>9, <1>10, <1>11, <1>12, CallStep
  <1>14. Good' BY <1>1, <1>13, SameList DEF listVars
  <1>15. owed \subseteq Proc BY DEF IInv, Types
  <1>16. Polling' BY <1>1, <1>3, <1>9, <1>13, <1>15, SamePolls DEF listVars, pollVars
  <1> QED BY <1>13, <1>14, <1>16

LEMMA ThreadStartOK ==
  ASSUME IInv, NEW p \in Proc,
         \/ thread_start(p) \/ boot_start(p)
  PROVE  /\ Good' /\ Polling'
         /\ state' \in [Proc -> States] /\ process_current' \in Pointer
         /\ process_list' \in Pointer /\ next' \in [Proc -> Pointer]
         /\ starts' \in 0..MaxStarts /\ owed' \subseteq Proc
  <1>1. PICK r : /\ process_start(p, r) /\ OK(r, state, next, Listing)
                 /\ r # <<>> => r[1].f = "thread" /\ process_current = r[1].p
                 /\ \A x : Polled(stack, next, x) => Polled(r, next, x)
    <2>1. CASE thread_start(p)
      <3>1. MayCall /\ process_start(p, Calling) BY <2>1 DEF thread_start
      <3> QED BY <3>1, CallingOK
    <2>2. CASE boot_start(p)
      <3>1. stack = <<>> /\ process_start(p, <<>>) BY <2>2 DEF boot_start
      <3> QED BY <3>1 DEF IInv, Good
    <2> QED BY <2>1, <2>2
  <1>2. UNCHANGED <<needspoll, poll_requested>> BY DEF thread_start, boot_start
  <1>3. Types /\ NoCycle(next, process_list) BY DEF IInv, Good
  <1>4. /\ OK(stack', state', next', Listing') /\ NoCycle(next', process_list')
        /\ Tops(stack', process_current', next', Listing')
        /\ \A x \in owed' : /\ x \in owed
                            /\ state[x] # "NONE" => state'[x] # "NONE"
        /\ \A x \in owed' : state[x] # "NONE" /\ Polled(r, next, x) =>
                              Polled(stack', next', x)
        /\ state' \in [Proc -> States] /\ process_current' \in Pointer
        /\ process_list' \in Pointer /\ next' \in [Proc -> Pointer]
        /\ starts' \in 0..MaxStarts /\ owed' \subseteq owed
    BY <1>1, <1>3, StartStep
  <1>5. Good' BY <1>4 DEF Good
  <1>6. Polling' BY <1>1, <1>2, <1>4 DEF IInv, Polling
  <1>7. owed' \subseteq Proc BY <1>3, <1>4 DEF Types
  <1> QED BY <1>4, <1>5, <1>6, <1>7

LEMMA ExitOK ==
  ASSUME IInv, ~ SelfExit, NEW p \in Proc, process_exit(p)
  PROVE  Good' /\ Polling' /\ state' \in [Proc -> States] /\ owed' \subseteq owed
  <1>1. /\ MayCall /\ Frames(p) = {} /\ exit_process(p, process_current, Calling)
        /\ UNCHANGED <<listVars, process_current, needspoll, poll_requested>>
    BY DEF process_exit
  <1>2. PICK c : c = Calling OBVIOUS
  <1>3. /\ OK(c, state, next, Listing) /\ c # <<>>
        /\ c[1].f = "thread" /\ c[1].p = process_current /\ process_current \in Proc
        /\ \A x : Polled(stack, next, x) => Polled(c, next, x)
        /\ \A x : Held(c, x) => Held(stack, x)
    BY <1>1, <1>2, CallingOK
  <1>4. exit_process(p, process_current, c) BY <1>1, <1>2
  <1>5. Types /\ OK(stack, state, next, Listing) /\ stack \in Seq(Frame)
    BY DEF IInv, Good, OK, Sound
  <1>6. CASE p \notin Listing
    <2>1. ~ OnList(p) BY <1>6, FromReach DEF OnList, Listing
    <2>2. stack' = c /\ state' = state /\ owed' = owed
      BY <1>4, <2>1 DEF exit_process
    <2>3. Tops(c, process_current, next, Listing) BY <1>3 DEF Tops
    <2>4. Good' BY <1>1, <1>3, <2>2, <2>3, SameList DEF listVars
    <2>5. Polling' BY <1>1, <1>3, <2>2, SamePolls DEF listVars
    <2> QED BY <1>5, <2>2, <2>4, <2>5 DEF Types
  <1>7. CASE p \in Listing
    <2>1. ~ Held(stack, p)
      <3> SUFFICES ASSUME Held(stack, p) PROVE FALSE OBVIOUS
      <3>1. PICK i \in 1..Len(stack) : Owns(stack[i]) /\ stack[i].p = p BY DEF Held
      <3>2. i \in DOMAIN stack BY <1>5
      <3>3. stack[i].f \in {"thread", "exit_process", "unlink"} BY <3>1 DEF Owns
      <3>4. i \in Frames(p) BY <3>1, <3>2, <3>3 DEF Frames
      <3> QED BY <1>1, <3>4
    <2>2. state[p] # "NONE" BY <1>5, <1>7, <2>1 DEF OK, Listed
    <2>3. ~ Held(c, p) BY <1>3, <2>1
    <2>4. /\ Sound(c, state, Listing) /\ Reaching(c, state, next)
          /\ \A x \in Proc : state[x] # "NONE" => x \in Listing
          /\ \A x \in Listing : state[x] = "NONE" => Held(c, x)
      BY <1>3 DEF OK, Listed
    <2>5. /\ OK(stack', state', next, Listing)
          /\ \A pc : Tops(stack', pc, next, Listing)
          /\ \A x : Polled(c, next, x) => Polled(stack', next, x)
          /\ state' = [state EXCEPT ![p] = "NONE"] /\ owed' = owed \ {p}
      BY <1>3, <1>4, <1>5, <1>7, <2>2, <2>3, <2>4, ExitStep
    <2>6. Good' BY <1>1, <2>5, SameList DEF listVars
    <2>7. \A x \in owed' : state[x] # "NONE" => state'[x] # "NONE"
      BY <1>5, <2>5 DEF Types
    <2>8. Polling' BY <1>1, <1>3, <2>5, <2>7, SamePolls DEF listVars
    <2>9. state' \in [Proc -> States] BY <1>5, <2>5 DEF Types, States
    <2> QED BY <2>5, <2>6, <2>8, <2>9
  <1> QED BY <1>6, <1>7

------------------------------------------------------------------------------
(* The returns. *)
LEMMA YieldOK ==
  ASSUME IInv, thread_yield
  PROVE  Good' /\ Polling' /\ state' \in [Proc -> States]
  <1>1. /\ stack # <<>> /\ Top.f = "thread" /\ Top.ev # "EXIT"
        /\ state' = [state EXCEPT ![Top.p] = "RUNNING"] /\ stack' = Rest
        /\ UNCHANGED <<listVars, pollVars, process_current>>
    BY DEF thread_yield, In
  <1>2. Types /\ OK(stack, state, next, Listing) BY DEF IInv, Good
  <1>3. PICK w : w = stack[1] OBVIOUS
  <1>4. PICK r : r = Tail(stack) OBVIOUS
  <1>5. /\ Top = w /\ w \in Frame /\ r \in Seq(Frame)
        /\ Sound(r, state, Listing) /\ Reaching(r, state, next) /\ Fits(w, r)
        /\ Owns(w) => ~ Held(r, w.p) /\ w.p \in Listing /\ state[w.p] = StateOf(w)
        /\ \A p : Held(stack, p) <=> (Owns(w) /\ w.p = p) \/ Held(r, p)
        /\ \A p : Polled(stack, next, p) <=> Polls(w, next, p) \/ Polled(r, next, p)
    BY <1>1, <1>2, <1>3, <1>4, TopFrame DEF Top
  <1>6. Owns(w) /\ ~ Direct(w) BY <1>1, <1>5, FrameKinds DEF Owns, Direct
  <1>7. PICK p : p = w.p OBVIOUS
  <1>8. p \in Listing /\ p \in Proc /\ ~ Held(r, p) /\ state[p] = "CALLED"
    BY <1>1, <1>2, <1>5, <1>6, <1>7, ListClosed DEF StateOf
  <1>9. PICK u : u = [state EXCEPT ![p] = "RUNNING"] OBVIOUS
  <1>10. u[p] = "RUNNING" /\ (\A x : x # p => u[x] = state[x]) /\ u \in [Proc -> States]
    BY <1>2, <1>8, <1>9 DEF Types, States
  <1>11. Sound(r, u, Listing) BY <1>5, <1>8, <1>10, SoundState
  <1>12. Reaching(r, u, next) BY <1>5, <1>8, <1>10, ReachingState
  <1>13. Listed(r, u, Listing)
    <2>1. ASSUME NEW x \in Proc, u[x] # "NONE" PROVE x \in Listing
      BY <1>2, <1>8, <1>10, <2>1 DEF OK, Listed
    <2>2. ASSUME NEW x \in Listing, u[x] = "NONE" PROVE Held(r, x)
      <3>1. x # p /\ state[x] = "NONE" BY <1>10, <2>2
      <3>2. Held(stack, x) BY <1>2, <3>1 DEF OK, Listed
      <3> QED BY <1>5, <1>7, <3>1, <3>2
    <2> QED BY <2>1, <2>2 DEF Listed
  <1>14. Tops(r, process_current, next, Listing)
    <2> SUFFICES ASSUME r # <<>>
                 PROVE  /\ r[1].f # "thread"
                        /\ r[1].f = "do_poll" =>
                             r[1].at = "advance" /\ next[r[1].q] \in Listing \cup {NULL}
      BY DEF Tops
    <2>1. Under(w, r[1]) BY <1>5 DEF Fits
    <2>2. r[1].f \in {"post_synch", "do_poll", "do_event", "exit_process"}
      BY <1>1, <1>5, <1>6, <2>1 DEF Under
    <2>3. r[1].f = "do_poll" => p = r[1].q /\ r[1].at = "advance"
      BY <1>7, <2>1 DEF Under
    <2>4. next[p] \in Listing \cup {NULL} BY <1>2, <1>8, ListClosed
    <2> QED BY <2>2, <2>3, <2>4
  <1>15. stack' = r /\ state' = u BY <1>1, <1>4, <1>5, <1>7, <1>9 DEF Rest
  <1>16. OK(r, u, next, Listing) BY <1>11, <1>12, <1>13 DEF OK
  <1>17. Good' BY <1>1, <1>14, <1>15, <1>16, SameList DEF listVars
  <1>18. \A x : Polled(stack, next, x) => Polled(r, next, x)
    BY <1>1, <1>5 DEF Polls
  <1>19. \A x \in owed' : state[x] # "NONE" => state'[x] # "NONE"
    BY <1>10, <1>15
  <1>20. Polling' BY <1>1, <1>15, <1>18, <1>19, SamePolls DEF listVars, pollVars
  <1> QED BY <1>10, <1>15, <1>17, <1>20

LEMMA EndOK ==
  ASSUME IInv, thread_end
  PROVE  Good' /\ Polling' /\ state' \in [Proc -> States] /\ owed' \subseteq owed
  <1>1. /\ stack # <<>> /\ Top.f = "thread" /\ ~ Top.direct
        /\ exit_process(Top.p, Top.p, Rest)
        /\ UNCHANGED <<listVars, process_current, needspoll, poll_requested>>
    BY DEF thread_end, In
  <1>2. Types /\ OK(stack, state, next, Listing)
        /\ Tops(stack, process_current, next, Listing)
    BY DEF IInv, Good
  <1>3. PICK w : w = stack[1] OBVIOUS
  <1>4. PICK r : r = Tail(stack) OBVIOUS
  <1>5. /\ Top = w /\ w \in Frame /\ r \in Seq(Frame)
        /\ Sound(r, state, Listing) /\ Reaching(r, state, next) /\ Fits(w, r)
        /\ Owns(w) => ~ Held(r, w.p) /\ w.p \in Listing /\ state[w.p] = StateOf(w)
        /\ \A p : Held(stack, p) <=> (Owns(w) /\ w.p = p) \/ Held(r, p)
        /\ \A p : Polled(stack, next, p) <=> Polls(w, next, p) \/ Polled(r, next, p)
    BY <1>1, <1>2, <1>3, <1>4, TopFrame DEF Top
  <1>6. Owns(w) /\ ~ Direct(w) BY <1>1, <1>5 DEF Owns, Direct
  <1>7. PICK p : p = w.p OBVIOUS
  <1>8. p \in Listing /\ p \in Proc /\ ~ Held(r, p) /\ state[p] = "CALLED"
    BY <1>1, <1>2, <1>5, <1>6, <1>7, ListClosed DEF StateOf
  <1>9. exit_process(p, p, r) BY <1>1, <1>4, <1>5, <1>7 DEF Rest
  <1>10. \A x \in Proc : state[x] # "NONE" => x \in Listing
    BY <1>2 DEF OK, Listed
  <1>11. ASSUME NEW x \in Listing, state[x] = "NONE" PROVE Held(r, x)
    <2>1. Held(stack, x) /\ x # p BY <1>2, <1>8, <1>11 DEF OK, Listed
    <2> QED BY <1>5, <1>7, <2>1
  <1>12. r # <<>> => /\ r[1].f = "thread" => process_current = r[1].p
                     /\ r[1].f = "do_poll" => r[1].q = p /\ r[1].at = "advance"
    <2> SUFFICES ASSUME r # <<>>
                 PROVE  /\ r[1].f # "thread"
                        /\ r[1].f = "do_poll" => r[1].q = p /\ r[1].at = "advance"
      OBVIOUS
    <2>1. Under(w, r[1]) BY <1>5 DEF Fits
    <2> QED BY <1>1, <1>5, <1>6, <1>7, <2>1 DEF Under
  <1>13. /\ OK(stack', state', next, Listing)
         /\ \A pc : Tops(stack', pc, next, Listing)
         /\ \A x : Polled(r, next, x) => Polled(stack', next, x)
         /\ state' = [state EXCEPT ![p] = "NONE"] /\ owed' = owed \ {p}
    BY <1>2, <1>5, <1>8, <1>9, <1>10, <1>11, <1>12, ExitStep
  <1>14. Good' BY <1>1, <1>13, SameList DEF listVars
  <1>15. \A x \in owed' : state[x] # "NONE" => state'[x] # "NONE"
    BY <1>2, <1>13 DEF Types
  <1>16. \A x : Polled(stack, next, x) => Polled(r, next, x)
    BY <1>1, <1>5 DEF Polls
  <1>17. Polling' BY <1>1, <1>13, <1>15, <1>16, SamePolls DEF listVars
  <1>18. state' \in [Proc -> States] BY <1>2, <1>13 DEF Types, States
  <1> QED BY <1>13, <1>14, <1>17, <1>18

LEMMA ReturnOK ==
  ASSUME IInv, thread_exited \/ synch_return
  PROVE  Good' /\ Polling' /\ process_current' \in Pointer
  <1>1. /\ stack # <<>> /\ stack' = Rest /\ UNCHANGED <<listVars, state, pollVars>>
        /\ \/ /\ Top.f = "thread" /\ Top.direct
              /\ process_current' = process_current
           \/ Top.f = "post_synch" /\ process_current' = Top.caller
    BY DEF thread_exited, synch_return, In
  <1>2. Types /\ OK(stack, state, next, Listing) BY DEF IInv, Good
  <1>3. PICK w : w = stack[1] OBVIOUS
  <1>4. PICK r : r = Tail(stack) OBVIOUS
  <1>5. /\ Top = w /\ w \in Frame /\ Fits(w, r)
        /\ \A p : Polled(stack, next, p) <=> Polls(w, next, p) \/ Polled(r, next, p)
    BY <1>1, <1>2, <1>3, <1>4, TopFrame DEF Top
  <1>6. ~ Owns(w) BY <1>1, <1>5 DEF Owns
  <1>7. OK(r, state, next, Listing) BY <1>1, <1>2, <1>3, <1>4, <1>6, Left
  <1>8. Tops(r, process_current', next, Listing)
    <2> SUFFICES ASSUME r # <<>>
                 PROVE  /\ r[1].f = "thread" => process_current' = r[1].p
                        /\ r[1].f # "do_poll"
      BY DEF Tops
    <2>1. Under(w, r[1]) BY <1>5 DEF Fits
    <2>2. CASE w.f = "thread" /\ w.direct
      BY <2>1, <2>2 DEF Under, Direct
    <2>3. CASE w.f = "post_synch" /\ process_current' = w.caller
      BY <2>1, <2>3 DEF Under, Returns
    <2> QED BY <1>1, <1>5, <2>2, <2>3
  <1>9. stack' = r BY <1>1, <1>4 DEF Rest
  <1>10. Good' BY <1>1, <1>7, <1>8, <1>9, SameList DEF listVars
  <1>11. \A x : Polled(stack, next, x) => Polled(r, next, x)
    BY <1>1, <1>5 DEF Polls
  <1>12. Polling' BY <1>1, <1>9, <1>11, SamePolls DEF listVars, pollVars
  <1>13. w.f = "post_synch" => w.caller \in Pointer
    BY <1>5, FrameKinds DEF SynchFrame
  <1>14. process_current' \in Pointer BY <1>1, <1>2, <1>5, <1>13 DEF Types
  <1> QED BY <1>10, <1>12, <1>14

------------------------------------------------------------------------------
(* The walk of exit_process(). *)
LEMMA GoneOK ==
  ASSUME NEW s, NEW st, NEW nx, NEW l, OK(s, st, nx, l), s # <<>>,
         s[1].f = "exit_process", NEW v, v = Unlink(s[1].p, s[1].old)
  PROVE  /\ OK(<<v>> \o Tail(s), st, nx, l)
         /\ <<v>> \o Tail(s) # <<>> /\ (<<v>> \o Tail(s))[1] = v
         /\ v.f = "unlink" /\ v.p = s[1].p
         /\ \A p : Polled(s, nx, p) => Polled(<<v>> \o Tail(s), nx, p)
  <1>1. PICK w : w = s[1] OBVIOUS
  <1>2. PICK r : r = Tail(s) OBVIOUS
  <1>3. /\ w \in Frame /\ r \in Seq(Frame)
        /\ Sound(r, st, l) /\ Reaching(r, st, nx) /\ Fits(w, r)
        /\ Owns(w) => ~ Held(r, w.p) /\ w.p \in l /\ st[w.p] = StateOf(w)
        /\ \A p : Held(s, p) <=> (Owns(w) /\ w.p = p) \/ Held(r, p)
        /\ \A p : Polled(s, nx, p) <=> Polls(w, nx, p) \/ Polled(r, nx, p)
    BY <1>1, <1>2, TopFrame
  <1>4. w \in ExitFrame BY <1>1, <1>3, FrameKinds
  <1>5. v \in UnlinkFrame /\ v.f = "unlink" /\ v.p = w.p /\ v.old = w.old
    BY <1>1, <1>4 DEF Unlink, UnlinkFrame, ExitFrame
  <1>6. v \in Frame BY <1>5 DEF Frame
  <1>7. Owns(v) /\ Owns(w) /\ StateOf(v) = StateOf(w) /\ Returns(v) = Returns(w)
        /\ ~ Direct(v)
    BY <1>1, <1>5 DEF Owns, StateOf, Returns, Direct
  <1>8. Fits(v, r) BY <1>1, <1>3, <1>5, <1>7 DEF Fits, Under
  <1>9. Sound(<<v>> \o r, st, l) BY <1>3, <1>5, <1>6, <1>7, <1>8, SoundPush
  <1>10. Covers(v, st, nx) BY <1>5 DEF Covers, Walk
  <1>11. Reaching(<<v>> \o r, st, nx) BY <1>3, <1>6, <1>10, ReachingPush
  <1>12. \A p : Held(s, p) => Held(<<v>> \o r, p)
    BY <1>3, <1>5, <1>6, <1>7, HeldPush
  <1>13. Listed(<<v>> \o r, st, l) BY <1>12 DEF OK, Listed
  <1>14. \A p : Polled(s, nx, p) => Polled(<<v>> \o r, nx, p)
    BY <1>1, <1>3, <1>6, PolledPush DEF Polls
  <1>15. <<v>> \o r # <<>> /\ (<<v>> \o r)[1] = v BY <1>3, <1>6, SeqPush
  <1> QED BY <1>1, <1>2, <1>5, <1>9, <1>11, <1>13, <1>14, <1>15 DEF OK

LEMMA ExitVisitOK ==
  ASSUME IInv, exit_visit
  PROVE  /\ Good' /\ Polling' /\ state' \in [Proc -> States]
         /\ process_current' \in Pointer
  <1>1. stack # <<>> /\ Top.f = "exit_process" /\ Top.at = "visit"
        /\ UNCHANGED <<listVars, pollVars>>
    BY DEF exit_visit, At, In
  <1>2. Types /\ OK(stack, state, next, Listing) BY DEF IInv, Good
  <1>3. PICK w : w = stack[1] OBVIOUS
  <1>4. PICK r : r = Tail(stack) OBVIOUS
  <1>5. /\ Top = w /\ w \in Frame /\ Covers(w, state, next)
        /\ \A p : Polled(stack, next, p) <=> Polls(w, next, p) \/ Polled(r, next, p)
    BY <1>1, <1>2, <1>3, <1>4, TopFrame DEF Top
  <1>6. w \in ExitFrame /\ w.p \in Proc /\ w.q \in Pointer
    BY <1>1, <1>5, FrameKinds DEF ExitFrame
  <1>7. Rest = r BY <1>4 DEF Rest
  <1>8. PICK g : g = Unlink(w.p, w.old) OBVIOUS
  <1>9. PICK v : v = [w EXCEPT !.at = "advance", !.due = @ \ {w.q}] OBVIOUS
  <1>10. \/ w.q = NULL /\ w.p = w.from /\ stack' = <<g>> \o r
            /\ UNCHANGED <<state, process_current>>
         \/ w.q = NULL /\ stack' = <<Thread(w.p, "EXIT", TRUE)>> \o (<<g>> \o r)
            /\ process_current' = w.p /\ UNCHANGED state
         \/ w.q # NULL /\ w.q = w.p /\ stack' = <<v>> \o r
            /\ UNCHANGED <<state, process_current>>
         \/ w.q # NULL /\ call_process(w.q, "EXITED", <<v>> \o r, state)
    BY <1>5, <1>7, <1>8, <1>9 DEF exit_visit, Replaced
  <1>11. /\ OK(<<g>> \o r, state, next, Listing)
         /\ <<g>> \o r # <<>> /\ (<<g>> \o r)[1] = g
         /\ g.f = "unlink" /\ g.p = w.p
         /\ \A p : Polled(stack, next, p) => Polled(<<g>> \o r, next, p)
    BY <1>1, <1>2, <1>3, <1>4, <1>5, <1>8, GoneOK
  <1>12. CASE stack' = <<g>> \o r /\ UNCHANGED <<state, process_current>>
    <2>1. Tops(<<g>> \o r, process_current, next, Listing) BY <1>11 DEF Tops
    <2>2. Good' BY <1>1, <1>11, <1>12, <2>1, SameList DEF listVars
    <2>3. Polling' BY <1>1, <1>11, <1>12, SamePolls DEF listVars, pollVars
    <2> QED BY <1>2, <1>12, <2>2, <2>3 DEF Types
  <1>13. CASE /\ stack' = <<Thread(w.p, "EXIT", TRUE)>> \o (<<g>> \o r)
              /\ process_current' = w.p /\ UNCHANGED state
    <2>1. PICK s : s = <<g>> \o r OBVIOUS
    <2>2. PICK t : t = Thread(w.p, "EXIT", TRUE) OBVIOUS
    <2>3. t \in ThreadFrame /\ t.f = "thread" /\ t.p = w.p /\ t.direct = TRUE
          /\ t.ev = "EXIT"
      BY <1>6, <2>2 DEF Thread, ThreadFrame, Event
    <2>4. t \in Frame BY <2>3 DEF Frame
    <2>5. ~ Owns(t) /\ Direct(t) BY <2>3 DEF Owns, Direct
    <2>6. Fits(t, s) BY <1>11, <2>1, <2>3, <2>5 DEF Fits, Under
    <2>7. Covers(t, state, next) BY <2>3 DEF Covers, Walk
    <2>8. /\ OK(<<t>> \o s, state, next, Listing)
          /\ <<t>> \o s # <<>> /\ (<<t>> \o s)[1] = t
          /\ \A p : Polled(s, next, p) => Polled(<<t>> \o s, next, p)
      BY <1>11, <2>1, <2>4, <2>5, <2>6, <2>7, Entered
    <2>9. Tops(<<t>> \o s, w.p, next, Listing) BY <2>3, <2>8 DEF Tops
    <2>10. stack' = <<t>> \o s /\ process_current' = w.p BY <1>13, <2>1, <2>2
    <2>11. Good' BY <1>1, <1>13, <2>8, <2>9, <2>10, SameList DEF listVars
    <2>12. Polling'
      BY <1>1, <1>11, <1>13, <2>1, <2>8, <2>10, SamePolls DEF listVars, pollVars
    <2> QED BY <1>2, <1>6, <1>13, <2>11, <2>12 DEF Types, Pointer
  <1>14. ASSUME w.q # NULL
         PROVE  /\ OK(<<v>> \o r, state, next, Listing)
                /\ <<v>> \o r # <<>> /\ (<<v>> \o r)[1] = v /\ v.f = "exit_process"
                /\ \A p : Polled(stack, next, p) => Polled(<<v>> \o r, next, p)
    <2>1. w.q \in Proc BY <1>6, <1>14 DEF Pointer
    <2>2. /\ v \in Frame /\ Alike(v, w) /\ v.f = "exit_process" /\ v.q = w.q
          /\ v.at = "advance" /\ v.due = w.due \ {w.q}
      BY <1>1, <1>5, <1>9, <2>1, ExitTold
    <2>3. next \in [Proc -> Pointer] /\ Walk(w) BY <1>1, <1>2, <1>5 DEF Types, Walk
    <2>4. Covers(v, state, next) BY <1>1, <1>5, <2>1, <2>2, <2>3, CoverVisited
    <2>5. /\ OK(<<v>> \o r, state, next, Listing)
          /\ <<v>> \o r # <<>> /\ (<<v>> \o r)[1] = v
          /\ \A p : Polled(<<v>> \o r, next, p) <=>
                      Polls(v, next, p) \/ Polled(r, next, p)
      BY <1>1, <1>2, <1>3, <1>4, <2>2, <2>4, GoesOn
    <2> QED BY <1>1, <1>5, <2>2, <2>5 DEF Polls
  <1>15. CASE w.q # NULL /\ stack' = <<v>> \o r /\ UNCHANGED <<state, process_current>>
    <2>1. Tops(<<v>> \o r, process_current, next, Listing) BY <1>14, <1>15 DEF Tops
    <2>2. Good' BY <1>1, <1>14, <1>15, <2>1, SameList DEF listVars
    <2>3. Polling' BY <1>1, <1>14, <1>15, SamePolls DEF listVars, pollVars
    <2> QED BY <1>2, <1>15, <2>2, <2>3 DEF Types
  <1>16. CASE w.q # NULL /\ call_process(w.q, "EXITED", <<v>> \o r, state)
    <2>1. PICK s : s = <<v>> \o r OBVIOUS
    <2>2. PICK q : q = w.q OBVIOUS
    <2>3. q \in Proc BY <1>6, <1>16, <2>2 DEF Pointer
    <2>4. /\ OK(s, state, next, Listing) /\ s # <<>> /\ s[1].f = "exit_process"
          /\ \A p : Polled(stack, next, p) => Polled(s, next, p)
      BY <1>14, <1>16, <2>1
    <2>5. Takes(s, q) /\ Tops(s, process_current, next, Listing)
      BY <2>4 DEF Takes, Tops
    <2>6. "EXITED" \in Event BY DEF Event
    <2>7. call_process(q, "EXITED", s, state) BY <1>16, <2>1, <2>2
    <2>8. process_current \in Pointer /\ state \in [Proc -> States]
          /\ owed \subseteq Proc
      BY <1>2 DEF Types
    <2>9. /\ OK(stack', state', next, Listing)
          /\ Tops(stack', process_current', next, Listing)
          /\ \A x : Polled(s, next, x) => Polled(stack', next, x)
          /\ state' \in [Proc -> States] /\ process_current' \in Pointer
          /\ \A x \in Proc : state'[x] = "NONE" <=> state[x] = "NONE"
      BY <2>3, <2>4, <2>5, <2>6, <2>7, <2>8, CallStep
    <2>10. Good' BY <1>1, <2>9, SameList DEF listVars
    <2>11. Polling' BY <1>1, <2>4, <2>8, <2>9, SamePolls DEF listVars, pollVars
    <2> QED BY <2>9, <2>10, <2>11
  <1> QED BY <1>10, <1>12, <1>13, <1>15, <1>16

(* The cursors of the two walks move on. *)
LEMMA WalkMovesOK ==
  ASSUME IInv, exit_advance \/ event_advance PROVE Good' /\ Polling'
  <1>1. /\ stack # <<>> /\ Top.at = "advance"
        /\ UNCHANGED <<listVars, state, pollVars, process_current>>
        /\ \/ /\ Top.f = "exit_process"
              /\ stack' = Replaced([Top EXCEPT !.q = next[@], !.at = "visit"])
           \/ /\ Top.f = "do_event"
              /\ stack' = Replaced([Top EXCEPT !.q = next[@], !.at = "poll"])
    BY DEF exit_advance, event_advance, At, In
  <1>2. Types /\ OK(stack, state, next, Listing) BY DEF IInv, Good
  <1>3. PICK w : w = stack[1] OBVIOUS
  <1>4. PICK r : r = Tail(stack) OBVIOUS
  <1>5. /\ Top = w /\ w \in Frame /\ Covers(w, state, next)
        /\ \A p : Polled(stack, next, p) <=> Polls(w, next, p) \/ Polled(r, next, p)
    BY <1>1, <1>2, <1>3, <1>4, TopFrame DEF Top
  <1>6. Walk(w) BY <1>1, <1>5 DEF Walk
  <1>7. PICK q : q = next[w.q] OBVIOUS
  <1>8. q \in Pointer
    <2>1. w.q \in Proc BY <1>1, <1>5, <1>6, WalkTyped
    <2> QED BY <1>2, <1>7, <2>1 DEF Types
  <1>9. PICK v : /\ stack' = <<v>> \o r /\ v \in Frame /\ Alike(v, w)
                 /\ v.f = w.f /\ v.q = q /\ v.at # "advance" /\ v.due = w.due
    <2>1. CASE w.f = "exit_process"
      <3>1. PICK v : v = Moved(w, q, "visit") OBVIOUS
      <3>2. /\ v \in Frame /\ Alike(v, w) /\ v.f = "exit_process" /\ v.q = q
            /\ v.at = "visit" /\ v.due = w.due
        BY <1>5, <1>8, <2>1, <3>1, ExitMoves
      <3>3. stack' = <<v>> \o r
        BY <1>1, <1>4, <1>5, <1>7, <2>1, <3>1 DEF Replaced, Rest, Moved
      <3> QED BY <2>1, <3>2, <3>3
    <2>2. CASE w.f = "do_event"
      <3>1. PICK v : v = Moved(w, q, "poll") OBVIOUS
      <3>2. /\ v \in Frame /\ Alike(v, w) /\ v.f = "do_event" /\ v.q = q
            /\ v.at = "poll" /\ v.due = w.due
        BY <1>5, <1>8, <2>2, <3>1, EventMoves
      <3>3. stack' = <<v>> \o r
        BY <1>1, <1>4, <1>5, <1>7, <2>2, <3>1 DEF Replaced, Rest, Moved
      <3> QED BY <2>2, <3>2, <3>3
    <2> QED BY <1>1, <1>5, <2>1, <2>2
  <1>10. Covers(v, state, next)
    BY <1>1, <1>5, <1>6, <1>7, <1>9, CoverMoved
  <1>11. /\ OK(<<v>> \o r, state, next, Listing)
         /\ <<v>> \o r # <<>> /\ (<<v>> \o r)[1] = v
         /\ \A p : Polled(<<v>> \o r, next, p) <=>
                     Polls(v, next, p) \/ Polled(r, next, p)
    BY <1>1, <1>2, <1>3, <1>4, <1>9, <1>10, GoesOn
  <1>12. Tops(<<v>> \o r, process_current, next, Listing)
    BY <1>6, <1>9, <1>11 DEF Tops, Walk
  <1>13. Good' BY <1>1, <1>9, <1>11, <1>12, SameList DEF listVars
  <1>14. \A x : Polled(stack, next, x) => Polled(<<v>> \o r, next, x)
    BY <1>5, <1>6, <1>11 DEF Polls, Walk
  <1>15. Polling' BY <1>1, <1>9, <1>14, SamePolls DEF listVars, pollVars
  <1> QED BY <1>13, <1>15

(* The process leaves the list. *)
LEMMA UnlinkOK ==
  ASSUME IInv, exit_unlink
  PROVE  /\ Good' /\ Polling' /\ process_current' \in Pointer
         /\ process_list' \in Pointer /\ next' \in [Proc -> Pointer]
  <1>1. /\ stack # <<>> /\ Top.f = "unlink" /\ stack' = Rest
        /\ process_current' = Top.old /\ UNCHANGED <<state, pollVars>>
    BY DEF exit_unlink, In
  <1>2. Types /\ OK(stack, state, next, Listing) /\ NoCycle(next, process_list)
    BY DEF IInv, Good
  <1>3. PICK w : w = stack[1] OBVIOUS
  <1>4. PICK r : r = Tail(stack) OBVIOUS
  <1>5. /\ Top = w /\ w \in Frame /\ r \in Seq(Frame)
        /\ Sound(r, state, Listing) /\ Reaching(r, state, next) /\ Fits(w, r)
        /\ Owns(w) => ~ Held(r, w.p) /\ w.p \in Listing /\ state[w.p] = StateOf(w)
        /\ \A p : Held(stack, p) <=> (Owns(w) /\ w.p = p) \/ Held(r, p)
        /\ \A p : Polled(stack, next, p) <=> Polls(w, next, p) \/ Polled(r, next, p)
    BY <1>1, <1>2, <1>3, <1>4, TopFrame DEF Top
  <1>6. Owns(w) /\ w \in UnlinkFrame /\ w.old \in Pointer
    BY <1>1, <1>5, FrameKinds DEF Owns, UnlinkFrame
  <1>7. PICK p : p = w.p OBVIOUS
  <1>8. p \in Listing /\ p \in Proc /\ ~ Held(r, p) /\ state[p] = "NONE"
    BY <1>1, <1>2, <1>5, <1>6, <1>7, ListClosed DEF StateOf
  <1>9. next \in [Proc -> Pointer] /\ process_list \in Pointer /\ owed \subseteq Proc
    BY <1>2 DEF Types
  <1>10. p \notin After(next, p) BY <1>2, <1>8 DEF NoCycle, Listing
  <1>11. next[p] \in (Listing \ {p}) \cup {NULL}
    <2>1. next[p] # p BY <1>8, <1>10, ReachSelf DEF After
    <2> QED BY <1>2, <1>8, <2>1, ListClosed
  <1>12. PICK mx : mx = next' OBVIOUS
  <1>13. /\ mx \in [Proc -> Pointer] /\ process_list' \in Pointer
         /\ Reach(mx, process_list') = Listing \ {p} /\ NoCycle(mx, process_list')
         /\ Reaching(r, state, mx) /\ mx[p] = next[p]
         /\ \A x : Polled(r, next, x) /\ x # p => Polled(r, mx, x)
    <2>1. CASE p = process_list
      <3>1. process_list' = next[p] /\ mx = next
        BY <1>5, <1>7, <1>12, <2>1 DEF exit_unlink
      <3>2. Reach(next, p) = {p} \cup Reach(next, next[p])
        BY <1>8, <1>9, ReachSplit DEF After
      <3>3. Listing = {p} \cup Reach(next, next[p]) BY <2>1, <3>2 DEF Listing
      <3>4. Reach(next, next[p]) = Listing \ {p} BY <1>10, <3>3 DEF After
      <3>5. NoCycle(next, next[p]) BY <1>2, <3>4 DEF NoCycle, Listing
      <3> QED BY <1>5, <1>8, <1>9, <3>1, <3>4, <3>5
    <2>2. CASE p # process_list
      <3>1. process_list' = process_list
            /\ mx = [x \in Proc |-> IF x \in {y \in From(process_list) : next[y] = p}
                                    THEN next[p] ELSE next[x]]
        BY <1>5, <1>7, <1>12, <2>2 DEF exit_unlink
      <3>2. mx = Unlinked(next, process_list, p)
        BY <3>1, FromReach DEF Unlinked
      <3>3. p \in Reach(next, process_list) BY <1>8 DEF Listing
      <3>4. Unlinked(next, process_list, p) \in [Proc -> Pointer]
        BY <1>8, <1>9, UnlinkedTyped
      <3>5. Reach(Unlinked(next, process_list, p), process_list)
              = Reach(next, process_list) \ {p}
        BY <1>2, <1>8, <1>9, <2>2, <3>3, UnlinkReach
      <3>6. NoCycle(Unlinked(next, process_list, p), process_list)
        BY <1>2, <1>8, <1>9, <2>2, <3>3, UnlinkCycle
      <3>7. /\ Reaching(r, state, Unlinked(next, process_list, p))
            /\ \A x : Polled(r, next, x) /\ x # p =>
                        Polled(r, Unlinked(next, process_list, p), x)
        BY <1>5, <1>8, <1>9, <1>10, UnlinkWalks
      <3>8. mx[p] = next[p] BY <1>8, <3>1
      <3> QED BY <1>9, <3>1, <3>2, <3>4, <3>5, <3>6, <3>7, <3>8 DEF Listing
    <2> QED BY <2>1, <2>2
  <1>14. Listing' = Listing \ {p} BY <1>12, <1>13 DEF Listing
  <1>15. PICK m : m = Listing \ {p} OBVIOUS
  <1>16. Sound(r, state, m) BY <1>5, <1>8, <1>15, SoundState
  <1>17. Listed(r, state, m)
    <2>1. ASSUME NEW x \in Proc, state[x] # "NONE" PROVE x \in m
      BY <1>2, <1>8, <1>15, <2>1 DEF OK, Listed
    <2>2. ASSUME NEW x \in m, state[x] = "NONE" PROVE Held(r, x)
      <3>1. Held(stack, x) /\ x # p BY <1>2, <1>15, <2>2 DEF OK, Listed
      <3> QED BY <1>5, <1>7, <3>1
    <2> QED BY <2>1, <2>2 DEF Listed
  <1>18. Tops(r, w.old, mx, m)
    <2> SUFFICES ASSUME r # <<>>
                 PROVE  /\ r[1].f = "thread" => w.old = r[1].p
                        /\ r[1].f = "do_poll" =>
                             r[1].at = "advance" /\ mx[r[1].q] \in m \cup {NULL}
      BY DEF Tops
    <2>1. Under(w, r[1]) BY <1>5 DEF Fits
    <2>2. r[1].f = "thread" => w.old = r[1].p
      BY <1>1, <1>5, <2>1 DEF Under, Returns
    <2>3. r[1].f = "do_poll" => p = r[1].q /\ r[1].at = "advance"
      BY <1>7, <2>1 DEF Under
    <2> QED BY <1>11, <1>13, <1>15, <2>2, <2>3
  <1>19. OK(r, state, mx, m) BY <1>13, <1>16, <1>17 DEF OK
  <1>20. stack' = r /\ state' = state /\ next' = mx /\ process_current' = w.old
         /\ Listing' = m
    BY <1>1, <1>4, <1>5, <1>12, <1>14, <1>15 DEF Rest
  <1>21. Good'
    <2>1. OK(stack', state', next', Listing') BY <1>19, <1>20
    <2>2. NoCycle(next', process_list') BY <1>13, <1>20
    <2>3. Tops(stack', process_current', next', Listing') BY <1>18, <1>20
    <2> QED BY <2>1, <2>2, <2>3 DEF Good
  <1>22. Polling'
    <2> SUFFICES ASSUME NEW x \in owed
                 PROVE  /\ needspoll[x] /\ state[x] # "NONE"
                        /\ poll_requested \/ Polled(r, mx, x)
      BY <1>1, <1>20 DEF Polling, pollVars
    <2>1. needspoll[x] /\ state[x] # "NONE" /\ (poll_requested \/ Polled(stack, next, x))
      BY DEF IInv, Polling
    <2>2. x # p BY <1>8, <2>1
    <2>3. Polled(stack, next, x) => Polled(r, next, x) BY <1>1, <1>5 DEF Polls
    <2> QED BY <1>13, <2>1, <2>2, <2>3
  <1> QED BY <1>6, <1>12, <1>13, <1>20, <1>21, <1>22

------------------------------------------------------------------------------
(* do_poll(): under it is at most the walk of do_event(). *)
LEMMA NothingHeld ==
  ASSUME NEW s, NEW st, NEW l, Sound(s, st, l), s # <<>> => s[1].f = "do_event",
         NEW p
  PROVE  ~ Held(s, p)
  <1> SUFFICES ASSUME Held(s, p) PROVE FALSE OBVIOUS
  <1>1. s \in Seq(Frame) BY DEF Sound
  <1>2. PICK i \in 1..Len(s) : Owns(s[i]) BY DEF Held
  <1>3. s # <<>> /\ s[1].f = "do_event" BY <1>1, <1>2
  <1>4. i # 1 BY <1>2, <1>3 DEF Owns
  <1>5. 1 \in 1..Len(s) /\ 2 \in 1..Len(s) BY <1>1, <1>2, <1>4
  <1>6. Under(s[1], s[2]) BY <1>5 DEF Sound, Nested
  <1> QED BY <1>3, <1>6 DEF Under

LEMMA PollVisitOK ==
  ASSUME IInv, poll_visit
  PROVE  /\ Good' /\ Polling' /\ state' \in [Proc -> States]
         /\ process_current' \in Pointer /\ needspoll' \in [Proc -> BOOLEAN]
         /\ owed' \subseteq owed
  <1>1. /\ stack # <<>> /\ Top.f = "do_poll" /\ Top.at = "visit"
        /\ UNCHANGED <<listVars, poll_requested>>
    BY DEF poll_visit, At, In
  <1>2. Types /\ OK(stack, state, next, Listing)
        /\ Tops(stack, process_current, next, Listing) /\ Polling
    BY DEF IInv, Good
  <1>3. PICK w : w = stack[1] OBVIOUS
  <1>4. PICK r : r = Tail(stack) OBVIOUS
  <1>5. /\ Top = w /\ w \in Frame /\ Sound(r, state, Listing) /\ Fits(w, r)
        /\ r \in Seq(Frame)
        /\ \A p : Held(stack, p) <=> (Owns(w) /\ w.p = p) \/ Held(r, p)
        /\ \A p : Polled(stack, next, p) <=> Polls(w, next, p) \/ Polled(r, next, p)
    BY <1>1, <1>2, <1>3, <1>4, TopFrame DEF Top
  <1>6. PICK q : q = w.q OBVIOUS
  <1>7. q \in Listing \cup {NULL} BY <1>1, <1>2, <1>3, <1>5, <1>6 DEF Tops
  <1>8. PICK v : v = [w EXCEPT !.at = "advance"] OBVIOUS
  <1>9. ~ Owns(w) BY <1>1, <1>5 DEF Owns
  <1>10. r # <<>> => r[1].f = "do_event" BY <1>1, <1>5 DEF Fits, Under
  <1>11. /\ next \in [Proc -> Pointer] /\ state \in [Proc -> States]
         /\ needspoll \in [Proc -> BOOLEAN] /\ process_current \in Pointer
         /\ owed \subseteq Proc
    BY <1>2 DEF Types
  <1>12. CASE q = NULL
    <2>1. stack' = r /\ UNCHANGED <<state, process_current, needspoll, owed>>
      BY <1>4, <1>5, <1>6, <1>12 DEF poll_visit, Rest
    <2>2. OK(r, state, next, Listing) BY <1>1, <1>2, <1>3, <1>4, <1>9, Left
    <2>3. Tops(r, process_current, next, Listing) BY <1>10 DEF Tops
    <2>4. Good' BY <1>1, <2>1, <2>2, <2>3, SameList DEF listVars
    <2>5. \A x : ~ Polls(w, next, x)
      BY <1>1, <1>5, <1>6, <1>12, ReachNull DEF Polls, AheadOf
    <2>6. Polling' BY <1>1, <1>5, <2>1, <2>5, SamePolls DEF listVars
    <2> QED BY <1>11, <2>1, <2>4, <2>6
  <1>13. ASSUME q # NULL
         PROVE  /\ q \in Proc /\ q \in Listing
                /\ OK(<<v>> \o r, state, next, Listing)
                /\ <<v>> \o r # <<>> /\ (<<v>> \o r)[1] = v
                /\ v \in Frame /\ v.f = "do_poll" /\ v.q = q /\ v.at = "advance"
                /\ Tops(<<v>> \o r, process_current, next, Listing)
                /\ \A x : x # q /\ Polled(stack, next, x) =>
                            Polled(<<v>> \o r, next, x)
    <2>1. q \in Listing BY <1>7, <1>13
    <2>2. q \in Proc /\ next[q] \in Listing \cup {NULL} BY <1>2, <2>1, ListClosed
    <2>3. /\ v \in Frame /\ Alike(v, w) /\ v.f = "do_poll" /\ v.q = q
          /\ v.at = "advance"
      BY <1>1, <1>5, <1>6, <1>8, <2>2, PollSeen
    <2>4. Covers(v, state, next) BY <2>3 DEF Covers, Walk
    <2>5. /\ OK(<<v>> \o r, state, next, Listing)
          /\ <<v>> \o r # <<>> /\ (<<v>> \o r)[1] = v
          /\ \A p : Polled(<<v>> \o r, next, p) <=>
                      Polls(v, next, p) \/ Polled(r, next, p)
      BY <1>1, <1>2, <1>3, <1>4, <2>3, <2>4, GoesOn
    <2>6. Tops(<<v>> \o r, process_current, next, Listing)
      BY <2>2, <2>3, <2>5 DEF Tops
    <2>7. Reach(next, q) = {q} \cup After(next, q) BY <1>11, <2>2, ReachSplit
    <2>8. \A x : x # q /\ Polls(w, next, x) => Polls(v, next, x)
      BY <1>1, <1>5, <1>6, <2>3, <2>7 DEF Polls, AheadOf
    <2> QED BY <1>5, <2>1, <2>2, <2>3, <2>5, <2>6, <2>8
  <1>14. CASE q # NULL /\ ~ needspoll[q]
    <2>1. /\ stack' = <<v>> \o r
          /\ UNCHANGED <<state, process_current, needspoll, owed>>
      BY <1>4, <1>5, <1>6, <1>8, <1>14 DEF poll_visit, Rest, Replaced
    <2>2. Good' BY <1>1, <1>13, <1>14, <2>1, SameList DEF listVars
    <2>3. q \notin owed BY <1>2, <1>14 DEF Polling
    <2>4. \A x \in owed : Polled(stack, next, x) => Polled(<<v>> \o r, next, x)
      BY <1>13, <1>14, <2>3
    <2>5. Polling' BY <1>1, <2>1, <2>4, SamePolls DEF listVars
    <2> QED BY <1>11, <2>1, <2>2, <2>5
  <1>15. CASE q # NULL /\ needspoll[q]
    <2>1. PICK s : s = <<v>> \o r OBVIOUS
    <2>2. PICK u : u = [state EXCEPT ![q] = "RUNNING"] OBVIOUS
    <2>3. /\ needspoll' = [needspoll EXCEPT ![q] = FALSE] /\ owed' = owed \ {q}
          /\ call_process(q, "POLL", s, u)
      BY <1>4, <1>5, <1>6, <1>8, <1>15, <2>1, <2>2 DEF poll_visit, Rest, Replaced
    <2>4. /\ q \in Proc /\ q \in Listing /\ OK(s, state, next, Listing)
          /\ s # <<>> /\ s[1] = v
          /\ v \in Frame /\ v.f = "do_poll" /\ v.q = q /\ v.at = "advance"
          /\ Tops(s, process_current, next, Listing)
          /\ \A x : x # q /\ Polled(stack, next, x) => Polled(s, next, x)
      BY <1>13, <1>15, <2>1
    <2>5. ~ Held(r, q) BY <1>5, <1>10, NothingHeld
    <2>6. ~ Held(s, q)
      BY <1>5, <2>1, <2>4, <2>5, HeldPush DEF Owns
    <2>7. state[q] # "NONE" BY <2>4, <2>6 DEF OK, Listed
    <2>8. /\ u[q] = "RUNNING" /\ (\A x : x # q => u[x] = state[x])
          /\ u \in [Proc -> States]
      BY <1>11, <2>2, <2>4 DEF States
    <2>9. OK(s, u, next, Listing)
      <3>1. Sound(s, u, Listing) BY <2>4, <2>6, <2>8, SoundState DEF OK
      <3>2. s \in Seq(Frame) BY <2>4 DEF OK, Sound
      <3>3. Reaching(s, u, next) BY <2>4, <2>7, <2>8, <3>2, ReachingState DEF OK
      <3>4. Listed(s, u, Listing) BY <2>4, <2>8 DEF OK, Listed
      <3> QED BY <3>1, <3>3, <3>4 DEF OK
    <2>10. Takes(s, q) BY <2>4 DEF Takes
    <2>11. "POLL" \in Event BY DEF Event
    <2>12. /\ OK(stack', state', next, Listing)
           /\ Tops(stack', process_current', next, Listing)
           /\ \A x : Polled(s, next, x) => Polled(stack', next, x)
           /\ state' \in [Proc -> States] /\ process_current' \in Pointer
           /\ \A x \in Proc : state'[x] = "NONE" <=> u[x] = "NONE"
      BY <1>11, <2>3, <2>4, <2>8, <2>9, <2>10, <2>11, CallStep
    <2>13. Good' BY <1>1, <2>12, SameList DEF listVars
    <2>14. Polling'
      <3> SUFFICES ASSUME NEW x \in owed, x # q
                   PROVE  /\ needspoll'[x] /\ state'[x] # "NONE"
                          /\ poll_requested' \/ Polled(stack', next', x)
        BY <2>3 DEF Polling
      <3>1. needspoll[x] /\ state[x] # "NONE"
            /\ (poll_requested \/ Polled(stack, next, x)) /\ x \in Proc
        BY <1>2, <1>11 DEF Polling
      <3>2. needspoll'[x] BY <1>11, <2>3, <2>4, <3>1
      <3>3. state'[x] # "NONE" BY <2>8, <2>12, <3>1
      <3>4. next' = next /\ poll_requested' = poll_requested BY <1>1 DEF listVars
      <3> QED BY <2>4, <2>12, <3>1, <3>2, <3>3, <3>4
    <2>15. needspoll' \in [Proc -> BOOLEAN] BY <1>11, <2>3
    <2> QED BY <2>3, <2>12, <2>13, <2>14, <2>15
  <1> QED BY <1>12, <1>14, <1>15

LEMMA PollMovesOK ==
  ASSUME IInv, poll_advance PROVE Good' /\ Polling'
  <1>1. /\ stack # <<>> /\ Top.f = "do_poll" /\ Top.at = "advance"
        /\ UNCHANGED <<listVars, state, pollVars, process_current>>
        /\ stack' = Replaced([Top EXCEPT !.q = next[@], !.at = "visit"])
    BY DEF poll_advance, At, In
  <1>2. Types /\ OK(stack, state, next, Listing)
        /\ Tops(stack, process_current, next, Listing)
    BY DEF IInv, Good
  <1>3. PICK w : w = stack[1] OBVIOUS
  <1>4. PICK r : r = Tail(stack) OBVIOUS
  <1>5. /\ Top = w /\ w \in Frame
        /\ \A p : Polled(stack, next, p) <=> Polls(w, next, p) \/ Polled(r, next, p)
    BY <1>1, <1>2, <1>3, <1>4, TopFrame DEF Top
  <1>6. PICK q : q = next[w.q] OBVIOUS
  <1>7. q \in Listing \cup {NULL} /\ q \in Pointer
    <2>1. q \in Listing \cup {NULL} BY <1>1, <1>2, <1>3, <1>5, <1>6 DEF Tops
    <2> QED BY <1>2, <2>1, ListClosed DEF Pointer
  <1>8. PICK v : v = Moved(w, q, "visit") OBVIOUS
  <1>9. v \in Frame /\ Alike(v, w) /\ v.f = "do_poll" /\ v.q = q /\ v.at = "visit"
    BY <1>1, <1>5, <1>7, <1>8, PollMoves
  <1>10. stack' = <<v>> \o r
    BY <1>1, <1>4, <1>5, <1>6, <1>8 DEF Replaced, Rest, Moved
  <1>11. Covers(v, state, next) BY <1>9 DEF Covers, Walk
  <1>12. /\ OK(<<v>> \o r, state, next, Listing)
         /\ <<v>> \o r # <<>> /\ (<<v>> \o r)[1] = v
         /\ \A p : Polled(<<v>> \o r, next, p) <=>
                     Polls(v, next, p) \/ Polled(r, next, p)
    BY <1>1, <1>2, <1>3, <1>4, <1>9, <1>11, GoesOn
  <1>13. Tops(<<v>> \o r, process_current, next, Listing)
    BY <1>7, <1>9, <1>12 DEF Tops
  <1>14. Good' BY <1>1, <1>10, <1>12, <1>13, SameList DEF listVars
  <1>15. \A x : Polls(w, next, x) => Polls(v, next, x)
    BY <1>1, <1>5, <1>6, <1>9 DEF Polls, AheadOf, After
  <1>16. Polling'
    BY <1>1, <1>5, <1>10, <1>12, <1>15, SamePolls DEF listVars, pollVars
  <1> QED BY <1>14, <1>16

(* A new walk of do_poll() meets everybody who is owed a poll. *)
LEMMA PollBegins ==
  ASSUME IInv, NEW s, OK(s, state, next, Listing),
         s # <<>> => s[1].f = "do_event",
         stack' = <<PollWalk(process_list)>> \o s,
         UNCHANGED <<listVars, state, needspoll, owed, process_current>>
  PROVE  Good' /\ Polling'
  <1>1. Types /\ Polling BY DEF IInv
  <1>2. PICK v : v = PollWalk(process_list) OBVIOUS
  <1>3. v \in PollFrame /\ v.f = "do_poll" /\ v.q = process_list /\ v.at = "visit"
    BY <1>1, <1>2 DEF PollWalk, PollFrame, Types
  <1>4. v \in Frame BY <1>3 DEF Frame
  <1>5. ~ Owns(v) /\ ~ Direct(v) BY <1>3 DEF Owns, Direct
  <1>6. Fits(v, s) BY <1>3, <1>5 DEF Fits, Under
  <1>7. Covers(v, state, next) BY <1>3 DEF Covers, Walk
  <1>8. /\ OK(<<v>> \o s, state, next, Listing)
        /\ <<v>> \o s # <<>> /\ (<<v>> \o s)[1] = v
        /\ \A p : Polled(<<v>> \o s, next, p) <=>
                    Polls(v, next, p) \/ Polled(s, next, p)
    BY <1>4, <1>5, <1>6, <1>7, Entered
  <1>9. Tops(<<v>> \o s, process_current, next, Listing)
    BY <1>1, <1>3, <1>8, ListHead DEF Tops
  <1>10. Good' BY <1>2, <1>8, <1>9, SameList DEF listVars
  <1>11. ASSUME NEW x \in owed PROVE Polls(v, next, x)
    <2>1. x \in Proc /\ state[x] # "NONE" BY <1>1 DEF Types, Polling
    <2>2. x \in Listing BY <2>1 DEF OK, Listed
    <2> QED BY <1>3, <2>2 DEF Polls, AheadOf, Listing
  <1>12. Polling' BY <1>1, <1>2, <1>8, <1>11 DEF Polling, listVars
  <1> QED BY <1>10, <1>12

------------------------------------------------------------------------------
(* The walk of do_event(). *)
LEMMA EventPollOK ==
  ASSUME IInv, event_poll
  PROVE  Good' /\ Polling' /\ poll_requested' \in BOOLEAN
  <1>1. /\ stack # <<>> /\ Top.f = "do_event" /\ Top.at = "poll"
        /\ UNCHANGED <<listVars, state, needspoll, owed, process_current>>
    BY DEF event_poll, At, In
  <1>2. Types /\ OK(stack, state, next, Listing) BY DEF IInv, Good
  <1>3. PICK w : w = stack[1] OBVIOUS
  <1>4. PICK r : r = Tail(stack) OBVIOUS
  <1>5. /\ Top = w /\ w \in Frame /\ Fits(w, r) /\ Covers(w, state, next)
        /\ \A p : Polled(stack, next, p) <=> Polls(w, next, p) \/ Polled(r, next, p)
    BY <1>1, <1>2, <1>3, <1>4, TopFrame DEF Top
  <1>6. r = <<>> BY <1>1, <1>5 DEF Fits, Under
  <1>7. PICK v : v = [w EXCEPT !.at = "call"] OBVIOUS
  <1>8. poll_requested \in BOOLEAN BY <1>2 DEF Types
  <1>9. ~ Owns(w) /\ \A x : ~ Polls(w, next, x) BY <1>1, <1>5 DEF Owns, Polls
  <1>10. CASE w.q = NULL
    <2>1. stack' = r /\ poll_requested' = poll_requested
      BY <1>4, <1>5, <1>10 DEF event_poll, Rest
    <2>2. OK(r, state, next, Listing) BY <1>1, <1>2, <1>3, <1>4, <1>9, Left
    <2>3. Tops(r, process_current, next, Listing) BY <1>6 DEF Tops
    <2>4. Good' BY <1>1, <2>1, <2>2, <2>3, SameList DEF listVars
    <2>5. Polling' BY <1>1, <1>5, <1>9, <2>1, SamePolls DEF listVars
    <2> QED BY <1>8, <2>1, <2>4, <2>5
  <1>11. ASSUME w.q # NULL
         PROVE  /\ OK(<<v>> \o r, state, next, Listing) /\ v.f = "do_event"
                /\ <<v>> \o r # <<>> /\ (<<v>> \o r)[1] = v
                /\ \A x : Polled(stack, next, x) => Polled(<<v>> \o r, next, x)
    <2>1. w.q \in Proc
      BY <1>1, <1>5, <1>11, FrameKinds DEF EventFrame, Pointer
    <2>2. /\ v \in Frame /\ Alike(v, w) /\ v.f = "do_event" /\ v.q = w.q
          /\ v.at = "call" /\ v.due = w.due
      BY <1>1, <1>5, <1>7, <2>1, EventCalls
    <2>3. Covers(v, state, next)
      BY <1>1, <1>5, <2>2 DEF Covers, Walk, AheadOf
    <2>4. /\ OK(<<v>> \o r, state, next, Listing)
          /\ <<v>> \o r # <<>> /\ (<<v>> \o r)[1] = v
          /\ \A p : Polled(<<v>> \o r, next, p) <=>
                      Polls(v, next, p) \/ Polled(r, next, p)
      BY <1>1, <1>2, <1>3, <1>4, <2>2, <2>3, GoesOn
    <2> QED BY <1>5, <1>9, <2>2, <2>4
  <1>12. CASE w.q # NULL /\ poll_requested
    <2>1. PICK s : s = <<v>> \o r OBVIOUS
    <2>2. stack' = <<PollWalk(process_list)>> \o s /\ poll_requested' = FALSE
      BY <1>4, <1>5, <1>7, <1>12, <2>1 DEF event_poll, Rest, Replaced
    <2>3. OK(s, state, next, Listing) /\ s # <<>> /\ s[1].f = "do_event"
      BY <1>11, <1>12, <2>1
    <2> QED BY <1>1, <2>2, <2>3, PollBegins
  <1>13. CASE w.q # NULL /\ ~ poll_requested
    <2>1. stack' = <<v>> \o r /\ poll_requested' = poll_requested
      BY <1>4, <1>5, <1>7, <1>13 DEF event_poll, Rest, Replaced
    <2>2. Tops(<<v>> \o r, process_current, next, Listing)
      BY <1>11, <1>13 DEF Tops
    <2>3. Good' BY <1>1, <1>11, <1>13, <2>1, <2>2, SameList DEF listVars
    <2>4. Polling' BY <1>1, <1>11, <1>13, <2>1, SamePolls DEF listVars
    <2> QED BY <1>8, <2>1, <2>3, <2>4
  <1> QED BY <1>10, <1>12, <1>13

LEMMA EventCallOK ==
  ASSUME IInv, event_call
  PROVE  /\ Good' /\ Polling' /\ state' \in [Proc -> States]
         /\ process_current' \in Pointer
  <1>1. /\ stack # <<>> /\ Top.f = "do_event" /\ Top.at = "call"
        /\ UNCHANGED <<listVars, pollVars>>
    BY DEF event_call, At, In
  <1>2. Types /\ OK(stack, state, next, Listing) BY DEF IInv, Good
  <1>3. PICK w : w = stack[1] OBVIOUS
  <1>4. PICK r : r = Tail(stack) OBVIOUS
  <1>5. /\ Top = w /\ w \in Frame /\ Covers(w, state, next)
        /\ \A p : Polled(stack, next, p) <=> Polls(w, next, p) \/ Polled(r, next, p)
    BY <1>1, <1>2, <1>3, <1>4, TopFrame DEF Top
  <1>6. w \in EventFrame /\ w.q \in Proc /\ w.ev \in Event
    BY <1>1, <1>5, FrameKinds DEF EventFrame
  <1>7. PICK v : v = [w EXCEPT !.at = "advance", !.due = @ \ {w.q}] OBVIOUS
  <1>8. /\ v \in Frame /\ Alike(v, w) /\ v.f = "do_event" /\ v.q = w.q
        /\ v.at = "advance" /\ v.due = w.due \ {w.q}
    BY <1>1, <1>5, <1>6, <1>7, EventTold
  <1>9. /\ next \in [Proc -> Pointer] /\ state \in [Proc -> States]
        /\ process_current \in Pointer /\ owed \subseteq Proc
    BY <1>2 DEF Types
  <1>10. Covers(v, state, next)
    BY <1>1, <1>5, <1>6, <1>8, <1>9, CoverVisited DEF Walk
  <1>11. PICK s : s = <<v>> \o r OBVIOUS
  <1>12. /\ OK(s, state, next, Listing) /\ s # <<>> /\ s[1] = v
         /\ \A p : Polled(s, next, p) <=> Polls(v, next, p) \/ Polled(r, next, p)
    BY <1>1, <1>2, <1>3, <1>4, <1>8, <1>10, <1>11, GoesOn
  <1>13. Takes(s, w.q) /\ Tops(s, process_current, next, Listing)
    BY <1>8, <1>12 DEF Takes, Tops
  <1>14. call_process(w.q, w.ev, s, state)
    BY <1>4, <1>5, <1>7, <1>11 DEF event_call, Replaced, Rest
  <1>15. PICK q, ev : q = w.q /\ ev = w.ev OBVIOUS
  <1>16. /\ OK(stack', state', next, Listing)
         /\ Tops(stack', process_current', next, Listing)
         /\ \A x : Polled(s, next, x) => Polled(stack', next, x)
         /\ state' \in [Proc -> States] /\ process_current' \in Pointer
         /\ \A x \in Proc : state'[x] = "NONE" <=> state[x] = "NONE"
    <2>1. q \in Proc /\ ev \in Event /\ Takes(s, q) /\ call_process(q, ev, s, state)
      BY <1>6, <1>13, <1>14, <1>15
    <2> QED BY <1>9, <1>12, <1>13, <2>1, CallStep
  <1>17. Good' BY <1>1, <1>16, SameList DEF listVars
  <1>18. \A x : Polled(stack, next, x) => Polled(stack', next, x)
    BY <1>1, <1>5, <1>12, <1>16 DEF Polls
  <1>19. Polling' BY <1>1, <1>9, <1>16, <1>18, SamePolls DEF listVars, pollVars
  <1> QED BY <1>16, <1>17, <1>19

------------------------------------------------------------------------------
(* main() and the interrupts. *)
LEMMA RunPollOK ==
  ASSUME IInv, run_poll PROVE Good' /\ Polling'
  <1>1. /\ stack = <<>> /\ poll_requested' = FALSE
        /\ stack' = IF poll_requested THEN <<PollWalk(process_list)>> ELSE <<>>
        /\ UNCHANGED <<listVars, state, needspoll, owed, process_current>>
    BY DEF run_poll
  <1>2. OK(<<>>, state, next, Listing) BY <1>1 DEF IInv, Good
  <1>3. CASE poll_requested
    <2>1. stack' = <<PollWalk(process_list)>> \o <<>> BY <1>1, <1>3
    <2> QED BY <1>1, <1>2, <2>1, PollBegins
  <1>4. CASE ~ poll_requested
    <2>1. stack' = <<>> BY <1>1, <1>4
    <2>2. Tops(<<>>, process_current, next, Listing) BY DEF Tops
    <2>3. Good' BY <1>1, <1>2, <2>1, <2>2, SameList DEF listVars
    <2>4. \A x : ~ Polled(<<>>, next, x) BY DEF Polled
    <2>5. owed = {} BY <1>1, <1>4, <2>4 DEF IInv, Polling
    <2>6. Polling' BY <1>1, <2>5 DEF Polling
    <2> QED BY <2>3, <2>6
  <1> QED BY <1>3, <1>4

LEMMA DoEventOK ==
  ASSUME IInv, do_event
  PROVE  /\ Good' /\ Polling' /\ state' \in [Proc -> States]
         /\ process_current' \in Pointer
  <1>1. stack = <<>> /\ UNCHANGED <<listVars, pollVars>> BY DEF do_event
  <1>2. Types /\ OK(<<>>, state, next, Listing) BY <1>1 DEF IInv, Good
  <1>3. /\ state \in [Proc -> States] /\ process_current \in Pointer
        /\ owed \subseteq Proc /\ events \in Seq([p : Pointer, ev : Posted])
        /\ process_list \in Pointer
    BY <1>2 DEF Types
  <1>4. \A x : ~ Polled(stack, next, x) BY <1>1 DEF Polled
  <1>5. Tops(<<>>, process_current, next, Listing) BY DEF Tops
  <1>6. CASE events = <<>>
    <2>1. UNCHANGED <<stack, state, process_current>> BY <1>6 DEF do_event
    <2>2. Good' BY <1>1, <1>2, <1>5, <2>1, SameList DEF listVars
    <2>3. Polling' BY <1>1, <1>4, <2>1, SamePolls DEF listVars, pollVars
    <2> QED BY <1>3, <2>1, <2>2, <2>3
  <1>7. CASE events # <<>>
    <2>1. PICK e : e = Head(events) OBVIOUS
    <2>a. e \in [p : Pointer, ev : Posted] BY <1>3, <1>7, <2>1, SeqPop
    <2>b. e.p \in Pointer /\ e.ev \in Posted BY <2>a
    <2>2. e.p \in Pointer /\ e.ev \in Event BY <2>b DEF Event
    <2>3. CASE e.p = NULL
      <3>1. PICK v : v = EventWalk(process_list, e.ev, Running) OBVIOUS
      <3>2. stack' = <<v>> /\ UNCHANGED <<state, process_current>>
        BY <1>7, <2>1, <2>3, <3>1 DEF do_event
      <3>3. Running \in SUBSET Proc BY DEF Running
      <3>4. /\ v \in EventFrame /\ v.f = "do_event" /\ v.q = process_list
            /\ v.at = "poll" /\ v.due = Running
        BY <1>3, <2>2, <3>1, <3>3 DEF EventWalk, EventFrame
      <3>5. v \in Frame BY <3>4 DEF Frame
      <3>6. ~ Owns(v) /\ Fits(v, <<>>) BY <3>4 DEF Owns, Fits, Direct
      <3>7. Covers(v, state, next)
        <4> SUFFICES ASSUME NEW x \in Running PROVE x \in AheadOf(next, v)
          BY <3>4 DEF Covers
        <4>1. x \in Listing BY <1>2 DEF OK, Listed, Running
        <4> QED BY <3>4, <4>1 DEF AheadOf, Listing
      <3>8. /\ OK(<<v>> \o <<>>, state, next, Listing)
            /\ <<v>> \o <<>> # <<>> /\ (<<v>> \o <<>>)[1] = v
        BY <1>2, <3>5, <3>6, <3>7, Entered
      <3>9. <<v>> \o <<>> = <<v>> OBVIOUS
      <3>10. OK(<<v>>, state, next, Listing) /\ <<v>>[1] = v BY <3>8, <3>9
      <3>11. Tops(<<v>>, process_current, next, Listing) BY <3>4, <3>10 DEF Tops
      <3>12. Good' BY <1>1, <3>2, <3>10, <3>11, SameList DEF listVars
      <3>13. Polling' BY <1>1, <1>4, <3>2, SamePolls DEF listVars, pollVars
      <3> QED BY <1>3, <3>2, <3>12, <3>13
    <2>4. CASE e.p # NULL
      <3>1. PICK p, ev : p = e.p /\ ev = e.ev OBVIOUS
      <3>2. p \in Proc /\ ev \in Event BY <2>2, <2>4, <3>1 DEF Pointer
      <3>3. call_process(p, ev, <<>>, state)
        BY <1>7, <2>1, <2>4, <3>1 DEF do_event
      <3>4. Takes(<<>>, p) BY DEF Takes
      <3>5. /\ OK(stack', state', next, Listing)
            /\ Tops(stack', process_current', next, Listing)
            /\ state' \in [Proc -> States] /\ process_current' \in Pointer
            /\ \A x \in Proc : state'[x] = "NONE" <=> state[x] = "NONE"
        BY <1>2, <1>3, <1>5, <3>2, <3>3, <3>4, CallStep
      <3>6. Good' BY <1>1, <3>5, SameList DEF listVars
      <3>7. Polling' BY <1>1, <1>3, <1>4, <3>5, SamePolls DEF listVars, pollVars
      <3> QED BY <3>5, <3>6, <3>7
    <2> QED BY <2>3, <2>4
  <1> QED BY <1>6, <1>7

LEMMA QuietOK ==
  ASSUME IInv, UNCHANGED <<listVars, state, pollVars, process_current, stack>>
  PROVE  Good' /\ Polling'
  <1>1. Good'
    <2>1. OK(stack', state', next, Listing)
          /\ Tops(stack', process_current', next, Listing)
      BY DEF IInv, Good
    <2> QED BY <2>1, SameList DEF listVars
  <1>2. Polling' BY SamePolls DEF listVars, pollVars
  <1> QED BY <1>1, <1>2

LEMMA InterruptOK ==
  ASSUME IInv, NEW p \in Proc, interrupt(p)
  PROVE  /\ Good' /\ Polling' /\ needspoll' \in [Proc -> BOOLEAN]
         /\ poll_requested' \in BOOLEAN /\ owed' \subseteq Proc
  <1>1. process_poll(p) /\ UNCHANGED <<listVars, state, process_current, stack>>
    BY DEF interrupt
  <1>2. Types /\ Polling BY DEF IInv
  <1>3. Good'
    <2>1. OK(stack', state', next, Listing)
          /\ Tops(stack', process_current', next, Listing)
      BY <1>1 DEF IInv, Good
    <2> QED BY <1>1, <2>1, SameList DEF listVars
  <1>4. CASE state[p] # "NONE"
    <2>1. /\ needspoll' = [needspoll EXCEPT ![p] = TRUE]
          /\ poll_requested' = TRUE /\ owed' = owed \cup {p}
      BY <1>1, <1>4 DEF process_poll
    <2>2. needspoll \in [Proc -> BOOLEAN] /\ owed \subseteq Proc BY <1>2 DEF Types
    <2>3. needspoll' \in [Proc -> BOOLEAN] /\ owed' \subseteq Proc BY <2>1, <2>2
    <2>4. ASSUME NEW x \in owed' PROVE needspoll'[x] /\ state'[x] # "NONE"
      BY <1>1, <1>2, <1>4, <2>1, <2>2, <2>4 DEF Polling
    <2>5. Polling' BY <2>1, <2>4 DEF Polling
    <2> QED BY <1>3, <2>1, <2>3, <2>5
  <1>5. CASE state[p] = "NONE"
    <2>1. UNCHANGED pollVars BY <1>1, <1>5 DEF process_poll
    <2>2. Polling' BY <1>1, <2>1, SamePolls DEF listVars, pollVars
    <2> QED BY <1>2, <1>3, <2>1, <2>2 DEF Types, pollVars
  <1> QED BY <1>4, <1>5

------------------------------------------------------------------------------
(* Every step keeps the inductive invariant.  First the steps taken with   *)
(* activations on the stack, during which main() waits for them to return. *)
LEMMA Kept ==
  ASSUME IInv, Good', Polling', stack # <<>>, UNCHANGED main,
         process_list' \in Pointer, next' \in [Proc -> Pointer],
         state' \in [Proc -> States], needspoll' \in [Proc -> BOOLEAN],
         poll_requested' \in BOOLEAN, process_current' \in Pointer,
         events' \in Seq([p : Pointer, ev : Posted]), Len(events') <= NumEvents,
         starts' \in 0..MaxStarts, owed' \subseteq Proc
  PROVE  IInv'
  <1>1. Types' BY DEF IInv, Types
  <1>2. main \notin {"idle", "sleep"} BY DEF IInv, Mains
  <1>3. Mains' BY <1>2 DEF Mains
  <1> QED BY <1>1, <1>3 DEF IInv

LEMMA TypesParts ==
  ASSUME IInv
  PROVE  /\ process_list \in Pointer /\ next \in [Proc -> Pointer]
         /\ state \in [Proc -> States] /\ needspoll \in [Proc -> BOOLEAN]
         /\ poll_requested \in BOOLEAN /\ process_current \in Pointer
         /\ events \in Seq([p : Pointer, ev : Posted]) /\ Len(events) <= NumEvents
         /\ main \in {"boot", "run", "event", "result", "idle", "sleep"}
         /\ starts \in 0..MaxStarts /\ owed \subseteq Proc
  BY DEF IInv, Types

LEMMA WalkStep ==
  ASSUME IInv, \/ exit_visit \/ exit_advance \/ exit_unlink
               \/ poll_visit \/ poll_advance
               \/ event_poll \/ event_call \/ event_advance \/ synch_return
  PROVE  IInv'
  <1>1. CASE exit_visit
    <2>1. stack # <<>> /\ UNCHANGED <<listVars, pollVars, events, main>>
      BY <1>1 DEF exit_visit, At, In
    <2> QED BY <1>1, <2>1, ExitVisitOK, TypesParts, Kept DEF listVars, pollVars
  <1>2. CASE exit_advance
    <2>1. /\ stack # <<>>
          /\ UNCHANGED <<listVars, state, pollVars, process_current, events, main>>
      BY <1>2 DEF exit_advance, At, In
    <2> QED BY <1>2, <2>1, WalkMovesOK, TypesParts, Kept DEF listVars, pollVars
  <1>3. CASE exit_unlink
    <2>1. stack # <<>> /\ UNCHANGED <<starts, state, pollVars, events, main>>
      BY <1>3 DEF exit_unlink, In
    <2> QED BY <1>3, <2>1, UnlinkOK, TypesParts, Kept DEF pollVars
  <1>4. CASE poll_visit
    <2>1. stack # <<>> /\ UNCHANGED <<listVars, poll_requested, events, main>>
      BY <1>4 DEF poll_visit, At, In
    <2> QED BY <1>4, <2>1, PollVisitOK, TypesParts, Kept DEF listVars
  <1>5. CASE poll_advance
    <2>1. /\ stack # <<>>
          /\ UNCHANGED <<listVars, state, pollVars, process_current, events, main>>
      BY <1>5 DEF poll_advance, At, In
    <2> QED BY <1>5, <2>1, PollMovesOK, TypesParts, Kept DEF listVars, pollVars
  <1>6. CASE event_poll
    <2>1. /\ stack # <<>>
          /\ UNCHANGED <<listVars, state, needspoll, owed, process_current, events,
                         main>>
      BY <1>6 DEF event_poll, At, In
    <2> QED BY <1>6, <2>1, EventPollOK, TypesParts, Kept DEF listVars
  <1>7. CASE event_call
    <2>1. stack # <<>> /\ UNCHANGED <<listVars, pollVars, events, main>>
      BY <1>7 DEF event_call, At, In
    <2> QED BY <1>7, <2>1, EventCallOK, TypesParts, Kept DEF listVars, pollVars
  <1>8. CASE event_advance
    <2>1. /\ stack # <<>>
          /\ UNCHANGED <<listVars, state, pollVars, process_current, events, main>>
      BY <1>8 DEF event_advance, At, In
    <2> QED BY <1>8, <2>1, WalkMovesOK, TypesParts, Kept DEF listVars, pollVars
  <1>9. CASE synch_return
    <2>1. stack # <<>> /\ UNCHANGED <<listVars, state, pollVars, events, main>>
      BY <1>9 DEF synch_return, In
    <2> QED BY <1>9, <2>1, ReturnOK, TypesParts, Kept DEF listVars, pollVars
  <1> QED BY <1>1, <1>2, <1>3, <1>4, <1>5, <1>6, <1>7, <1>8, <1>9

LEMMA ReturnStep ==
  ASSUME IInv, ThreadReturn PROVE IInv'
  <1>1. CASE thread_yield
    <2>1. stack # <<>> /\ UNCHANGED <<listVars, pollVars, process_current, events, main>>
      BY <1>1 DEF thread_yield, In
    <2> QED BY <1>1, <2>1, YieldOK, TypesParts, Kept DEF listVars, pollVars
  <1>2. CASE thread_end
    <2>1. /\ stack # <<>>
          /\ UNCHANGED <<listVars, process_current, needspoll, poll_requested,
                         events, main>>
      BY <1>2 DEF thread_end, In
    <2> QED BY <1>2, <2>1, EndOK, TypesParts, Kept DEF listVars
  <1>3. CASE thread_exited
    <2>1. /\ stack # <<>>
          /\ UNCHANGED <<listVars, state, pollVars, process_current, events, main>>
      BY <1>3 DEF thread_exited, In
    <2> QED BY <1>3, <2>1, ReturnOK, TypesParts, Kept DEF listVars, pollVars
  <1> QED BY <1>1, <1>2, <1>3 DEF ThreadReturn

LEMMA PostTyped ==
  ASSUME IInv, NEW p \in Pointer, NEW ev \in Posted, process_post(p, ev)
  PROVE  events' \in Seq([p : Pointer, ev : Posted]) /\ Len(events') <= NumEvents
  <1>1. PICK e : e = [p |-> p, ev |-> ev] OBVIOUS
  <1>2. e \in [p : Pointer, ev : Posted] BY <1>1
  <1>3. /\ events \in Seq([p : Pointer, ev : Posted]) /\ Len(events) <= NumEvents
        /\ NumEvents \in Nat
    BY TypesParts, ProcessAssumption
  <1>4. events' = events \/ (Len(events) # NumEvents /\ events' = Append(events, e))
    BY <1>1 DEF process_post
  <1>5. PICK E : E = [p : Pointer, ev : Posted] OBVIOUS
  <1>6. events \in Seq(E) /\ e \in E BY <1>2, <1>3, <1>5
  <1>7. /\ Append(events, e) \in Seq(E) /\ Len(Append(events, e)) = Len(events) + 1
        /\ Len(events) \in Nat
    BY <1>6
  <1>8. events' \in Seq(E) BY <1>4, <1>6, <1>7
  <1>9. Len(events') <= NumEvents
    <2>1. CASE events' = events BY <1>3, <2>1
    <2>2. CASE Len(events) # NumEvents /\ events' = Append(events, e)
      <3>1. Len(events') = Len(events) + 1 BY <1>7, <2>2
      <3> QED BY <1>3, <1>7, <2>2, <3>1
    <2> QED BY <1>4, <2>1, <2>2
  <1> QED BY <1>5, <1>8, <1>9

LEMMA CallsStep ==
  ASSUME IInv, ~ SelfExit, ThreadCall PROVE IInv'
  <1>1. ASSUME NEW p \in Proc \cup {NULL}, NEW ev \in Posted, thread_post(p, ev)
        PROVE  IInv'
    <2>1. /\ stack # <<>> /\ process_post(p, ev)
          /\ UNCHANGED <<listVars, state, pollVars, process_current, main>>
      BY <1>1 DEF thread_post, MayCall, In
    <2>2. p \in Pointer BY DEF Pointer
    <2>3. events' \in Seq([p : Pointer, ev : Posted]) /\ Len(events') <= NumEvents
      BY <2>1, <2>2, PostTyped
    <2> QED BY <1>1, <2>1, <2>3, PostOK, TypesParts, Kept DEF listVars, pollVars
  <1>2. ASSUME NEW p \in Proc, NEW ev \in Posted, process_post_synch(p, ev)
        PROVE  IInv'
    <2>1. stack # <<>> /\ UNCHANGED <<listVars, pollVars, events, main>>
      BY <1>2 DEF process_post_synch, MayCall, In
    <2> QED BY <1>2, <2>1, SynchOK, TypesParts, Kept DEF listVars, pollVars
  <1>3. ASSUME NEW p \in Proc, thread_start(p) PROVE IInv'
    <2>1. stack # <<>> /\ UNCHANGED <<needspoll, poll_requested, events, main>>
      BY <1>3 DEF thread_start, MayCall, In
    <2> QED BY <1>3, <2>1, ThreadStartOK, TypesParts, Kept
  <1>4. ASSUME NEW p \in Proc, process_exit(p) PROVE IInv'
    <2>1. /\ stack # <<>>
          /\ UNCHANGED <<listVars, process_current, needspoll, poll_requested,
                         events, main>>
      BY <1>4 DEF process_exit, MayCall, In
    <2> QED BY <1>4, <2>1, ExitOK, TypesParts, Kept DEF listVars
  <1> QED BY <1>1, <1>2, <1>3, <1>4 DEF ThreadCall

(* Then the steps of main(), which finds the stack empty, and interrupts. *)
LEMMA Moves ==
  ASSUME IInv, Good', Polling', Mains',
         main' \in {"boot", "run", "event", "result", "idle", "sleep"},
         process_list' \in Pointer, next' \in [Proc -> Pointer],
         state' \in [Proc -> States], needspoll' \in [Proc -> BOOLEAN],
         poll_requested' \in BOOLEAN, process_current' \in Pointer,
         events' \in Seq([p : Pointer, ev : Posted]), Len(events') <= NumEvents,
         starts' \in 0..MaxStarts, owed' \subseteq Proc
  PROVE  IInv'
  BY DEF IInv, Types

LEMMA QuietStep ==
  ASSUME IInv, UNCHANGED <<listVars, state, pollVars, process_current, events, stack>>,
         main' \in {"boot", "run", "event", "result", "idle", "sleep"}, Mains'
  PROVE  IInv'
  <1>1. Good' /\ Polling' BY QuietOK
  <1> QED BY <1>1, TypesParts, Moves DEF listVars, pollVars

LEMMA TakenTyped ==
  ASSUME IInv, do_event
  PROVE  events' \in Seq([p : Pointer, ev : Posted]) /\ Len(events') <= NumEvents
  <1>1. events' = events \/ (events # <<>> /\ events' = Tail(events))
    BY DEF do_event
  <1>2. /\ events \in Seq([p : Pointer, ev : Posted]) /\ Len(events) <= NumEvents
        /\ NumEvents \in Nat
    BY TypesParts, ProcessAssumption
  <1>3. PICK E : E = [p : Pointer, ev : Posted] OBVIOUS
  <1>4. CASE events' = events BY <1>2, <1>4
  <1>5. CASE events # <<>> /\ events' = Tail(events)
    <2>1. events \in Seq(E) BY <1>2, <1>3
    <2>2. /\ Tail(events) \in Seq(E) /\ Len(Tail(events)) = Len(events) - 1
          /\ Len(events) \in Nat
      BY <1>5, <2>1, SeqPop
    <2>3. Len(events) - 1 <= NumEvents BY <1>2, <2>2
    <2> QED BY <1>3, <1>5, <2>2, <2>3
  <1> QED BY <1>1, <1>4, <1>5

LEMMA MainStep ==
  ASSUME IInv, run_poll \/ do_event \/ run_return \/ platform_idle \/ Boot
  PROVE  IInv'
  <1>1. CASE run_poll
    <2>1. /\ main' = "event" /\ poll_requested' = FALSE
          /\ UNCHANGED <<listVars, state, needspoll, owed, process_current, events>>
      BY <1>1 DEF run_poll
    <2>2. Mains' BY <2>1 DEF Mains
    <2> QED BY <1>1, <2>1, <2>2, RunPollOK, TypesParts, Moves DEF listVars
  <1>2. CASE do_event
    <2>1. main' = "result" /\ UNCHANGED <<listVars, pollVars>> BY <1>2 DEF do_event
    <2>2. Mains' BY <2>1 DEF Mains
    <2>3. events' \in Seq([p : Pointer, ev : Posted]) /\ Len(events') <= NumEvents
      BY <1>2, TakenTyped
    <2> QED BY <1>2, <2>1, <2>2, <2>3, DoEventOK, TypesParts, Moves
          DEF listVars, pollVars
  <1>3. CASE run_return
    <2>1. /\ stack = <<>> /\ main' \in {"idle", "run"}
          /\ UNCHANGED <<listVars, state, pollVars, process_current, events, stack>>
      BY <1>3 DEF run_return
    <2>2. Mains' BY <2>1 DEF Mains
    <2>3. main' \in {"boot", "run", "event", "result", "idle", "sleep"} BY <2>1
    <2> QED BY <2>1, <2>2, <2>3, QuietStep
  <1>4. CASE platform_idle
    <2>1. /\ main = "idle" /\ main' \in {"sleep", "run"}
          /\ main' = "sleep" => events = <<>> /\ ~ poll_requested
          /\ UNCHANGED <<listVars, state, pollVars, process_current, events, stack>>
      BY <1>4 DEF platform_idle
    <2>2. stack = <<>> BY <2>1 DEF IInv, Mains
    <2>3. Mains' BY <2>1, <2>2 DEF Mains, pollVars
    <2>4. main' \in {"boot", "run", "event", "result", "idle", "sleep"} BY <2>1
    <2> QED BY <2>1, <2>3, <2>4, QuietStep
  <1>5. ASSUME NEW p \in Proc, boot_start(p) PROVE IInv'
    <2>1. /\ main = "boot" /\ UNCHANGED <<needspoll, poll_requested, events, main>>
      BY <1>5 DEF boot_start
    <2>2. Mains' BY <2>1 DEF Mains
    <2> QED BY <1>5, <2>1, <2>2, ThreadStartOK, TypesParts, Moves
  <1>6. CASE boot_done
    <2>1. /\ main' = "run"
          /\ UNCHANGED <<listVars, state, pollVars, process_current, events, stack>>
      BY <1>6 DEF boot_done
    <2>2. Mains' BY <2>1 DEF Mains
    <2>3. main' \in {"boot", "run", "event", "result", "idle", "sleep"} BY <2>1
    <2> QED BY <2>1, <2>2, <2>3, QuietStep
  <1> QED BY <1>1, <1>2, <1>3, <1>4, <1>5, <1>6 DEF Boot

LEMMA InterruptStep ==
  ASSUME IInv, NEW p \in Proc, interrupt(p) PROVE IInv'
  <1>1. /\ main' = (IF main = "sleep" THEN "run" ELSE main)
        /\ UNCHANGED <<listVars, state, process_current, events, stack>>
    BY DEF interrupt
  <1>2. /\ main \in {"boot", "run", "event", "result", "idle", "sleep"}
        /\ main \in {"idle", "sleep"} => stack = <<>>
    BY DEF IInv, Types, Mains
  <1>3. Mains' BY <1>1, <1>2 DEF Mains
  <1>4. main' \in {"boot", "run", "event", "result", "idle", "sleep"} BY <1>1, <1>2
  <1> QED BY <1>1, <1>3, <1>4, InterruptOK, TypesParts, Moves DEF listVars

LEMMA IInvStep ==
  ASSUME IInv, ~ SelfExit, [Next]_vars PROVE IInv'
  <1>1. CASE Boot BY <1>1, MainStep
  <1>2. CASE Kernel BY <1>2, MainStep, WalkStep DEF Kernel
  <1>3. CASE ThreadCall BY <1>3, CallsStep
  <1>4. CASE ThreadReturn BY <1>4, ReturnStep
  <1>5. ASSUME NEW p \in Proc, interrupt(p) PROVE IInv' BY <1>5, InterruptStep
  <1>6. CASE UNCHANGED vars
    <2>1. /\ UNCHANGED <<listVars, state, pollVars, process_current, events, stack>>
          /\ UNCHANGED main
      BY <1>6 DEF vars, listVars, pollVars
    <2>2. Mains' BY <2>1 DEF IInv, Mains, pollVars
    <2> QED BY <2>1, <2>2, QuietStep, TypesParts
  <1> QED BY <1>1, <1>2, <1>3, <1>4, <1>5, <1>6 DEF Next

LEMMA InitInv ==
  ASSUME Init PROVE IInv
  <1>1. /\ process_list = NULL /\ stack = <<>> /\ owed = {} /\ main = "boot"
        /\ events = <<>> /\ starts = 0 /\ poll_requested = FALSE
        /\ process_current = NULL
        /\ next = [p \in Proc |-> NULL] /\ state = [p \in Proc |-> "NONE"]
        /\ needspoll = [p \in Proc |-> FALSE]
    BY DEF Init
  <1>2. Len(events) <= NumEvents /\ 0 \in 0..MaxStarts BY <1>1, ProcessAssumption
  <1>3. events \in Seq([p : Pointer, ev : Posted]) BY <1>1
  <1>4. Types BY <1>1, <1>2, <1>3 DEF Types, Pointer, States
  <1>5. Listing = {} BY <1>1, ReachNull DEF Listing
  <1>6. Sound(stack, state, Listing) BY <1>1, <1>5, SoundEmpty
  <1>7. Reaching(stack, state, next) BY <1>1, ReachingEmpty
  <1>8. Listed(stack, state, Listing) BY <1>1, <1>5 DEF Listed
  <1>9. NoCycle(next, process_list) BY <1>5 DEF NoCycle, Listing
  <1>10. Tops(stack, process_current, next, Listing) BY <1>1 DEF Tops
  <1>11. Good BY <1>6, <1>7, <1>8, <1>9, <1>10 DEF Good, OK
  <1>12. Polling /\ Mains BY <1>1 DEF Polling, Mains
  <1> QED BY <1>4, <1>11, <1>12 DEF IInv

LEMMA Invariance ==
  ASSUME ~ SelfExit PROVE Spec => []IInv
  <1>1. Init => IInv BY InitInv
  <1>2. IInv /\ [Next]_vars => IInv' BY IInvStep
  <1> QED BY <1>1, <1>2, PTL DEF Spec

(* A thread is on the stack once: whoever exits or is in a call is held by *)
(* one activation, and a direct call lies on the unlink of its process.    *)
LEMMA ThreadOnce ==
  ASSUME NEW s, NEW st, NEW l, Sound(s, st, l), NEW p,
         NEW i \in 1..Len(s), NEW j \in 1..Len(s),
         s[i].f = "thread", s[i].p = p, s[j].f = "thread", s[j].p = p
  PROVE  i = j
  <1>1. s \in Seq(Frame) /\ Len(s) \in Nat BY DEF Sound
  <1>2. ASSUME NEW k \in 1..Len(s), Direct(s[k]), s[k].p = p
        PROVE  /\ k + 1 \in 1..Len(s) /\ s[k + 1].f = "unlink"
               /\ Owns(s[k + 1]) /\ s[k + 1].p = p
    <2>1. k # Len(s) BY <1>2 DEF Sound, Nested
    <2>2. k + 1 \in 1..Len(s) BY <1>1, <2>1
    <2>3. Under(s[k], s[k + 1]) BY <2>2 DEF Sound, Nested
    <2>4. s[k + 1].f = "unlink" /\ s[k + 1].p = p BY <1>2, <2>3 DEF Under
    <2> QED BY <2>2, <2>4 DEF Owns
  <1>3. \A a, b \in 1..Len(s) :
          Owns(s[a]) /\ Owns(s[b]) /\ s[a].p = s[b].p => a = b
    BY DEF Sound, Unique
  <1>4. ~ Direct(s[i]) => Owns(s[i]) BY DEF Direct, Owns
  <1>5. ~ Direct(s[j]) => Owns(s[j]) BY DEF Direct, Owns
  <1>6. CASE ~ Direct(s[i]) /\ ~ Direct(s[j]) BY <1>3, <1>4, <1>5, <1>6
  <1>7. CASE Direct(s[i]) /\ Direct(s[j])
    <2>1. i + 1 = j + 1 BY <1>2, <1>3, <1>7
    <2> QED BY <1>1, <2>1
  <1>8. CASE Direct(s[i]) /\ ~ Direct(s[j])
    <2>1. i + 1 = j BY <1>2, <1>3, <1>5, <1>8
    <2> QED BY <1>2, <1>8, <2>1
  <1>9. CASE ~ Direct(s[i]) /\ Direct(s[j])
    <2>1. j + 1 = i BY <1>2, <1>3, <1>4, <1>9
    <2> QED BY <1>2, <1>9, <2>1
  <1> QED BY <1>6, <1>7, <1>8, <1>9

LEMMA AtMostOne ==
  ASSUME NEW S, \A x, y \in S : x = y PROVE Cardinality(S) <= 1
  <1>1. CASE S = {} BY <1>1, FS_EmptySet
  <1>2. CASE S # {}
    <2>1. PICK x : x \in S BY <1>2
    <2>2. S = {x} BY <2>1
    <2>3. Cardinality({x}) = 1 BY FS_Singleton
    <2> QED BY <2>2, <2>3
  <1> QED BY <1>1, <1>2

LEMMA StackIndex ==
  ASSUME IInv
  PROVE  /\ Sound(stack, state, Listing) /\ stack \in Seq(Frame)
         /\ DOMAIN stack = 1..Len(stack)
  <1>1. Sound(stack, state, Listing) BY DEF IInv, Good, OK
  <1>2. stack \in Seq(Frame) BY <1>1 DEF Sound
  <1> QED BY <1>1, <1>2

(* The C stack is well formed: every activation is of a kind the kernel    *)
(* knows, no protothread is entered while an earlier call of it has not    *)
(* returned, and PROCESS_CURRENT() is the innermost thread's process, in   *)
(* call_process(), process_post_synch() and exit_process() at any depth.   *)
THEOREM StackWellFormed ==
  ASSUME ~ SelfExit PROVE Spec => []StackSound
  <1>1. IInv => StackSound
    <2> SUFFICES ASSUME IInv PROVE StackSound OBVIOUS
    <2>1. Sound(stack, state, Listing) /\ DOMAIN stack = 1..Len(stack)
      BY StackIndex
    <2>2. \A i \in DOMAIN stack :
            stack[i].f \in {"thread", "do_poll", "do_event", "exit_process",
                            "unlink", "post_synch"}
      <3> SUFFICES ASSUME NEW i \in DOMAIN stack
                   PROVE  stack[i].f \in {"thread", "do_poll", "do_event",
                                          "exit_process", "unlink", "post_synch"}
        OBVIOUS
      <3>1. stack[i] \in Frame BY StackIndex
      <3> QED BY <3>1, FrameKinds
    <2>3. TypeOK BY <2>2, TypesParts DEF TypeOK, Pointer, States
    <2>4. NoReentry
      <3> SUFFICES ASSUME NEW p \in Proc
                   PROVE  Cardinality({i \in DOMAIN stack :
                            stack[i].f = "thread" /\ stack[i].p = p}) <= 1
        BY DEF NoReentry
      <3>1. PICK S : S = {i \in DOMAIN stack :
                            stack[i].f = "thread" /\ stack[i].p = p}
        OBVIOUS
      <3>2. ASSUME NEW x \in S, NEW y \in S PROVE x = y
        <4>1. /\ x \in 1..Len(stack) /\ stack[x].f = "thread" /\ stack[x].p = p
              /\ y \in 1..Len(stack) /\ stack[y].f = "thread" /\ stack[y].p = p
          BY <2>1, <3>1
        <4> QED BY <2>1, <4>1, ThreadOnce
      <3>3. Cardinality(S) <= 1 BY <3>2, AtMostOne
      <3> QED BY <3>1, <3>3
    <2>5. CurrentIsRunner
      <3> SUFFICES ASSUME In("thread") PROVE process_current = Top.p
        BY DEF CurrentIsRunner
      <3>1. stack # <<>> /\ Top.f = "thread" BY DEF In
      <3>2. OK(stack, state, next, Listing) BY DEF IInv, Good
      <3>3. Top = stack[1] BY <3>1, <3>2, TopFrame DEF Top
      <3>4. Tops(stack, process_current, next, Listing) BY DEF IInv, Good
      <3> QED BY <3>1, <3>3, <3>4 DEF Tops
    <2> QED BY <2>3, <2>4, <2>5 DEF StackSound
  <1> QED BY <1>1, Invariance, PTL

(* process_is_running() and process_list agree: process_start() lists a    *)
(* process before it runs, and only an activation of exit_process() keeps  *)
(* one on the list that does not run.                                      *)
THEOREM RunningAreListed ==
  ASSUME ~ SelfExit PROVE Spec => []RunningIsListed
  <1>1. IInv => RunningIsListed
    <2> SUFFICES ASSUME IInv PROVE RunningIsListed OBVIOUS
    <2>1. From(process_list) = Listing BY FromReach DEF Listing
    <2>2. Listed(stack, state, Listing) BY DEF IInv, Good, OK
    <2>3. \A p \in Proc : state[p] # "NONE" => p \in From(process_list)
      BY <2>1, <2>2 DEF Listed
    <2>4. ASSUME NEW p \in From(process_list), state[p] = "NONE"
          PROVE  Frames(p) # {}
      <3>1. Held(stack, p) BY <2>1, <2>2, <2>4 DEF Listed
      <3>2. PICK i \in 1..Len(stack) : Owns(stack[i]) /\ stack[i].p = p
        BY <3>1 DEF Held
      <3>3. i \in DOMAIN stack BY StackIndex
      <3>4. stack[i].f \in {"thread", "exit_process", "unlink"} BY <3>2 DEF Owns
      <3>5. i \in Frames(p) BY <3>2, <3>3, <3>4 DEF Frames
      <3> QED BY <3>5
    <2> QED BY <2>3, <2>4 DEF RunningIsListed
  <1> QED BY <1>1, Invariance, PTL

LEMMA AheadReach ==
  \A w : Ahead(w) = AheadOf(next, w)
  BY FromReach DEF Ahead, AheadOf, After

(* A poll that process_poll() has accepted is never lost before do_poll()  *)
(* serves it: the flag is up or a walk of do_poll() has yet to come to the *)
(* process, whatever the threads it calls do to the list, and wherever an  *)
(* interrupt strikes.                                                      *)
THEOREM PollsKept ==
  ASSUME ~ SelfExit PROVE Spec => []PollKept
  <1>1. IInv => PollKept
    <2> SUFFICES ASSUME IInv, NEW p \in owed
                 PROVE  /\ needspoll[p]
                        /\ \/ poll_requested
                           \/ \E i \in DOMAIN stack :
                                stack[i].f = "do_poll" /\ p \in Ahead(stack[i])
      BY DEF PollKept
    <2>1. needspoll[p] /\ (poll_requested \/ Polled(stack, next, p))
      BY DEF IInv, Polling
    <2>2. ASSUME Polled(stack, next, p)
          PROVE  \E i \in DOMAIN stack :
                   stack[i].f = "do_poll" /\ p \in Ahead(stack[i])
      <3>1. PICK i \in 1..Len(stack) : Polls(stack[i], next, p)
        BY <2>2 DEF Polled
      <3>2. stack[i].f = "do_poll" /\ p \in Ahead(stack[i])
        BY <3>1, AheadReach DEF Polls
      <3>3. i \in DOMAIN stack BY StackIndex
      <3> QED BY <3>2, <3>3
    <2> QED BY <2>1, <2>2
  <1> QED BY <1>1, Invariance, PTL

(* The walks of do_event() and exit_process() still have ahead of them     *)
(* every process that they owe their event and that runs, although exits   *)
(* and starts during the walk change the list under the cursor.            *)
THEOREM WalksReachAll ==
  ASSUME ~ SelfExit PROVE Spec => []WalkReachesAll
  <1>1. IInv => WalkReachesAll
    <2> SUFFICES ASSUME IInv, NEW i \in DOMAIN stack,
                        stack[i].f \in {"do_event", "exit_process"},
                        NEW x \in stack[i].due \cap Running
                 PROVE  x \in Ahead(stack[i])
      BY DEF WalkReachesAll
    <2>1. Reaching(stack, state, next) BY DEF IInv, Good, OK
    <2>2. i \in 1..Len(stack) BY StackIndex
    <2>3. Covers(stack[i], state, next) BY <2>1, <2>2 DEF Reaching
    <2>4. x \in AheadOf(next, stack[i]) BY <2>3 DEF Covers, Running, Walk
    <2> QED BY <2>4, AheadReach
  <1> QED BY <1>1, Invariance, PTL

(* platform_idle() lets the CPU sleep only when no event is queued and no  *)
(* poll is waiting: the check with interrupts disabled closes the window   *)
(* between process_run() and the sleep.                                    *)
THEOREM SleepsOnlyIdle ==
  ASSUME ~ SelfExit PROVE Spec => []SleepsIdle
  <1>1. IInv => SleepsIdle
    <2> SUFFICES ASSUME IInv, main = "sleep" PROVE events = <<>> /\ owed = {}
      BY DEF SleepsIdle
    <2>1. stack = <<>> /\ events = <<>> /\ ~ poll_requested BY DEF IInv, Mains
    <2>2. \A x : ~ Polled(stack, next, x) BY <2>1 DEF Polled
    <2>3. owed = {} BY <2>1, <2>2 DEF IInv, Polling
    <2> QED BY <2>1, <2>3
  <1> QED BY <1>1, Invariance, PTL
==============================================================================
