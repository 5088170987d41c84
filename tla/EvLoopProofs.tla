----------------------------- MODULE EvLoopProofs -----------------------------
(***************************************************************************)
(* Proofs about the event loop: the queue of pending events, the           *)
(* descriptors and what the backends are told.  Those about its heap of    *)
(* timers are in AlgorithmProofs.                                          *)
(***************************************************************************)
EXTENDS EvLoop, AlgorithmProofs, FiniteSetTheorems

-----------------------------------------------------------------------------
(* The queue of pending events *)

EventNames == {"READ", "SIGNAL", "TIMER", "PREPARE", "CUSTOM"}
Pendings   == [w : Watchers \cup {pending_w}, events : SUBSET EventNames]

\* Of a watcher that is pending there is one event in the queue, at the place its
\* field pending says, and of no other watcher is there any.
QueueOK(q) ==
  /\ q \in [pendings : [Priorities -> Seq(Pendings)], pending : [Watchers -> Nat]]
  /\ \A p \in Priorities : \A i \in 1 .. Len(q.pendings[p]) :
       LET w == q.pendings[p][i].w
       IN  w # pending_w => ABSPRI(w) = p /\ q.pending[w] = i
  /\ \A w \in Watchers : q.pending[w] # 0 =>
       /\ q.pending[w] \in 1 .. Len(q.pendings[ABSPRI(w)])
       /\ q.pendings[ABSPRI(w)][q.pending[w]].w = w

Queued(q) == {w \in Watchers : q.pending[w] # 0}

\* What QueueOK says of the types.
LEMMA QueueFacts ==
  ASSUME NEW q, QueueOK(q)
  PROVE  /\ q = [pendings |-> q.pendings, pending |-> q.pending]
         /\ q.pendings \in [Priorities -> Seq(Pendings)]
         /\ q.pending \in [Watchers -> Nat]
         /\ \A p \in Priorities :
              /\ q.pendings[p] \in Seq(Pendings)
              /\ Len(q.pendings[p]) \in Nat
              /\ DOMAIN q.pendings[p] = 1 .. Len(q.pendings[p])
              /\ \A i \in 1 .. Len(q.pendings[p]) :
                   /\ q.pendings[p][i] \in Pendings
                   /\ q.pendings[p][i].w \in Watchers \cup {pending_w}
<1>1. /\ q = [pendings |-> q.pendings, pending |-> q.pending]
      /\ q.pendings \in [Priorities -> Seq(Pendings)]
      /\ q.pending \in [Watchers -> Nat]
  BY DEF QueueOK
<1>2. \A e \in Pendings : e.w \in Watchers \cup {pending_w}
  BY DEF Pendings
<1>3. ASSUME NEW p \in Priorities
      PROVE  /\ q.pendings[p] \in Seq(Pendings)
             /\ Len(q.pendings[p]) \in Nat
             /\ DOMAIN q.pendings[p] = 1 .. Len(q.pendings[p])
             /\ \A i \in 1 .. Len(q.pendings[p]) : q.pendings[p][i] \in Pendings
  <2>1. q.pendings[p] \in Seq(Pendings)
    BY <1>1
  <2>2. QED
    BY <2>1
<1> QED  BY <1>1, <1>2, <1>3

LEMMA PriorityOf ==
  ASSUME NEW w
  PROVE  ABSPRI(w) \in Priorities
BY DEF ABSPRI, Priorities

\* The queue s of priority p and the fields pe agree.
Fits(q, p, s, pe) ==
  /\ s \in Seq(Pendings) /\ pe \in [Watchers -> Nat]
  /\ \A w \in Watchers : ABSPRI(w) # p => pe[w] = q.pending[w]
  /\ \A i \in 1 .. Len(s) : s[i].w # pending_w => ABSPRI(s[i].w) = p /\ pe[s[i].w] = i
  /\ \A w \in Watchers : ABSPRI(w) = p /\ pe[w] # 0 =>
       pe[w] \in 1 .. Len(s) /\ s[pe[w]].w = w

\* A queue in which one priority has changed.
LEMMA QueueChanges ==
  ASSUME NEW q, QueueOK(q), NEW p \in Priorities, NEW s, NEW pe, Fits(q, p, s, pe)
  PROVE  QueueOK([pendings |-> [q.pendings EXCEPT ![p] = s], pending |-> pe])
<1> DEFINE r == [pendings |-> [q.pendings EXCEPT ![p] = s], pending |-> pe]
<1>0. /\ s \in Seq(Pendings) /\ pe \in [Watchers -> Nat]
      /\ \A w \in Watchers : ABSPRI(w) # p => pe[w] = q.pending[w]
      /\ \A i \in 1 .. Len(s) : s[i].w # pending_w => ABSPRI(s[i].w) = p /\ pe[s[i].w] = i
      /\ \A w \in Watchers : ABSPRI(w) = p /\ pe[w] # 0 =>
           pe[w] \in 1 .. Len(s) /\ s[pe[w]].w = w
  BY DEF Fits
<1> DEFINE ps == [q.pendings EXCEPT ![p] = s]
<1>1. q.pendings \in [Priorities -> Seq(Pendings)]
  BY QueueFacts
<1>2. /\ ps \in [Priorities -> Seq(Pendings)] /\ ps[p] = s
      /\ \A o \in Priorities : o # p => ps[o] = q.pendings[o]
  BY <1>0, <1>1
<1> HIDE DEF ps
<1>3. r.pendings = ps /\ r.pending = pe
  BY DEF ps
<1>4. r \in [pendings : [Priorities -> Seq(Pendings)], pending : [Watchers -> Nat]]
  BY <1>0, <1>2 DEF ps
<1>5. ASSUME NEW o \in Priorities, NEW i \in 1 .. Len(ps[o]), ps[o][i].w # pending_w
      PROVE  ABSPRI(ps[o][i].w) = o /\ pe[ps[o][i].w] = i
  <2>1. CASE o = p
    BY <1>0, <1>2, <1>5, <2>1
  <2>2. CASE o # p
    <3> DEFINE w == q.pendings[o][i].w
    <3>1. ps[o] = q.pendings[o]
      BY <1>2, <2>2
    <3>2. i \in 1 .. Len(q.pendings[o]) /\ w # pending_w
      BY <1>5, <3>1
    <3>3. w \in Watchers
      BY <3>2, QueueFacts
    <3>4. ABSPRI(w) = o /\ q.pending[w] = i
      BY <3>2 DEF QueueOK
    <3>5. QED
      BY <1>0, <2>2, <3>1, <3>3, <3>4
  <2>3. QED
    BY <2>1, <2>2
<1>6. ASSUME NEW w \in Watchers, pe[w] # 0
      PROVE  pe[w] \in 1 .. Len(ps[ABSPRI(w)]) /\ ps[ABSPRI(w)][pe[w]].w = w
  <2>1. CASE ABSPRI(w) = p
    BY <1>0, <1>2, <1>6, <2>1
  <2>2. CASE ABSPRI(w) # p
    <3>1. ps[ABSPRI(w)] = q.pendings[ABSPRI(w)]
      BY <1>2, <2>2, PriorityOf
    <3>2. pe[w] = q.pending[w]
      BY <1>0, <2>2
    <3>3. QED
      BY <1>6, <3>1, <3>2 DEF QueueOK
  <2>3. QED
    BY <2>1, <2>2
<1> QED  BY <1>3, <1>4, <1>5, <1>6 DEF QueueOK

\* Feeding a watcher makes it pending and changes nothing else.
LEMMA FeedKeepsQueue ==
  ASSUME NEW q, QueueOK(q), NEW w \in Watchers, NEW events \in SUBSET EventNames
  PROVE  QueueOK(Feed(q, w, events)) /\ Queued(Feed(q, w, events)) = Queued(q) \cup {w}
<1> DEFINE p == ABSPRI(w)
           s == q.pendings[p]
           k == q.pending[w]
<1>1. /\ q = [pendings |-> q.pendings, pending |-> q.pending]
      /\ q.pendings \in [Priorities -> Seq(Pendings)]
      /\ q.pending \in [Watchers -> Nat]
      /\ p \in Priorities /\ s \in Seq(Pendings) /\ Len(s) \in Nat
      /\ \A i \in 1 .. Len(s) : s[i] \in Pendings /\ s[i].w \in Watchers \cup {pending_w}
  BY QueueFacts, PriorityOf
<1>2. \A i \in 1 .. Len(s) : s[i].w # pending_w => ABSPRI(s[i].w) = p /\ q.pending[s[i].w] = i
  BY <1>1 DEF QueueOK
<1>3. \A v \in Watchers : ABSPRI(v) = p /\ q.pending[v] # 0 =>
        q.pending[v] \in 1 .. Len(s) /\ s[q.pending[v]].w = v
  BY DEF QueueOK
<1>4. w # pending_w
  BY WatchersAssumption
<1> HIDE DEF p
<1>5. CASE k # 0
  <2> DEFINE e == s[k]
             f == [e EXCEPT !.events = e.events \cup events]
             t == [s EXCEPT ![k] = f]
             r == [pendings |-> [q.pendings EXCEPT ![p] = t], pending |-> q.pending]
  <2>1. k \in 1 .. Len(s)
    BY <1>3, <1>5 DEF p
  <2>2. f \in Pendings /\ f.w = e.w
    <3>1. e \in Pendings
      BY <1>1, <2>1
    <3> HIDE DEF e
    <3>2. QED
      BY <3>1 DEF Pendings
  <2> HIDE DEF f
  <2>3. /\ t \in Seq(Pendings) /\ Len(t) = Len(s)
        /\ \A i \in 1 .. Len(s) : t[i].w = s[i].w
    BY <1>1, <2>1, <2>2
  <2>4. Feed(q, w, events) = r
    <3>1. Feed(q, w, events) = [q EXCEPT !.pendings[p][k].events = @ \cup events]
      BY <1>5 DEF Feed, p
    <3>2. [q EXCEPT !.pendings[p][k].events = @ \cup events]
            = [q EXCEPT !.pendings = [q.pendings EXCEPT ![p] = t]]
      BY <1>1, <2>1 DEF f
    <3> HIDE DEF t
    <3>3. QED
      BY <1>1, <3>1, <3>2
  <2> HIDE DEF t, s
  <2>5. Fits(q, p, t, q.pending)
    <3>1. ASSUME NEW i \in 1 .. Len(t), t[i].w # pending_w
          PROVE  ABSPRI(t[i].w) = p /\ q.pending[t[i].w] = i
      <4>1. i \in 1 .. Len(s) /\ t[i].w = s[i].w
        BY <2>3
      <4>2. QED
        BY <1>2, <3>1, <4>1
    <3>2. ASSUME NEW v \in Watchers, ABSPRI(v) = p, q.pending[v] # 0
          PROVE  q.pending[v] \in 1 .. Len(t) /\ t[q.pending[v]].w = v
      <4>1. q.pending[v] \in 1 .. Len(s) /\ s[q.pending[v]].w = v
        BY <1>3, <3>2
      <4>2. QED
        BY <2>3, <4>1
    <3>3. QED
      BY <1>1, <2>3, <3>1, <3>2 DEF Fits
  <2>6. QueueOK(r)
    BY <1>1, <2>5, QueueChanges
  <2>7. Queued(r) = Queued(q) \cup {w}
    BY <1>5 DEF Queued
  <2>8. QED
    BY <2>4, <2>6, <2>7
<1>6. CASE k = 0
  <2> DEFINE n == Len(s) + 1
             e == [w |-> w, events |-> events]
             t == Append(s, e)
             pe == [q.pending EXCEPT ![w] = n]
             r == [pendings |-> [q.pendings EXCEPT ![p] = t], pending |-> pe]
  <2>1. Feed(q, w, events) = r
    BY <1>6 DEF Feed, p
  <2>2. e \in Pendings /\ e.w = w
    BY DEF Pendings
  <2> HIDE DEF e, s, k
  <2>3. /\ t \in Seq(Pendings) /\ Len(t) = n /\ t[n] = e
        /\ \A i \in 1 .. Len(s) : t[i] = s[i]
    BY <1>1, <2>2
  <2>4. /\ pe \in [Watchers -> Nat] /\ pe[w] = n
        /\ \A v \in Watchers : v # w => pe[v] = q.pending[v]
    BY <1>1
  <2> HIDE DEF t, pe
  <2>5. ASSUME NEW i \in 1 .. Len(t), t[i].w # pending_w
        PROVE  ABSPRI(t[i].w) = p /\ pe[t[i].w] = i
    <3>1. CASE i = n
      BY <2>2, <2>3, <2>4, <3>1 DEF p
    <3>2. CASE i # n
      <4>1. i \in 1 .. Len(s) /\ t[i] = s[i]
        BY <1>1, <2>3, <3>2
      <4>2. ABSPRI(s[i].w) = p /\ q.pending[s[i].w] = i /\ i # 0
        BY <1>1, <1>2, <2>5, <4>1
      <4>3. s[i].w \in Watchers /\ s[i].w # w
        BY <1>1, <1>6, <2>5, <4>1, <4>2 DEF k
      <4>4. QED
        BY <2>4, <4>1, <4>2, <4>3
    <3>3. QED
      BY <3>1, <3>2
  <2>6. ASSUME NEW v \in Watchers, ABSPRI(v) = p, pe[v] # 0
        PROVE  pe[v] \in 1 .. Len(t) /\ t[pe[v]].w = v
    <3>1. CASE v = w
      BY <1>1, <2>2, <2>3, <2>4, <3>1
    <3>2. CASE v # w
      <4>1. q.pending[v] \in 1 .. Len(s) /\ s[q.pending[v]].w = v /\ pe[v] = q.pending[v]
        BY <1>3, <2>4, <2>6, <3>2
      <4>2. QED
        BY <1>1, <2>3, <4>1
    <3>3. QED
      BY <3>1, <3>2
  <2>7. \A v \in Watchers : ABSPRI(v) # p => pe[v] = q.pending[v]
    BY <2>4 DEF p
  <2>8. QueueOK(r)
    <3>1. Fits(q, p, t, pe)
      BY <2>3, <2>4, <2>5, <2>6, <2>7 DEF Fits
    <3>2. QED
      BY <1>1, <3>1, QueueChanges
  <2>9. Queued(r) = Queued(q) \cup {w}
    <3>1. n # 0
      BY <1>1
    <3>2. QED
      BY <2>4, <3>1 DEF Queued
  <2>10. QED
    BY <2>1, <2>8, <2>9
<1> QED  BY <1>5, <1>6

\* Clearing a watcher takes it out and changes nothing else.
LEMMA ClearKeepsQueue ==
  ASSUME NEW q, QueueOK(q), NEW w \in Watchers
  PROVE  QueueOK(ClearPending(q, w)) /\ Queued(ClearPending(q, w)) = Queued(q) \ {w}
<1> DEFINE p == ABSPRI(w)
           s == q.pendings[p]
           k == q.pending[w]
<1>1. /\ q = [pendings |-> q.pendings, pending |-> q.pending]
      /\ q.pendings \in [Priorities -> Seq(Pendings)]
      /\ q.pending \in [Watchers -> Nat]
      /\ p \in Priorities /\ s \in Seq(Pendings) /\ Len(s) \in Nat
      /\ \A i \in 1 .. Len(s) : s[i] \in Pendings /\ s[i].w \in Watchers \cup {pending_w}
  BY QueueFacts, PriorityOf
<1>2. \A i \in 1 .. Len(s) : s[i].w # pending_w => ABSPRI(s[i].w) = p /\ q.pending[s[i].w] = i
  BY <1>1 DEF QueueOK
<1>3. \A v \in Watchers : ABSPRI(v) = p /\ q.pending[v] # 0 =>
        q.pending[v] \in 1 .. Len(s) /\ s[q.pending[v]].w = v
  BY DEF QueueOK
<1> HIDE DEF p
<1>4. CASE k = 0
  <2>1. ClearPending(q, w) = q
    BY <1>4 DEF ClearPending
  <2>2. QED
    BY <1>4, <2>1 DEF Queued
<1>5. CASE k # 0
  <2> DEFINE e == s[k]
             f == [e EXCEPT !.w = pending_w]
             t == [s EXCEPT ![k] = f]
             pe == [q.pending EXCEPT ![w] = 0]
             r == [pendings |-> [q.pendings EXCEPT ![p] = t], pending |-> pe]
  <2>1. k \in 1 .. Len(s)
    BY <1>3, <1>5 DEF p
  <2>2. f \in Pendings /\ f.w = pending_w
    <3>1. e \in Pendings
      BY <1>1, <2>1
    <3> HIDE DEF e
    <3>2. QED
      BY <3>1 DEF Pendings
  <2>3. ClearPending(q, w) = r
    <3>1. ClearPending(q, w) = [pendings |-> [q.pendings EXCEPT ![p][k].w = pending_w],
                                pending |-> pe]
      BY <1>5 DEF ClearPending, p
    <3>2. [q.pendings EXCEPT ![p][k].w = pending_w] = [q.pendings EXCEPT ![p] = t]
      BY <1>1, <2>1
    <3>3. QED
      BY <3>1, <3>2
  <2> HIDE DEF f, k, s
  <2>4. /\ t \in Seq(Pendings) /\ Len(t) = Len(s)
        /\ \A i \in 1 .. Len(s) : t[i] = IF i = k THEN f ELSE s[i]
    BY <1>1, <2>1, <2>2
  <2>5. /\ pe \in [Watchers -> Nat] /\ pe[w] = 0
        /\ \A v \in Watchers : v # w => pe[v] = q.pending[v]
    BY <1>1
  <2> HIDE DEF t, pe
  <2>6. ASSUME NEW i \in 1 .. Len(t), t[i].w # pending_w
        PROVE  ABSPRI(t[i].w) = p /\ pe[t[i].w] = i
    <3>1. i \in 1 .. Len(s) /\ i # k /\ t[i] = s[i]
      BY <2>2, <2>4, <2>6
    <3>2. s[i].w \in Watchers /\ q.pending[s[i].w] = i /\ ABSPRI(s[i].w) = p
      BY <1>1, <1>2, <2>6, <3>1
    <3>3. s[i].w # w
      BY <3>1, <3>2 DEF k
    <3>4. QED
      BY <2>5, <3>1, <3>2, <3>3
  <2>7. ASSUME NEW v \in Watchers, ABSPRI(v) = p, pe[v] # 0
        PROVE  pe[v] \in 1 .. Len(t) /\ t[pe[v]].w = v
    <3>1. v # w /\ pe[v] = q.pending[v]
      BY <2>5, <2>7
    <3>2. q.pending[v] \in 1 .. Len(s) /\ s[q.pending[v]].w = v
      BY <1>3, <2>7, <3>1
    <3>3. q.pending[v] # k
      BY <1>3, <1>5, <3>1, <3>2 DEF k, p
    <3>4. QED
      BY <2>4, <3>1, <3>2, <3>3
  <2>8. \A v \in Watchers : ABSPRI(v) # p => pe[v] = q.pending[v]
    BY <2>5 DEF p
  <2>9. QueueOK(r)
    <3>1. Fits(q, p, t, pe)
      BY <2>4, <2>5, <2>6, <2>7, <2>8 DEF Fits
    <3>2. QED
      BY <1>1, <3>1, QueueChanges
  <2>10. Queued(r) = Queued(q) \ {w}
    BY <2>5 DEF Queued
  <2>11. QED
    BY <2>3, <2>9, <2>10
<1> QED  BY <1>4, <1>5

\* A sequence without its last element.
LEMMA ShorterSequence ==
  ASSUME NEW S, NEW s \in Seq(S), Len(s) \in 1 .. Len(s)
  PROVE  LET t == SubSeq(s, 1, Len(s) - 1)
         IN  /\ t \in Seq(S) /\ Len(t) = Len(s) - 1
             /\ \A i \in 1 .. Len(s) - 1 : t[i] = s[i]
<1>1. Len(s) \in Nat /\ Len(s) - 1 \in Nat
  OBVIOUS
<1>2. SubSeq(s, 1, Len(s) - 1) = [i \in 1 .. Len(s) - 1 |-> s[i]]
  BY <1>1
<1>3. \A i \in 1 .. Len(s) - 1 : s[i] \in S
  BY <1>1
<1> DEFINE m == Len(s) - 1
           t == [i \in 1 .. m |-> s[i]]
<1>4. m \in Nat /\ \A i \in 1 .. m : s[i] \in S
  BY <1>1, <1>3
<1> HIDE DEF m
<1>5. t \in Seq(S) /\ Len(t) = m /\ \A i \in 1 .. m : t[i] = s[i]
  BY <1>4
<1> QED  BY <1>2, <1>5 DEF m

\* Taking the last event of a queue out leaves what else is pending.
LEMMA PopKeepsQueue ==
  ASSUME NEW q, QueueOK(q), NEW p \in Priorities, q.pendings[p] # << >>
  PROVE  LET e == q.pendings[p][Len(q.pendings[p])]
             r == [pendings |-> [q.pendings EXCEPT ![p] = SubSeq(@, 1, Len(@) - 1)],
                   pending |-> IF e.w = pending_w THEN q.pending
                               ELSE [q.pending EXCEPT ![e.w] = 0]]
         IN  QueueOK(r) /\ Queued(r) \subseteq Queued(q) /\ e.w \in Watchers \cup {pending_w}
<1> DEFINE s == q.pendings[p]
           n == Len(s)
           e == s[n]
           t == SubSeq(s, 1, n - 1)
           pe == IF e.w = pending_w THEN q.pending ELSE [q.pending EXCEPT ![e.w] = 0]
           r == [pendings |-> [q.pendings EXCEPT ![p] = t], pending |-> pe]
<1>1. /\ q.pendings \in [Priorities -> Seq(Pendings)]
      /\ q.pending \in [Watchers -> Nat]
      /\ s \in Seq(Pendings) /\ n \in Nat
      /\ \A i \in 1 .. n : s[i] \in Pendings /\ s[i].w \in Watchers \cup {pending_w}
  BY QueueFacts
<1>2. \A i \in 1 .. n : s[i].w # pending_w => ABSPRI(s[i].w) = p /\ q.pending[s[i].w] = i
  BY <1>1 DEF QueueOK
<1>3. \A v \in Watchers : ABSPRI(v) = p /\ q.pending[v] # 0 =>
        q.pending[v] \in 1 .. n /\ s[q.pending[v]].w = v
  BY DEF QueueOK
<1>4. [q.pendings EXCEPT ![p] = SubSeq(@, 1, Len(@) - 1)] = [q.pendings EXCEPT ![p] = t]
  BY <1>1
<1> HIDE DEF s
<1>5. n \in 1 .. n
  BY <1>1 DEF s
<1>6. /\ t \in Seq(Pendings) /\ Len(t) = n - 1
      /\ \A i \in 1 .. n - 1 : t[i] = s[i]
  BY <1>1, <1>5, ShorterSequence DEF n
<1> HIDE DEF t, n, e
<1>7. /\ pe \in [Watchers -> Nat]
      /\ \A v \in Watchers : pe[v] = IF v = e.w THEN 0 ELSE q.pending[v]
  BY <1>1, WatchersAssumption
<1> HIDE DEF pe
<1>8. ASSUME NEW i \in 1 .. Len(t), t[i].w # pending_w
      PROVE  ABSPRI(t[i].w) = p /\ pe[t[i].w] = i
  <2>1. i \in 1 .. n /\ i # n /\ t[i] = s[i]
    BY <1>1, <1>6
  <2>2. s[i].w \in Watchers /\ ABSPRI(s[i].w) = p /\ q.pending[s[i].w] = i
    BY <1>1, <1>2, <1>8, <2>1
  <2>3. s[i].w # e.w
    BY <1>2, <1>5, <1>8, <2>1, <2>2 DEF e
  <2>4. QED
    BY <1>7, <2>1, <2>2, <2>3
<1>9. ASSUME NEW v \in Watchers, ABSPRI(v) = p, pe[v] # 0
      PROVE  pe[v] \in 1 .. Len(t) /\ t[pe[v]].w = v
  <2>1. v # e.w /\ pe[v] = q.pending[v]
    BY <1>7, <1>9
  <2>2. q.pending[v] \in 1 .. n /\ s[q.pending[v]].w = v
    BY <1>3, <1>9, <2>1
  <2>3. q.pending[v] # n
    BY <2>1, <2>2 DEF e
  <2>4. q.pending[v] \in 1 .. n - 1
    BY <1>1, <2>2, <2>3
  <2>5. QED
    BY <1>6, <2>1, <2>2, <2>4
<1>10. ASSUME NEW v \in Watchers, ABSPRI(v) # p
       PROVE  pe[v] = q.pending[v]
  <2>1. v # e.w
    BY <1>2, <1>5, <1>10, WatchersAssumption DEF e
  <2>2. QED
    BY <1>7, <2>1
<1>11. QueueOK(r)
  <2>1. Fits(q, p, t, pe)
    BY <1>6, <1>7, <1>8, <1>9, <1>10 DEF Fits
  <2>2. QED
    BY <2>1, QueueChanges
<1>12. Queued(r) \subseteq Queued(q)
  BY <1>7 DEF Queued
<1>13. e.w \in Watchers \cup {pending_w}
  BY <1>1, <1>5 DEF e
<1> QED  BY <1>4, <1>11, <1>12, <1>13 DEF pe, e, n, s

\* The queue is what it is set to.
LEMMA QueueIsSet ==
  ASSUME NEW q, QueueOK(q), SetQueue(q)
  PROVE  Queue' = q
BY QueueFacts DEF SetQueue, Queue

-----------------------------------------------------------------------------
(* Repetitions *)

Queues == {q \in [pendings : [Priorities -> Seq(Pendings)], pending : [Watchers -> Nat]] :
             QueueOK(q)}

LEMMA QueuesAre ==
  ASSUME NEW q
  PROVE  q \in Queues <=> QueueOK(q)
BY DEF Queues, QueueOK

\* f[i] is the queue after i of the watchers have been fed.
FedStepwise(f, q, ws, events) ==
  /\ FeedAll(q, ws, events) = f[Len(ws)]
  /\ f[0] = q
  /\ \A i \in 1 .. Len(ws) : f[i] = Feed(f[i - 1], ws[i], events)

\* FeedAll is one ev_feed_event after the other.
LEMMA FeedAllUnfolds ==
  ASSUME NEW q, QueueOK(q), NEW ws \in Seq(Watchers), NEW events \in SUBSET EventNames
  PROVE  \E f : FedStepwise(f, q, ws, events)
<1> DEFINE n == Len(ws)
           Body(g) == [i \in 0 .. n |-> IF i = 0 THEN q ELSE Feed(g[i - 1], ws[i], events)]
           F == [i \in 1 .. n |-> [r \in Queues |-> Feed(r, ws[i], events)]]
           fed == CHOOSE g : g = Body(g)
<1>1. n \in Nat /\ \A i \in 1 .. n : ws[i] \in Watchers
  OBVIOUS
<1>2. F \in [1 .. n -> [Queues -> Queues]]
  <2>1. ASSUME NEW i \in 1 .. n, NEW r \in Queues
        PROVE  Feed(r, ws[i], events) \in Queues
    BY <1>1, QueuesAre, FeedKeepsQueue
  <2>2. QED
    BY <2>1
<1>3. q \in Queues
  BY QueuesAre
<1> HIDE DEF n
<1>4. PICK f : Rounds(f, n, Queues, q, F)
  <2> HIDE DEF F
  <2> QED  BY <1>1, <1>2, <1>3, Iteration
<1>5. f = Body(f)
  <2>1. ASSUME NEW i \in 0 .. n
        PROVE  f[i] = IF i = 0 THEN q ELSE Feed(f[i - 1], ws[i], events)
    <3>1. CASE i = 0
      BY <1>4, <3>1 DEF Rounds
    <3>2. CASE i # 0
      <4>1. i \in 1 .. n /\ f[i - 1] \in Queues
        BY <1>1, <1>4, <3>2 DEF Rounds
      <4>2. f[i] = F[i][f[i - 1]]
        BY <1>4, <4>1 DEF Rounds
      <4>3. F[i][f[i - 1]] = Feed(f[i - 1], ws[i], events)
        BY <4>1
      <4>4. QED
        BY <3>2, <4>2, <4>3
    <3>3. QED
      BY <3>1, <3>2
  <2>2. f = [i \in 0 .. n |-> f[i]]
    BY <1>4 DEF Rounds
  <2> HIDE DEF F
  <2>3. QED
    BY <2>1, <2>2
<1>6. fed = Body(fed)
  <2> HIDE DEF Body
  <2> QED  BY <1>5
<1>7. FeedAll(q, ws, events) = fed[n]
  BY DEF FeedAll, n
<1> HIDE DEF fed
<1>8. fed[0] = q /\ \A i \in 1 .. n : fed[i] = Feed(fed[i - 1], ws[i], events)
  <2>1. ASSUME NEW i \in 0 .. n
        PROVE  fed[i] = IF i = 0 THEN q ELSE Feed(fed[i - 1], ws[i], events)
    BY <1>6
  <2>2. 0 \in 0 .. n /\ \A i \in 1 .. n : i \in 0 .. n /\ i # 0
    BY <1>1
  <2>3. QED
    BY <2>1, <2>2
<1>9. FedStepwise(fed, q, ws, events)
  BY <1>7, <1>8 DEF n, FedStepwise
<1> QED  BY <1>9

\* Feeding watchers makes them pending and nothing else.
LEMMA FeedAllKeepsQueue ==
  ASSUME NEW q, QueueOK(q), NEW ws \in Seq(Watchers), NEW events \in SUBSET EventNames
  PROVE  /\ QueueOK(FeedAll(q, ws, events))
         /\ Queued(FeedAll(q, ws, events)) = Queued(q) \cup {ws[i] : i \in 1 .. Len(ws)}
<1>0. PICK f : FedStepwise(f, q, ws, events)
  BY FeedAllUnfolds
<1> DEFINE n == Len(ws)
<1>1. /\ FeedAll(q, ws, events) = f[n]
      /\ f[0] = q
      /\ \A i \in 1 .. n : f[i] = Feed(f[i - 1], ws[i], events)
  BY <1>0 DEF FedStepwise
<1>2. n \in Nat /\ \A i \in 1 .. n : ws[i] \in Watchers
  OBVIOUS
<1> HIDE DEF n
<1> DEFINE S == {i \in 0 .. n : /\ QueueOK(f[i])
                                /\ Queued(f[i]) = Queued(q) \cup {ws[j] : j \in 1 .. i}}
<1>3. 0 \in S
  BY <1>1, <1>2
<1>4. ASSUME NEW i \in 1 .. n, i - 1 \in S
      PROVE  i \in S
  <2>1. /\ QueueOK(f[i - 1]) /\ ws[i] \in Watchers
        /\ f[i] = Feed(f[i - 1], ws[i], events)
        /\ Queued(f[i - 1]) = Queued(q) \cup {ws[j] : j \in 1 .. i - 1}
    BY <1>1, <1>2, <1>4
  <2>2. QueueOK(f[i]) /\ Queued(f[i]) = Queued(f[i - 1]) \cup {ws[i]}
    BY <2>1, FeedKeepsQueue
  <2>3. \A j \in 1 .. i : j \in 1 .. i - 1 \/ j = i
    BY <1>2
  <2>4. (1 .. i - 1) \subseteq 1 .. i /\ i \in 1 .. i /\ i \in 0 .. n
    BY <1>2
  <2>5. {ws[j] : j \in 1 .. i - 1} \cup {ws[i]} = {ws[j] : j \in 1 .. i}
    BY <2>3, <2>4
  <2>6. QED
    BY <2>1, <2>2, <2>4, <2>5
<1>5. n \in S
  <2> HIDE DEF S
  <2> QED  BY <1>2, <1>3, <1>4, Climb
<1> QED  BY <1>1, <1>5 DEF n

-----------------------------------------------------------------------------
(* The invariant *)

\* What the backends keep, and the kernel's table of epoll.
Descriptors ==
  [head : Seq(Watchers), events : {{}, Read}, reify : SUBSET {"IOFDSET", "REIFY"},
   emask : {{}, Read}, egen : Nat]

Tables ==
  [anfds    : [AllFds -> Descriptors],
   epoll    : [AllFds -> [events : {Read}, egen : Nat] \cup {None}],
   polls    : Seq(AllFds),
   pollidxs : [AllFds -> Nat],
   vec_ri   : SUBSET AllFds]

Current == [anfds |-> anfds, epoll |-> epoll, polls |-> polls, pollidxs |-> pollidxs,
            vec_ri |-> vec_ri]

\* A descriptor with changed watchers is not registered with epoll, and if it has
\* watchers it got them with EV__IOFDSET; what poll and select are called with follows
\* the field events, which is up to date when the watchers have not changed.
Told(b, s, f) ==
  LET a == s.anfds[f]
  IN  /\ a.reify = {} => a.events = IF a.head = << >> THEN {} ELSE Read
      /\ a.reify # {} /\ a.head # << >> => "IOFDSET" \in a.reify
      /\ b = "epoll" =>
           s.epoll[f] = IF a.reify = {} /\ a.head # << >>
                        THEN [events |-> Read, egen |-> a.egen] ELSE None
      /\ b = "poll" => (s.pollidxs[f] # 0 <=> a.events = Read)
      /\ b = "select" => (f \in s.vec_ri <=> a.events = Read)

\* Every entry of polls is where pollidxs says, and there are no others.
PollsAgree(s) ==
  /\ \A i \in 1 .. Len(s.polls) : s.pollidxs[s.polls[i]] = i
  /\ \A f \in AllFds : s.pollidxs[f] # 0 =>
       s.pollidxs[f] \in 1 .. Len(s.polls) /\ s.polls[s.pollidxs[f]] = f

TablesOK(b, s) == s \in Tables /\ PollsAgree(s) /\ \A f \in AllFds : Told(b, s, f)

\* A socket that is watched is the only watcher of its descriptor, which is open.
SocketsOK ==
  /\ fd \in [Ios -> AllFds \cup {None}]
  /\ \A w \in Ios : fd[w] # None =>
       fd[w] # evpipe /\ fd[w] \in open /\ anfds[fd[w]].head = <<w>>
  /\ \A f \in AllFds \ {evpipe} : anfds[f].head # << >> => \E w \in Ios : fd[w] = f
  /\ anfds[evpipe].head \in {<< >>, <<pipe_w>>}
  /\ \A w \in Ios : w \in stopped => fd[w] = None

\* What has changed is noted in fdchanges.
ChangesOK ==
  /\ fdchanges \in Seq(AllFds)
  /\ \A f \in AllFds : anfds[f].reify # {} => \E i \in 1 .. Len(fdchanges) : fdchanges[i] = f

\* May the callback of w run?
MayCallBack(w) == w \notin stopped /\ (w \in Timers /\ repeat[w] = 0 => heap.active[w] = 0)

\* A timer that is stopped is not in the heap; one found due may be served.
TimersOK ==
  /\ HeapOK(heap, Timers) /\ repeat \in [Timers -> Nat]
  /\ \A t \in Timers : t \in stopped => heap.active[t] = 0
  /\ rfeeds \in Seq(Timers)
  /\ \A i \in 1 .. Len(rfeeds) : MayCallBack(rfeeds[i])

PendingOK == QueueOK(Queue) /\ \A w \in Queued(Queue) : MayCallBack(w)

\* A signal that is not yet noticed wakes the loop.
SignalsOK ==
  /\ handled \subseteq SignalSet
  /\ pipe_write_skipped \in BOOLEAN /\ sig_pending \in BOOLEAN /\ pipe_write_wanted \in BOOLEAN
  /\ phase # "program" => handled = SignalSet
  /\ phase \in {"decide", "poll"} => pipe_write_wanted
  /\ sig_pending => phase = "pipecb" \/ evpipe \in ready \/ pipe_write_skipped

\* Nothing has changed since the backend was told, and the sleep ends in time.
SleepOK ==
  /\ phase \in {"decide", "poll"} => \A f \in AllFds : anfds[f].reify = {}
  /\ phase = "poll" =>
       /\ \A i \in 1 .. Len(heap.timers) : wake <= heap.timers[i].at \/ wake <= backend_mintime
       /\ sig_pending => evpipe \in ready \/ wake = 0

\* The descriptors and what the backends are told of them.
IoInv ==
  /\ backend \in Backends /\ open \subseteq AllFds
  /\ TablesOK(backend, Current) /\ SocketsOK /\ ChangesOK

\* The timers and what is pending.
WatcherInv == stopped \subseteq Timers \cup Ios /\ TimersOK /\ PendingOK

\* Where ev_run is, and what may still end the sleep.
PhaseInv ==
  /\ clock \in Nat /\ ready \subseteq AllFds
  /\ phase # "timers" => rfeeds = << >>
  /\ SignalsOK /\ SleepOK

LoopInv == IoInv /\ WatcherInv /\ PhaseInv

-----------------------------------------------------------------------------
(* What the backends are told *)

Wanted(head) == IF head = << >> THEN {} ELSE Read

\* The entry a and the tables of the backends are news of the descriptor f alone.
News(b, s, f, a, ep, po, px, vr) ==
  /\ a \in Descriptors /\ a.head = s.anfds[f].head
  /\ a.reify = {} /\ a.events = Wanted(a.head)
  /\ ep \in [AllFds -> [events : {Read}, egen : Nat] \cup {None}]
  /\ po \in Seq(AllFds) /\ px \in [AllFds -> Nat] /\ vr \in SUBSET AllFds
  /\ \A g \in AllFds : g # f =>
       /\ ep[g] = s.epoll[g]
       /\ px[g] # 0 <=> s.pollidxs[g] # 0
       /\ g \in vr <=> g \in s.vec_ri
  /\ \A i \in 1 .. Len(po) : px[po[i]] = i
  /\ \A g \in AllFds : px[g] # 0 => px[g] \in 1 .. Len(po) /\ po[px[g]] = g
  /\ b = "epoll" => ep[f] = IF a.head # << >> THEN [events |-> Read, egen |-> a.egen] ELSE None
  /\ b = "poll" => (px[f] # 0 <=> a.events = Read)
  /\ b = "select" => (f \in vr <=> a.events = Read)

\* r is s but for the descriptor f, whose changes the backend has been told.
Retold(b, s, r, f) ==
  /\ TablesOK(b, r)
  /\ r.anfds[f].reify = {}
  /\ \A g \in AllFds : r.anfds[g].head = s.anfds[g].head
  /\ \A g \in AllFds : g # f => r.anfds[g] = s.anfds[g]

\* News of one descriptor are right for it and leave the others as they are.
LEMMA NewsAreTold ==
  ASSUME NEW b, NEW s, TablesOK(b, s), NEW f \in AllFds, NEW a, NEW ep, NEW po, NEW px, NEW vr,
         News(b, s, f, a, ep, po, px, vr)
  PROVE  Retold(b, s, [anfds |-> [s.anfds EXCEPT ![f] = a], epoll |-> ep, polls |-> po,
                       pollidxs |-> px, vec_ri |-> vr], f)
<1> DEFINE an == [s.anfds EXCEPT ![f] = a]
           r == [anfds |-> an, epoll |-> ep, polls |-> po, pollidxs |-> px, vec_ri |-> vr]
<1>1. s.anfds \in [AllFds -> Descriptors]
  BY DEF TablesOK, Tables
<1>2. /\ an \in [AllFds -> Descriptors] /\ an[f] = a
      /\ \A g \in AllFds : g # f => an[g] = s.anfds[g]
  BY <1>1 DEF News
<1> HIDE DEF an
<1>3. r \in Tables
  BY <1>2 DEF News, Tables
<1>4. PollsAgree(r)
  BY DEF News, PollsAgree
<1>5. ASSUME NEW g \in AllFds
      PROVE  Told(b, r, g)
  <2>1. CASE g = f
    BY <1>2, <2>1 DEF News, Told, Wanted
  <2>2. CASE g # f
    <3>1. /\ r.anfds[g] = s.anfds[g] /\ r.epoll[g] = s.epoll[g]
          /\ r.pollidxs[g] # 0 <=> s.pollidxs[g] # 0
          /\ g \in r.vec_ri <=> g \in s.vec_ri
      BY <1>2, <2>2 DEF News
    <3>2. Told(b, s, g)
      BY DEF TablesOK
    <3> HIDE DEF r
    <3>3. QED
      BY <3>1, <3>2 DEF Told
  <2>3. QED
    BY <2>1, <2>2
<1>6. TablesOK(b, r)
  BY <1>3, <1>4, <1>5 DEF TablesOK
<1>7. r.anfds[f].reify = {} /\ \A g \in AllFds : r.anfds[g].head = s.anfds[g].head
  BY <1>2 DEF News
<1>8. \A g \in AllFds : g # f => r.anfds[g] = s.anfds[g]
  BY <1>2
<1> QED  BY <1>6, <1>7, <1>8 DEF Retold, an

\* The tables in parts.
LEMMA TableFacts ==
  ASSUME NEW b, NEW s, TablesOK(b, s)
  PROVE  /\ s = [anfds |-> s.anfds, epoll |-> s.epoll, polls |-> s.polls,
                 pollidxs |-> s.pollidxs, vec_ri |-> s.vec_ri]
         /\ s.anfds \in [AllFds -> Descriptors]
         /\ s.epoll \in [AllFds -> [events : {Read}, egen : Nat] \cup {None}]
         /\ s.polls \in Seq(AllFds) /\ s.pollidxs \in [AllFds -> Nat]
         /\ s.vec_ri \in SUBSET AllFds
         /\ Len(s.polls) \in Nat
         /\ \A i \in 1 .. Len(s.polls) : s.polls[i] \in AllFds /\ s.pollidxs[s.polls[i]] = i
         /\ \A g \in AllFds : s.pollidxs[g] # 0 =>
              s.pollidxs[g] \in 1 .. Len(s.polls) /\ s.polls[s.pollidxs[g]] = g
         /\ \A f \in AllFds :
              /\ s.anfds[f] \in Descriptors
              /\ s.anfds[f] = [head |-> s.anfds[f].head, events |-> s.anfds[f].events,
                               reify |-> s.anfds[f].reify, emask |-> s.anfds[f].emask,
                               egen |-> s.anfds[f].egen]
<1>1. s \in Tables /\ PollsAgree(s)
  BY DEF TablesOK
<1>2. /\ s = [anfds |-> s.anfds, epoll |-> s.epoll, polls |-> s.polls,
              pollidxs |-> s.pollidxs, vec_ri |-> s.vec_ri]
      /\ s.anfds \in [AllFds -> Descriptors]
      /\ s.epoll \in [AllFds -> [events : {Read}, egen : Nat] \cup {None}]
      /\ s.polls \in Seq(AllFds) /\ s.pollidxs \in [AllFds -> Nat]
      /\ s.vec_ri \in SUBSET AllFds
  BY <1>1 DEF Tables
<1>3. Len(s.polls) \in Nat /\ \A i \in 1 .. Len(s.polls) : s.polls[i] \in AllFds
  BY <1>2
<1>4. \A a \in Descriptors : a = [head |-> a.head, events |-> a.events, reify |-> a.reify,
                                  emask |-> a.emask, egen |-> a.egen]
  BY DEF Descriptors
<1> QED  BY <1>1, <1>2, <1>3, <1>4 DEF PollsAgree

\* One field of the tables, or of a descriptor, changes.
LEMMA TablesExcept ==
  ASSUME NEW s \in Tables, NEW n
  PROVE  /\ [s EXCEPT !.anfds = n] = [anfds |-> n, epoll |-> s.epoll, polls |-> s.polls,
                                      pollidxs |-> s.pollidxs, vec_ri |-> s.vec_ri]
         /\ [s EXCEPT !.epoll = n] = [anfds |-> s.anfds, epoll |-> n, polls |-> s.polls,
                                      pollidxs |-> s.pollidxs, vec_ri |-> s.vec_ri]
         /\ [s EXCEPT !.polls = n] = [anfds |-> s.anfds, epoll |-> s.epoll, polls |-> n,
                                      pollidxs |-> s.pollidxs, vec_ri |-> s.vec_ri]
         /\ [s EXCEPT !.pollidxs = n] = [anfds |-> s.anfds, epoll |-> s.epoll,
                                         polls |-> s.polls, pollidxs |-> n, vec_ri |-> s.vec_ri]
         /\ [s EXCEPT !.vec_ri = n] = [anfds |-> s.anfds, epoll |-> s.epoll, polls |-> s.polls,
                                       pollidxs |-> s.pollidxs, vec_ri |-> n]
<1> DEFINE A == [AllFds -> Descriptors]
           E == [AllFds -> [events : {Read}, egen : Nat] \cup {None}]
           P == Seq(AllFds)
           X == [AllFds -> Nat]
           V == SUBSET AllFds
<1>0. s \in [anfds : A, epoll : E, polls : P, pollidxs : X, vec_ri : V]
  BY DEF Tables
<1> HIDE DEF A, E, P, X, V
<1>1. [s EXCEPT !.anfds = n]
        = [anfds |-> n, epoll |-> s.epoll,
           polls |-> s.polls, pollidxs |-> s.pollidxs, vec_ri |-> s.vec_ri]
  BY <1>0
<1>2. [s EXCEPT !.epoll = n]
        = [anfds |-> s.anfds, epoll |-> n,
           polls |-> s.polls, pollidxs |-> s.pollidxs, vec_ri |-> s.vec_ri]
  BY <1>0
<1>3. [s EXCEPT !.polls = n]
        = [anfds |-> s.anfds, epoll |-> s.epoll,
           polls |-> n, pollidxs |-> s.pollidxs, vec_ri |-> s.vec_ri]
  BY <1>0
<1>4. [s EXCEPT !.pollidxs = n]
        = [anfds |-> s.anfds, epoll |-> s.epoll,
           polls |-> s.polls, pollidxs |-> n, vec_ri |-> s.vec_ri]
  BY <1>0
<1>5. [s EXCEPT !.vec_ri = n]
        = [anfds |-> s.anfds, epoll |-> s.epoll,
           polls |-> s.polls, pollidxs |-> s.pollidxs, vec_ri |-> n]
  BY <1>0
<1> QED  BY <1>1, <1>2, <1>3, <1>4, <1>5

LEMMA DescriptorExcept ==
  ASSUME NEW d \in Descriptors, NEW n
  PROVE  /\ [d EXCEPT !.head = n] = [head |-> n, events |-> d.events, reify |-> d.reify,
                                     emask |-> d.emask, egen |-> d.egen]
         /\ [d EXCEPT !.events = n] = [head |-> d.head, events |-> n, reify |-> d.reify,
                                       emask |-> d.emask, egen |-> d.egen]
         /\ [d EXCEPT !.reify = n] = [head |-> d.head, events |-> d.events, reify |-> n,
                                      emask |-> d.emask, egen |-> d.egen]
         /\ [d EXCEPT !.emask = n] = [head |-> d.head, events |-> d.events, reify |-> d.reify,
                                      emask |-> n, egen |-> d.egen]
         /\ [d EXCEPT !.egen = n] = [head |-> d.head, events |-> d.events, reify |-> d.reify,
                                     emask |-> d.emask, egen |-> n]
BY DEF Descriptors

\* epoll is told the events of a descriptor that is new to it.
LEMMA EpollIsTold ==
  ASSUME backend = "epoll", NEW s, TablesOK("epoll", s), NEW f \in AllFds, NEW c \in Descriptors,
         c.head = s.anfds[f].head, c.reify = {}, c.events = Wanted(c.head), c.head # << >>,
         s.epoll[f] = None
  PROVE  Retold("epoll", s, backend_modify([s EXCEPT !.anfds = [s.anfds EXCEPT ![f] = c]],
                                           f, s.anfds[f].events, Read), f)
<1> DEFINE an  == [s.anfds EXCEPT ![f] = c]
           clean == [anfds |-> an, epoll |-> s.epoll, polls |-> s.polls,
                     pollidxs |-> s.pollidxs, vec_ri |-> s.vec_ri]
           g   == (c.egen + 1) % EgenMod
           d   == [head |-> c.head, events |-> c.events, reify |-> c.reify, emask |-> Read,
                   egen |-> g]
           x   == [events |-> Read, egen |-> g]
           ep  == [s.epoll EXCEPT ![f] = x]
           r   == [anfds |-> [s.anfds EXCEPT ![f] = d], epoll |-> ep, polls |-> s.polls,
                   pollidxs |-> s.pollidxs, vec_ri |-> s.vec_ri]
<1>1. /\ s = [anfds |-> s.anfds, epoll |-> s.epoll, polls |-> s.polls,
              pollidxs |-> s.pollidxs, vec_ri |-> s.vec_ri]
      /\ s.anfds \in [AllFds -> Descriptors]
      /\ s.epoll \in [AllFds -> [events : {Read}, egen : Nat] \cup {None}]
      /\ s.polls \in Seq(AllFds) /\ s.pollidxs \in [AllFds -> Nat]
      /\ s.vec_ri \in SUBSET AllFds
  BY TableFacts
<1>2. [s EXCEPT !.anfds = an] = clean
  <2>1. s \in Tables
    BY DEF TablesOK
  <2> HIDE DEF an
  <2>2. QED
    BY <2>1, TablesExcept
<1>3. an \in [AllFds -> Descriptors] /\ an[f] = c
  BY <1>1
<1>4. c = [head |-> c.head, events |-> c.events, reify |-> c.reify, emask |-> c.emask,
           egen |-> c.egen] /\ c.egen \in Nat
  BY DEF Descriptors
<1>5. g \in Nat
  <2> DEFINE e == c.egen + 1
  <2>1. e \in Nat /\ EgenMod \in Nat /\ EgenMod > 0
    BY <1>4, BoundsAssumption
  <2> HIDE DEF e
  <2>2. e % EgenMod \in Nat
    BY <2>1
  <2>3. QED
    BY <2>2 DEF e
<1>6. epoll_modify(clean, f, s.anfds[f].events, Read)
        = [clean EXCEPT !.anfds[f].emask = Read, !.anfds[f].egen = g, !.epoll[f] = x]
  <2>1. Read # {} /\ clean.epoll[f] = None /\ clean.anfds[f].egen = c.egen
    BY <1>3 DEF Read
  <2> HIDE DEF clean, x, g
  <2>2. QED
    BY <2>1 DEF epoll_modify, g, x
<1>7. [clean EXCEPT !.anfds[f].emask = Read, !.anfds[f].egen = g, !.epoll[f] = x] = r
  <2> DEFINE c1 == [head |-> c.head, events |-> c.events, reify |-> c.reify, emask |-> Read,
                    egen |-> c.egen]
             an1 == [an EXCEPT ![f] = c1]
             an2 == [an1 EXCEPT ![f] = d]
  <2>1. [c EXCEPT !.emask = Read] = c1 /\ c1 \in Descriptors
    BY DescriptorExcept DEF Descriptors
  <2>2. [c1 EXCEPT !.egen = g] = d /\ d \in Descriptors
    <3> DEFINE e == c1
    <3>1. [e EXCEPT !.egen = g] = [head |-> e.head, events |-> e.events, reify |-> e.reify,
                                   emask |-> e.emask, egen |-> g]
      <4> HIDE DEF e, g
      <4> QED  BY <2>1, DescriptorExcept DEF e
    <3> HIDE DEF g
    <3>2. QED
      BY <1>5, <3>1 DEF Descriptors
  <2> HIDE DEF x, c1, d, g
  <2>3. /\ an1 \in [AllFds -> Descriptors] /\ an1[f] = c1
        /\ an2 \in [AllFds -> Descriptors]
    BY <1>3, <2>1, <2>2
  <2>4. [an EXCEPT ![f].emask = Read] = an1 /\ [an1 EXCEPT ![f].egen = g] = an2
    BY <1>3, <2>1, <2>2, <2>3
  <2>5. an2 = [s.anfds EXCEPT ![f] = d]
    BY <1>1
  <2> HIDE DEF an1, an2, an
  <2> DEFINE t1 == [anfds |-> an1, epoll |-> s.epoll, polls |-> s.polls,
                    pollidxs |-> s.pollidxs, vec_ri |-> s.vec_ri]
             t2 == [anfds |-> an2, epoll |-> s.epoll, polls |-> s.polls,
                    pollidxs |-> s.pollidxs, vec_ri |-> s.vec_ri]
             t3 == [anfds |-> an2, epoll |-> ep, polls |-> s.polls,
                    pollidxs |-> s.pollidxs, vec_ri |-> s.vec_ri]
  <2>6. clean \in Tables /\ t1 \in Tables /\ t2 \in Tables
    BY <1>1, <1>3, <2>3 DEF Tables
  <2>7. [clean EXCEPT !.anfds[f].emask = Read] = t1
    BY <2>4
  <2>8. [t1 EXCEPT !.anfds[f].egen = g] = t2
    BY <2>4
  <2>9. [t2 EXCEPT !.epoll[f] = x] = t3
    OBVIOUS
  <2> HIDE DEF clean, t1, t2
  <2>10. [clean EXCEPT !.anfds[f].emask = Read, !.anfds[f].egen = g, !.epoll[f] = x] = t3
    BY <2>7, <2>8, <2>9
  <2>11. QED
    BY <2>5, <2>10
<1>8. backend_modify(clean, f, s.anfds[f].events, Read) = r
  <2> HIDE DEF clean, r, x, g
  <2> QED  BY <1>6, <1>7 DEF backend_modify
<1>9. News("epoll", s, f, d, ep, s.polls, s.pollidxs, s.vec_ri)
  <2>1. /\ d \in Descriptors /\ d.head = s.anfds[f].head
        /\ d.reify = {} /\ d.events = Wanted(d.head)
        /\ d.head = c.head /\ d.egen = g
    <3> HIDE DEF g
    <3> QED  BY <1>5 DEF Descriptors
  <2>2. x \in [events : {Read}, egen : Nat]
    <3> HIDE DEF g
    <3> QED  BY <1>5
  <2> HIDE DEF d, x, g
  <2>3. /\ ep \in [AllFds -> [events : {Read}, egen : Nat] \cup {None}]
        /\ ep[f] = x /\ \A h \in AllFds : h # f => ep[h] = s.epoll[h]
    BY <1>1, <2>2
  <2>4. ep[f] = [events |-> Read, egen |-> d.egen]
    BY <2>1, <2>3 DEF x
  <2> HIDE DEF ep
  <2>5. PollsAgree(s)
    BY DEF TablesOK
  <2>6. QED
    BY <1>1, <2>1, <2>3, <2>4, <2>5 DEF News, PollsAgree
<1> QED
  <2> HIDE DEF clean, r, d, ep, an
  <2>1. Retold("epoll", s, r, f)
    BY <1>9, NewsAreTold DEF r
  <2>2. QED
    BY <1>2, <1>8, <2>1 DEF an

\* Every entry of po is where px says, and there are no others.
Agree(po, px) ==
  /\ po \in Seq(AllFds) /\ px \in [AllFds -> Nat]
  /\ \A i \in 1 .. Len(po) : px[po[i]] = i
  /\ \A g \in AllFds : px[g] # 0 => px[g] \in 1 .. Len(po) /\ po[px[g]] = g

\* What poll_modify makes of polls and pollidxs when it takes f out.
PollsWithout(po, px, f) ==
  LET t == SubSeq(po, 1, Len(po) - 1)
  IN  IF px[f] = Len(po) THEN t ELSE [t EXCEPT ![px[f]] = po[Len(po)]]

PlacesWithout(po, px, f) ==
  IF px[f] = Len(po) THEN [px EXCEPT ![f] = 0]
  ELSE [[px EXCEPT ![f] = 0] EXCEPT ![po[Len(po)]] = px[f]]

\* po and px are what s has but for the descriptor f, which is among them if in is true.
NewPolls(s, f, in, po, px) ==
  /\ Agree(po, px)
  /\ px[f] # 0 <=> in
  /\ \A g \in AllFds : g # f => (px[g] # 0 <=> s.pollidxs[g] # 0)

\* Taking f out of polls: the last entry moves to its place.
LEMMA RemovalAgrees ==
  ASSUME NEW po, NEW px, Agree(po, px), NEW f \in AllFds, px[f] # 0
  PROVE  LET py == PlacesWithout(po, px, f)
         IN  /\ Agree(PollsWithout(po, px, f), py) /\ py[f] = 0
             /\ \A g \in AllFds : g # f => (py[g] # 0 <=> px[g] # 0)
<1> DEFINE n == Len(po)
           k == px[f]
           last == po[n]
           t == SubSeq(po, 1, n - 1)
           pt == IF k = n THEN t ELSE [t EXCEPT ![k] = last]
           py == IF k = n THEN [px EXCEPT ![f] = 0]
                 ELSE [[px EXCEPT ![f] = 0] EXCEPT ![last] = k]
<1>1. /\ po \in Seq(AllFds) /\ px \in [AllFds -> Nat] /\ n \in Nat
      /\ \A i \in 1 .. n : po[i] \in AllFds /\ px[po[i]] = i
      /\ \A g \in AllFds : px[g] # 0 => px[g] \in 1 .. n /\ po[px[g]] = g
  BY DEF Agree
<1>2. k \in 1 .. n /\ po[k] = f /\ n \in 1 .. n
  BY <1>1
<1>3. last \in AllFds /\ px[last] = n
  BY <1>1, <1>2
<1>4. /\ t \in Seq(AllFds) /\ Len(t) = n - 1
      /\ \A i \in 1 .. n - 1 : t[i] = po[i]
  BY <1>1, <1>2, ShorterSequence
<1> HIDE DEF t, n, k, last
<1>5. /\ pt \in Seq(AllFds) /\ Len(pt) = n - 1
      /\ \A i \in 1 .. n - 1 : pt[i] = IF i = k THEN last ELSE po[i]
  <2>1. CASE k = n
    BY <1>1, <1>4, <2>1
  <2>2. CASE k # n
    <3>1. k \in 1 .. n - 1
      BY <1>1, <1>2, <2>2
    <3>2. [t EXCEPT ![k] = last] \in Seq(AllFds) /\ Len([t EXCEPT ![k] = last]) = n - 1
      BY <1>3, <1>4, <3>1
    <3>3. \A i \in 1 .. n - 1 : [t EXCEPT ![k] = last][i] = IF i = k THEN last ELSE po[i]
      BY <1>4, <3>1
    <3>4. QED
      BY <2>2, <3>2, <3>3
  <2>3. QED
    BY <2>1, <2>2
<1>6. k = n <=> f = last
  BY <1>1, <1>2, <1>3 DEF k, last
<1>7. /\ py \in [AllFds -> Nat]
      /\ \A g \in AllFds : py[g] = IF g = f THEN 0 ELSE IF g = last THEN k ELSE px[g]
  <2>1. CASE k = n
    BY <1>1, <1>6, <2>1
  <2>2. CASE k # n
    BY <1>1, <1>2, <1>6, <2>2
  <2>3. QED
    BY <2>1, <2>2
<1> HIDE DEF pt, py
<1>8. ASSUME NEW i \in 1 .. Len(pt)
      PROVE  py[pt[i]] = i
  <2>1. i \in 1 .. n - 1 /\ i \in 1 .. n /\ i # n
    BY <1>1, <1>5
  <2>2. CASE i = k
    <3>1. pt[i] = last /\ last # f
      BY <1>5, <1>6, <2>1, <2>2
    <3>2. QED
      BY <1>3, <1>7, <2>2, <3>1
  <2>3. CASE i # k
    <3>1. pt[i] = po[i] /\ po[i] \in AllFds /\ px[po[i]] = i
      BY <1>1, <1>5, <2>1, <2>3
    <3>2. po[i] # f /\ po[i] # last
      BY <1>3, <2>1, <2>3, <3>1 DEF k
    <3>3. QED
      BY <1>7, <3>1, <3>2
  <2>4. QED
    BY <2>2, <2>3
<1>9. ASSUME NEW g \in AllFds, py[g] # 0
      PROVE  py[g] \in 1 .. Len(pt) /\ pt[py[g]] = g
  <2>1. g # f
    BY <1>7, <1>9
  <2>2. CASE g = last
    <3>1. py[g] = k /\ k # n
      BY <1>6, <1>7, <2>1, <2>2
    <3>2. k \in 1 .. n - 1
      BY <1>1, <1>2, <3>1
    <3>3. QED
      BY <1>5, <2>2, <3>1, <3>2
  <2>3. CASE g # last
    <3>1. py[g] = px[g]
      BY <1>7, <2>1, <2>3
    <3>2. px[g] \in 1 .. n /\ po[px[g]] = g
      BY <1>1, <1>9, <3>1
    <3>3. px[g] # n /\ px[g] # k
      BY <1>2, <2>1, <2>3, <3>2 DEF last
    <3>4. px[g] \in 1 .. n - 1
      BY <1>1, <3>2, <3>3
    <3>5. QED
      BY <1>5, <3>1, <3>2, <3>3, <3>4
  <2>4. QED
    BY <2>2, <2>3
<1>10. Agree(pt, py)
  BY <1>5, <1>7, <1>8, <1>9 DEF Agree
<1>11. py[f] = 0 /\ \A g \in AllFds : g # f => (py[g] # 0 <=> px[g] # 0)
  <2>1. k # 0 /\ n # 0
    BY <1>1, <1>2
  <2>2. QED
    BY <1>3, <1>7, <2>1
<1> QED  BY <1>10, <1>11 DEF pt, py, k, n, t, last, PollsWithout, PlacesWithout

\* Adding f to polls.
LEMMA AdditionAgrees ==
  ASSUME NEW po, NEW px, Agree(po, px), NEW f \in AllFds, px[f] = 0
  PROVE  LET py == [px EXCEPT ![f] = Len(po) + 1]
         IN  /\ Agree(Append(po, f), py) /\ py[f] # 0
             /\ \A g \in AllFds : g # f => (py[g] # 0 <=> px[g] # 0)
<1> DEFINE n == Len(po)
           pt == Append(po, f)
           py == [px EXCEPT ![f] = n + 1]
<1>1. /\ po \in Seq(AllFds) /\ px \in [AllFds -> Nat] /\ n \in Nat
      /\ \A i \in 1 .. n : po[i] \in AllFds /\ px[po[i]] = i
      /\ \A g \in AllFds : px[g] # 0 => px[g] \in 1 .. n /\ po[px[g]] = g
  BY DEF Agree
<1>2. /\ pt \in Seq(AllFds) /\ Len(pt) = n + 1 /\ pt[n + 1] = f
      /\ \A i \in 1 .. n : pt[i] = po[i]
  BY <1>1
<1> HIDE DEF n
<1>3. /\ py \in [AllFds -> Nat] /\ py[f] = n + 1
      /\ \A g \in AllFds : g # f => py[g] = px[g]
  BY <1>1
<1> HIDE DEF pt, py
<1>4. ASSUME NEW i \in 1 .. Len(pt)
      PROVE  py[pt[i]] = i
  <2>1. CASE i = n + 1
    BY <1>2, <1>3, <2>1
  <2>2. CASE i # n + 1
    <3>1. i \in 1 .. n /\ i # 0
      BY <1>1, <1>2, <2>2
    <3>2. pt[i] = po[i] /\ po[i] \in AllFds /\ px[po[i]] = i
      BY <1>1, <1>2, <3>1
    <3>3. QED
      BY <1>3, <3>1, <3>2
  <2>3. QED
    BY <2>1, <2>2
<1>5. ASSUME NEW g \in AllFds, py[g] # 0
      PROVE  py[g] \in 1 .. Len(pt) /\ pt[py[g]] = g
  <2>1. CASE g = f
    BY <1>1, <1>2, <1>3, <2>1
  <2>2. CASE g # f
    <3>1. py[g] = px[g] /\ px[g] \in 1 .. n /\ po[px[g]] = g
      BY <1>1, <1>3, <1>5, <2>2
    <3>2. QED
      BY <1>1, <1>2, <3>1
  <2>3. QED
    BY <2>1, <2>2
<1>6. Agree(pt, py)
  BY <1>1, <1>2, <1>3, <1>4, <1>5 DEF Agree
<1>7. py[f] # 0 /\ \A g \in AllFds : g # f => (py[g] # 0 <=> px[g] # 0)
  BY <1>1, <1>3
<1> QED  BY <1>6, <1>7 DEF pt, py, n

\* What poll_modify does to the tables.
LEMMA RemovalOf ==
  ASSUME NEW s \in Tables, NEW f \in AllFds
  PROVE  PollRemove(s, f) = [anfds |-> s.anfds, epoll |-> s.epoll,
                             polls |-> PollsWithout(s.polls, s.pollidxs, f),
                             pollidxs |-> PlacesWithout(s.polls, s.pollidxs, f),
                             vec_ri |-> s.vec_ri]
<1> DEFINE n == Len(s.polls)
           last == s.polls[n]
           t == SubSeq(s.polls, 1, n - 1)
           k == s.pollidxs[f]
           px == [s.pollidxs EXCEPT ![f] = 0]
           With(po, pi) == [anfds |-> s.anfds, epoll |-> s.epoll, polls |-> po,
                            pollidxs |-> pi, vec_ri |-> s.vec_ri]
<1>1. [s EXCEPT !.pollidxs[f] = 0, !.polls = SubSeq(@, 1, Len(@) - 1)] = With(t, px)
  <2>1. [s EXCEPT !.pollidxs[f] = 0] = With(s.polls, px)
    <3>1. [s EXCEPT !.pollidxs[f] = 0] = [s EXCEPT !.pollidxs = px]
      OBVIOUS
    <3> HIDE DEF px
    <3>2. QED
      BY <3>1, TablesExcept
  <2> HIDE DEF px, t
  <2>2. [With(s.polls, px) EXCEPT !.polls = t] = With(t, px)
    OBVIOUS
  <2>3. With(s.polls, px).polls = s.polls
    OBVIOUS
  <2> HIDE DEF With
  <2>4. QED
    BY <2>1, <2>2, <2>3 DEF t
<1>2. CASE k = n
  <2> HIDE DEF With, px, t
  <2>1. PollRemove(s, f) = With(t, px)
    BY <1>1, <1>2 DEF PollRemove
  <2>2. QED
    BY <1>2, <2>1 DEF PollsWithout, PlacesWithout, With, px, t
<1>3. CASE k # n
  <2> DEFINE pt == [t EXCEPT ![k] = last]
             py == [px EXCEPT ![last] = k]
  <2>1. PollRemove(s, f) = [With(t, px) EXCEPT !.polls[k] = last, !.pollidxs[last] = k]
    <3> HIDE DEF With, px, t
    <3> QED  BY <1>1, <1>3 DEF PollRemove
  <2>2. [With(t, px) EXCEPT !.polls[k] = last, !.pollidxs[last] = k] = With(pt, py)
    <3> HIDE DEF t, px, last, k
    <3>1. [With(t, px) EXCEPT !.polls[k] = last] = With(pt, px)
      OBVIOUS
    <3>2. [With(pt, px) EXCEPT !.pollidxs[last] = k] = With(pt, py)
      <4> HIDE DEF pt
      <4> QED  OBVIOUS
    <3> HIDE DEF With, pt, py
    <3>3. QED
      BY <3>1, <3>2
  <2>3. QED
    <3> HIDE DEF pt, py
    <3> QED  BY <1>3, <2>1, <2>2 DEF PollsWithout, PlacesWithout, pt, py
<1> QED  BY <1>2, <1>3

\* After poll_modify the descriptor is in polls exactly if it is wanted.
LEMMA PollIsTold ==
  ASSUME backend = "poll", NEW s, TablesOK("poll", s), NEW f \in AllFds, NEW c \in Descriptors,
         c.head = s.anfds[f].head, c.reify = {}, c.events = Wanted(c.head)
  PROVE  Retold("poll", s, backend_modify([s EXCEPT !.anfds = [s.anfds EXCEPT ![f] = c]],
                                          f, s.anfds[f].events, c.events), f)
<1> DEFINE an  == [s.anfds EXCEPT ![f] = c]
           With(po, px) == [anfds |-> an, epoll |-> s.epoll, polls |-> po, pollidxs |-> px,
                            vec_ri |-> s.vec_ri]
           clean == With(s.polls, s.pollidxs)
           oev == s.anfds[f].events
           nev == c.events
           r   == poll_modify(clean, f, oev, nev)
           New(po, px) == NewPolls(s, f, nev = Read, po, px)
<1>1. /\ s.anfds \in [AllFds -> Descriptors]
      /\ s.epoll \in [AllFds -> [events : {Read}, egen : Nat] \cup {None}]
      /\ s.polls \in Seq(AllFds) /\ s.pollidxs \in [AllFds -> Nat]
      /\ s.vec_ri \in SUBSET AllFds /\ s \in Tables
  BY TableFacts DEF TablesOK
<1>2. [s EXCEPT !.anfds = an] = clean
  <2> HIDE DEF an
  <2> QED  BY <1>1, TablesExcept
<1>3. an \in [AllFds -> Descriptors] /\ an[f] = c
  BY <1>1
<1>4. backend_modify(clean, f, oev, nev) = r
  <2> HIDE DEF clean, r
  <2> QED  BY DEF backend_modify, r
<1>5. Agree(s.polls, s.pollidxs)
  BY <1>1 DEF TablesOK, PollsAgree, Agree
<1>6. s.pollidxs[f] # 0 <=> oev = Read
  BY DEF TablesOK, Told
<1>7. oev \in {{}, Read} /\ nev \in {{}, Read} /\ Read # {}
  BY <1>1 DEF Descriptors, Read
<1>8. clean \in Tables
  BY <1>1, <1>3 DEF Tables
<1>9. \E po, px : New(po, px) /\ r = With(po, px)
  <2>1. CASE oev = nev
    <3>1. r = With(s.polls, s.pollidxs)
      <4> HIDE DEF With
      <4> QED  BY <2>1 DEF poll_modify
    <3>2. New(s.polls, s.pollidxs)
      BY <1>5, <1>6, <2>1 DEF NewPolls
    <3> HIDE DEF With, r, New
    <3>3. \E po, px : New(po, px) /\ r = With(po, px)
      BY <3>1, <3>2
    <3>4. QED
      BY <3>3
  <2>2. CASE oev # nev /\ nev = {}
    <3> DEFINE pt == PollsWithout(s.polls, s.pollidxs, f)
               py == PlacesWithout(s.polls, s.pollidxs, f)
    <3>1. s.pollidxs[f] # 0
      BY <1>6, <1>7, <2>2
    <3>2. New(pt, py)
      <4>1. /\ Agree(pt, py) /\ py[f] = 0
            /\ \A g \in AllFds : g # f => (py[g] # 0 <=> s.pollidxs[g] # 0)
        BY <1>5, <3>1, RemovalAgrees
      <4> HIDE DEF pt, py
      <4>2. QED
        BY <1>7, <2>2, <4>1 DEF NewPolls
    <3>3. r = PollRemove(clean, f)
      <4> HIDE DEF clean
      <4> QED  BY <2>2 DEF poll_modify
    <3>4. PollRemove(clean, f) = With(pt, py)
      <4>1. /\ clean.polls = s.polls /\ clean.pollidxs = s.pollidxs /\ clean.anfds = an
            /\ clean.epoll = s.epoll /\ clean.vec_ri = s.vec_ri
        OBVIOUS
      <4> HIDE DEF clean, an
      <4>2. QED
        BY <1>8, <4>1, RemovalOf
    <3> HIDE DEF With, r, New, pt, py, clean
    <3>5. r = With(pt, py)
      BY <3>3, <3>4
    <3>6. QED
      BY <3>2, <3>5
  <2>3. CASE oev # nev /\ nev # {}
    <3> DEFINE m == Len(s.polls) + 1
               pt == Append(s.polls, f)
               py == [s.pollidxs EXCEPT ![f] = m]
    <3>1. s.pollidxs[f] = 0 /\ nev = Read
      BY <1>6, <1>7, <2>3
    <3>2. New(pt, py)
      <4>1. /\ Agree(pt, py) /\ py[f] # 0
            /\ \A g \in AllFds : g # f => (py[g] # 0 <=> s.pollidxs[g] # 0)
        BY <1>5, <3>1, AdditionAgrees
      <4> HIDE DEF pt, py
      <4>2. QED
        BY <3>1, <4>1 DEF NewPolls
    <3>3. r = [clean EXCEPT !.polls = pt, !.pollidxs[f] = m]
      <4>1. clean.polls = s.polls /\ clean.pollidxs = s.pollidxs
        OBVIOUS
      <4> HIDE DEF clean
      <4>2. QED
        BY <2>3, <3>1, <4>1 DEF poll_modify
    <3>4. [clean EXCEPT !.polls = pt, !.pollidxs[f] = m] = With(pt, py)
      <4> HIDE DEF an, pt, m
      <4>1. [clean EXCEPT !.polls = pt] = With(pt, s.pollidxs)
        OBVIOUS
      <4>2. [With(pt, s.pollidxs) EXCEPT !.pollidxs[f] = m] = With(pt, py)
        OBVIOUS
      <4> HIDE DEF clean, With, py
      <4>3. QED
        BY <4>1, <4>2
    <3> HIDE DEF With, r, New, pt, py, clean
    <3>5. r = With(pt, py)
      BY <3>3, <3>4
    <3>6. QED
      BY <3>2, <3>5
  <2>4. QED
    BY <2>1, <2>2, <2>3
<1>10. Retold("poll", s, r, f)
  <2>1. PICK po, px : New(po, px) /\ r = With(po, px)
    BY <1>9
  <2>2. News("poll", s, f, c, s.epoll, po, px, s.vec_ri)
    BY <1>1, <1>7, <2>1 DEF News, Agree, NewPolls
  <2> HIDE DEF New, r
  <2>3. QED
    BY <2>1, <2>2, NewsAreTold
<1> QED
  <2> HIDE DEF clean, r, an
  <2> QED  BY <1>2, <1>4, <1>10 DEF an

\* After select_modify the descriptor is in vec_ri exactly if it is wanted.
LEMMA SelectIsTold ==
  ASSUME backend = "select", NEW s, TablesOK("select", s), NEW f \in AllFds,
         NEW c \in Descriptors,
         c.head = s.anfds[f].head, c.reify = {}, c.events = Wanted(c.head)
  PROVE  Retold("select", s, backend_modify([s EXCEPT !.anfds = [s.anfds EXCEPT ![f] = c]],
                                            f, s.anfds[f].events, c.events), f)
<1> DEFINE an  == [s.anfds EXCEPT ![f] = c]
           clean == [anfds |-> an, epoll |-> s.epoll, polls |-> s.polls,
                     pollidxs |-> s.pollidxs, vec_ri |-> s.vec_ri]
           oev == s.anfds[f].events
           nev == c.events
           vr  == IF oev = nev THEN s.vec_ri
                  ELSE IF nev = {} THEN s.vec_ri \ {f} ELSE s.vec_ri \cup {f}
           r   == select_modify(clean, f, oev, nev)
<1>1. /\ s.anfds \in [AllFds -> Descriptors]
      /\ s.epoll \in [AllFds -> [events : {Read}, egen : Nat] \cup {None}]
      /\ s.polls \in Seq(AllFds) /\ s.pollidxs \in [AllFds -> Nat]
      /\ s.vec_ri \in SUBSET AllFds /\ s \in Tables /\ PollsAgree(s)
  BY TableFacts DEF TablesOK
<1>2. [s EXCEPT !.anfds = an] = clean
  <2> HIDE DEF an
  <2> QED  BY <1>1, TablesExcept
<1>3. backend_modify(clean, f, oev, nev) = r
  <2> HIDE DEF clean, r
  <2> QED  BY DEF backend_modify, r
<1>4. f \in s.vec_ri <=> oev = Read
  BY DEF TablesOK, Told
<1>5. oev \in {{}, Read} /\ nev \in {{}, Read} /\ Read # {}
  BY <1>1 DEF Descriptors, Read
<1>6. r = [anfds |-> an, epoll |-> s.epoll, polls |-> s.polls,
           pollidxs |-> s.pollidxs, vec_ri |-> vr]
  <2>1. clean.vec_ri = s.vec_ri
    OBVIOUS
  <2>2. r = IF oev = nev THEN clean ELSE [clean EXCEPT !.vec_ri = vr]
    <3> HIDE DEF clean
    <3> QED  BY <2>1 DEF select_modify
  <2>3. ASSUME NEW v
        PROVE  [clean EXCEPT !.vec_ri = v] = [anfds |-> an, epoll |-> s.epoll,
                  polls |-> s.polls, pollidxs |-> s.pollidxs, vec_ri |-> v]
    <3> HIDE DEF an
    <3> QED  OBVIOUS
  <2>4. CASE oev = nev
    BY <2>2, <2>4
  <2>5. CASE oev # nev
    <3> HIDE DEF clean, r, vr
    <3> QED  BY <2>2, <2>3, <2>5
  <2>6. QED
    BY <2>4, <2>5
<1>7. News("select", s, f, c, s.epoll, s.polls, s.pollidxs, vr)
  <2>1. /\ vr \in SUBSET AllFds /\ (f \in vr <=> nev = Read)
        /\ \A g \in AllFds : g # f => (g \in vr <=> g \in s.vec_ri)
    BY <1>1, <1>4, <1>5
  <2> HIDE DEF vr
  <2>2. \A i \in 1 .. Len(s.polls) : s.pollidxs[s.polls[i]] = i
    BY <1>1 DEF PollsAgree
  <2>3. \A g \in AllFds : s.pollidxs[g] # 0 =>
          s.pollidxs[g] \in 1 .. Len(s.polls) /\ s.polls[s.pollidxs[g]] = g
    BY <1>1 DEF PollsAgree
  <2>4. QED
    BY <1>1, <2>1, <2>2, <2>3 DEF News
<1> QED
  <2> HIDE DEF clean, r, vr
  <2>1. Retold("select", s, r, f)
    BY <1>6, <1>7, NewsAreTold
  <2> HIDE DEF an
  <2>2. QED
    BY <1>2, <1>3, <2>1 DEF an

\* One round of fd_reify tells the backend of one descriptor.
LEMMA ReifiedIsTold ==
  ASSUME backend \in Backends, NEW s, TablesOK(backend, s), NEW f \in AllFds
  PROVE  Retold(backend, s, Reified(s, f), f)
<1> DEFINE a  == s.anfds[f]
           ev == Wanted(a.head)
           c  == [head |-> a.head, events |-> ev, reify |-> {}, emask |-> a.emask,
                  egen |-> a.egen]
           an == [s.anfds EXCEPT ![f] = c]
           clean == [s EXCEPT !.anfds = an]
<1>1. /\ s.anfds \in [AllFds -> Descriptors]
      /\ s.epoll \in [AllFds -> [events : {Read}, egen : Nat] \cup {None}]
      /\ s.polls \in Seq(AllFds) /\ s.pollidxs \in [AllFds -> Nat]
      /\ s.vec_ri \in SUBSET AllFds /\ s \in Tables /\ a \in Descriptors
      /\ Told(backend, s, f) /\ PollsAgree(s)
  BY TableFacts DEF TablesOK
<1>2. /\ c \in Descriptors /\ c.head = s.anfds[f].head /\ c.reify = {}
      /\ c.events = Wanted(c.head) /\ c.events = ev /\ c.egen = a.egen
  <2> DEFINE e == ev
  <2>1. e \in {{}, Read}
    BY DEF Wanted
  <2> HIDE DEF e
  <2>2. [head |-> a.head, events |-> e, reify |-> {}, emask |-> a.emask, egen |-> a.egen]
          \in Descriptors
    BY <1>1, <2>1 DEF Descriptors
  <2>3. QED
    BY <2>2 DEF e
<1>3. [s EXCEPT !.anfds[f].events = ev, !.anfds[f].reify = {}] = clean
  <2> DEFINE e  == ev
             c1 == [head |-> a.head, events |-> e, reify |-> a.reify, emask |-> a.emask,
                    egen |-> a.egen]
             an1 == [s.anfds EXCEPT ![f] = c1]
             u   == [s EXCEPT !.anfds = an1]
  <2>0. e \in {{}, Read}
    BY DEF Wanted
  <2> HIDE DEF e
  <2>1. [a EXCEPT !.events = e] = c1 /\ c1 \in Descriptors
    BY <1>1, <2>0, DescriptorExcept DEF Descriptors
  <2>2. [c1 EXCEPT !.reify = {}] = [head |-> a.head, events |-> e, reify |-> {},
                                    emask |-> a.emask, egen |-> a.egen]
    OBVIOUS
  <2>3. c = [head |-> a.head, events |-> e, reify |-> {}, emask |-> a.emask, egen |-> a.egen]
    BY DEF e
  <2> HIDE DEF c1, c
  <2>4. an1 \in [AllFds -> Descriptors] /\ an1[f] = c1 /\ DOMAIN an1 = AllFds
    BY <1>1, <2>1
  <2>5. [s.anfds EXCEPT ![f].events = e] = an1
    BY <1>1, <2>1
  <2>6. [an1 EXCEPT ![f].reify = {}] = an
    BY <1>1, <2>2, <2>3, <2>4
  <2> HIDE DEF an1, an
  <2>7. [s EXCEPT !.anfds[f].events = e] = u
    BY <2>5
  <2>8. u = [anfds |-> an1, epoll |-> s.epoll, polls |-> s.polls, pollidxs |-> s.pollidxs,
             vec_ri |-> s.vec_ri]
    BY <1>1, TablesExcept
  <2>9. [u EXCEPT !.anfds[f].reify = {}]
          = [anfds |-> an, epoll |-> s.epoll, polls |-> s.polls, pollidxs |-> s.pollidxs,
             vec_ri |-> s.vec_ri]
    <3>1. u.anfds = an1
      BY <2>8
    <3> DEFINE v == [anfds |-> an1, epoll |-> s.epoll, polls |-> s.polls,
                     pollidxs |-> s.pollidxs, vec_ri |-> s.vec_ri]
    <3>2. [v EXCEPT !.anfds[f].reify = {}]
          = [anfds |-> an, epoll |-> s.epoll, polls |-> s.polls, pollidxs |-> s.pollidxs,
             vec_ri |-> s.vec_ri]
      BY <2>6
    <3> HIDE DEF v, u
    <3>3. QED
      BY <2>8, <3>2 DEF v
  <2>10. clean = [anfds |-> an, epoll |-> s.epoll, polls |-> s.polls, pollidxs |-> s.pollidxs,
                  vec_ri |-> s.vec_ri]
    BY <1>1, TablesExcept
  <2> HIDE DEF clean, u
  <2>11. [s EXCEPT !.anfds[f].events = e, !.anfds[f].reify = {}] = clean
    BY <2>7, <2>9, <2>10
  <2>12. QED
    BY <2>11 DEF e
<1>4. Reified(s, f) = IF a.events # ev \/ "IOFDSET" \in a.reify
                      THEN backend_modify(clean, f, a.events, ev) ELSE clean
  <2>1. ev = IF a.head = << >> THEN {} ELSE Read
    BY DEF Wanted
  <2> HIDE DEF clean
  <2>2. QED
    BY <1>3, <2>1 DEF Reified
<1>5. ASSUME Reified(s, f) = clean,
             backend = "epoll" => s.epoll[f] = IF a.head # << >>
                                    THEN [events |-> Read, egen |-> a.egen] ELSE None,
             a.events = ev
      PROVE  Retold(backend, s, Reified(s, f), f)
  <2>1. News(backend, s, f, c, s.epoll, s.polls, s.pollidxs, s.vec_ri)
    <3>1. \A i \in 1 .. Len(s.polls) : s.pollidxs[s.polls[i]] = i
      BY <1>1 DEF PollsAgree
    <3>2. \A g \in AllFds : s.pollidxs[g] # 0 =>
            s.pollidxs[g] \in 1 .. Len(s.polls) /\ s.polls[s.pollidxs[g]] = g
      BY <1>1 DEF PollsAgree
    <3>3. /\ backend = "poll" => (s.pollidxs[f] # 0 <=> a.events = Read)
          /\ backend = "select" => (f \in s.vec_ri <=> a.events = Read)
      BY <1>1 DEF Told
    <3> HIDE DEF c, ev
    <3>4. QED
      BY <1>1, <1>2, <1>5, <3>1, <3>2, <3>3 DEF News
  <2>2. clean = [anfds |-> an, epoll |-> s.epoll, polls |-> s.polls, pollidxs |-> s.pollidxs,
                  vec_ri |-> s.vec_ri]
    <3> HIDE DEF an
    <3> QED  BY <1>1, TablesExcept
  <2> HIDE DEF clean, c
  <2>3. QED
    BY <1>5, <2>1, <2>2, NewsAreTold
<1>6. CASE a.events = ev /\ "IOFDSET" \notin a.reify
  <2>1. Reified(s, f) = clean
    BY <1>4, <1>6
  <2>2. backend = "epoll" => s.epoll[f] = IF a.head # << >>
                              THEN [events |-> Read, egen |-> a.egen] ELSE None
    BY <1>1, <1>6 DEF Told
  <2> HIDE DEF clean, ev
  <2>3. QED
    BY <1>5, <1>6, <2>1, <2>2
<1>7. CASE a.events # ev \/ "IOFDSET" \in a.reify
  <2>0. Reified(s, f) = backend_modify(clean, f, a.events, ev)
    BY <1>4, <1>7
  <2>1. CASE backend = "epoll" /\ a.head # << >>
    <3>1. a.reify # {}
      BY <1>1, <1>7 DEF Told, Wanted
    <3>2. s.epoll[f] = None /\ ev = Read
      BY <1>1, <2>1, <3>1 DEF Told, Wanted
    <3> HIDE DEF c
    <3>3. QED
      BY <1>2, <2>0, <2>1, <3>2, EpollIsTold
  <2>2. CASE backend = "epoll" /\ a.head = << >>
    <3>1. s.epoll[f] = None /\ ev = {}
      BY <1>1, <2>2 DEF Told, Wanted
    <3>2. backend_modify(clean, f, a.events, ev) = clean
      <4> HIDE DEF clean, ev
      <4> QED  BY <2>2, <3>1 DEF backend_modify, epoll_modify
    <3>3. News(backend, s, f, c, s.epoll, s.polls, s.pollidxs, s.vec_ri)
      <4>1. \A i \in 1 .. Len(s.polls) : s.pollidxs[s.polls[i]] = i
        BY <1>1 DEF PollsAgree
      <4>2. \A g \in AllFds : s.pollidxs[g] # 0 =>
              s.pollidxs[g] \in 1 .. Len(s.polls) /\ s.polls[s.pollidxs[g]] = g
        BY <1>1 DEF PollsAgree
      <4> HIDE DEF c, ev
      <4>3. QED
        BY <1>1, <1>2, <2>2, <3>1, <4>1, <4>2 DEF News
    <3>4. clean = [anfds |-> an, epoll |-> s.epoll, polls |-> s.polls,
                   pollidxs |-> s.pollidxs, vec_ri |-> s.vec_ri]
      <4> HIDE DEF an
      <4> QED  BY <1>1, TablesExcept
    <3> HIDE DEF clean, c
    <3>5. QED
      BY <2>0, <3>2, <3>3, <3>4, NewsAreTold
  <2>3. CASE backend = "poll"
    <3> HIDE DEF c, ev
    <3> QED  BY <1>2, <2>0, <2>3, PollIsTold
  <2>4. CASE backend = "select"
    <3> HIDE DEF c, ev
    <3> QED  BY <1>2, <2>0, <2>4, SelectIsTold
  <2>5. QED
    BY <2>1, <2>2, <2>3, <2>4 DEF Backends
<1> QED  BY <1>6, <1>7

\* What fd_reify makes of the tables s.
AllReified(s, fs) ==
  LET reified[i \in 0 .. Len(fs)] == IF i = 0 THEN s ELSE Reified(reified[i - 1], fs[i])
  IN  reified[Len(fs)]

\* f[i] is what the backends know after i rounds of fd_reify.
ReifiedStepwise(f, s, fs) ==
  /\ AllReified(s, fs) = f[Len(fs)]
  /\ f[0] = s
  /\ \A i \in 1 .. Len(fs) : f[i] = Reified(f[i - 1], fs[i])

\* fd_reify is one round after the other.
LEMMA AllReifiedUnfolds ==
  ASSUME backend \in Backends, NEW s, TablesOK(backend, s), NEW fs \in Seq(AllFds)
  PROVE  \E f : ReifiedStepwise(f, s, fs)
<1> DEFINE n == Len(fs)
           Q == {q \in Tables : TablesOK(backend, q)}
           Body(g) == [i \in 0 .. n |-> IF i = 0 THEN s ELSE Reified(g[i - 1], fs[i])]
           F == [i \in 1 .. n |-> [r \in Q |-> Reified(r, fs[i])]]
           fed == CHOOSE g : g = Body(g)
<1>1. n \in Nat /\ \A i \in 1 .. n : fs[i] \in AllFds
  OBVIOUS
<1>2. \A q : q \in Q <=> TablesOK(backend, q)
  BY DEF TablesOK
<1> HIDE DEF Q
<1>3. F \in [1 .. n -> [Q -> Q]]
  <2>1. ASSUME NEW i \in 1 .. n, NEW r \in Q
        PROVE  Reified(r, fs[i]) \in Q
    <3>1. Retold(backend, r, Reified(r, fs[i]), fs[i])
      BY <1>1, <1>2, ReifiedIsTold
    <3>2. QED
      BY <1>2, <3>1 DEF Retold
  <2>2. QED
    BY <2>1
<1>4. s \in Q
  BY <1>2
<1> HIDE DEF n
<1>5. PICK f : Rounds(f, n, Q, s, F)
  <2> HIDE DEF F
  <2> QED  BY <1>1, <1>3, <1>4, Iteration
<1>6. f = Body(f)
  <2>1. ASSUME NEW i \in 0 .. n
        PROVE  f[i] = IF i = 0 THEN s ELSE Reified(f[i - 1], fs[i])
    <3>1. CASE i = 0
      BY <1>5, <3>1 DEF Rounds
    <3>2. CASE i # 0
      <4>1. i \in 1 .. n /\ f[i - 1] \in Q
        BY <1>1, <1>5, <3>2 DEF Rounds
      <4>2. f[i] = F[i][f[i - 1]]
        BY <1>5, <4>1 DEF Rounds
      <4>3. F[i][f[i - 1]] = Reified(f[i - 1], fs[i])
        BY <4>1
      <4>4. QED
        BY <3>2, <4>2, <4>3
    <3>3. QED
      BY <3>1, <3>2
  <2>2. f = [i \in 0 .. n |-> f[i]]
    BY <1>5 DEF Rounds
  <2> HIDE DEF F
  <2>3. QED
    BY <2>1, <2>2
<1>7. fed = Body(fed)
  <2> HIDE DEF Body
  <2> QED  BY <1>6
<1>8. AllReified(s, fs) = fed[n]
  BY DEF AllReified, n
<1> HIDE DEF fed
<1>9. fed[0] = s /\ \A i \in 1 .. n : fed[i] = Reified(fed[i - 1], fs[i])
  <2>1. ASSUME NEW i \in 0 .. n
        PROVE  fed[i] = IF i = 0 THEN s ELSE Reified(fed[i - 1], fs[i])
    BY <1>7
  <2>2. 0 \in 0 .. n /\ \A i \in 1 .. n : i \in 0 .. n /\ i # 0
    BY <1>1
  <2>3. QED
    BY <2>1, <2>2
<1>10. ReifiedStepwise(fed, s, fs)
  BY <1>8, <1>9 DEF n, ReifiedStepwise
<1> QED  BY <1>10

\* fd_reify tells the backend of all that has changed, and watches what was watched.
LEMMA AllAreTold ==
  ASSUME backend \in Backends, NEW s, TablesOK(backend, s), NEW fs \in Seq(AllFds),
         \A g \in AllFds : s.anfds[g].reify # {} => \E i \in 1 .. Len(fs) : fs[i] = g
  PROVE  LET r == AllReified(s, fs)
         IN  /\ TablesOK(backend, r)
             /\ \A g \in AllFds : r.anfds[g].head = s.anfds[g].head /\ r.anfds[g].reify = {}
<1>0. PICK f : ReifiedStepwise(f, s, fs)
  BY AllReifiedUnfolds
<1> DEFINE n == Len(fs)
<1>1. /\ AllReified(s, fs) = f[n]
      /\ f[0] = s
      /\ \A i \in 1 .. n : f[i] = Reified(f[i - 1], fs[i])
  BY <1>0 DEF ReifiedStepwise
<1>2. n \in Nat /\ \A i \in 1 .. n : fs[i] \in AllFds
  OBVIOUS
<1>3. \A g \in AllFds : s.anfds[g].reify # {} => \E i \in 1 .. n : fs[i] = g
  OBVIOUS
<1> HIDE DEF n
<1> DEFINE Clear(i, g) == s.anfds[g].reify = {} \/ \E j \in 1 .. i : fs[j] = g
           S == {i \in 0 .. n : /\ TablesOK(backend, f[i])
                                /\ \A g \in AllFds : f[i].anfds[g].head = s.anfds[g].head
                                /\ \A g \in AllFds : Clear(i, g) => f[i].anfds[g].reify = {}}
<1>4. 0 \in S
  BY <1>1, <1>2
<1>5. ASSUME NEW i \in 1 .. n, i - 1 \in S
      PROVE  i \in S
  <2>0. /\ TablesOK(backend, f[i - 1])
        /\ \A g \in AllFds : f[i - 1].anfds[g].head = s.anfds[g].head
        /\ \A g \in AllFds : Clear(i - 1, g) => f[i - 1].anfds[g].reify = {}
    <3> HIDE DEF Clear
    <3> QED  BY <1>5
  <2>1. f[i] = Reified(f[i - 1], fs[i]) /\ fs[i] \in AllFds /\ i \in 0 .. n
    BY <1>1, <1>2
  <2>2. Retold(backend, f[i - 1], f[i], fs[i])
    BY <2>0, <2>1, ReifiedIsTold
  <2>3. /\ TablesOK(backend, f[i]) /\ f[i].anfds[fs[i]].reify = {}
        /\ \A g \in AllFds : f[i].anfds[g].head = f[i - 1].anfds[g].head
        /\ \A g \in AllFds : g # fs[i] => f[i].anfds[g] = f[i - 1].anfds[g]
    BY <2>2 DEF Retold
  <2>4. ASSUME NEW g \in AllFds, Clear(i, g)
        PROVE  f[i].anfds[g].reify = {}
    <3>1. CASE g = fs[i]
      BY <2>3, <3>1
    <3>2. CASE g # fs[i]
      <4>1. \A j \in 1 .. i : j = i \/ j \in 1 .. i - 1
        BY <1>2
      <4>2. Clear(i - 1, g)
        BY <2>4, <3>2, <4>1
      <4>3. f[i - 1].anfds[g].reify = {}
        BY <2>0, <4>2
      <4>4. QED
        BY <2>3, <3>2, <4>3
    <3>3. QED
      BY <3>1, <3>2
  <2>5. \A g \in AllFds : f[i].anfds[g].head = s.anfds[g].head
    BY <2>0, <2>3
  <2> HIDE DEF Clear
  <2>6. QED
    BY <2>1, <2>3, <2>4, <2>5
<1>6. n \in S
  <2> HIDE DEF S
  <2> QED  BY <1>2, <1>4, <1>5, Climb
<1>7. \A g \in AllFds : Clear(n, g)
  BY <1>3
<1> HIDE DEF Clear
<1> QED  BY <1>1, <1>6, <1>7 DEF n

\* What FeedSignals makes of the queue q.
SignalsFed(q) ==
  LET fed[i \in 0 .. Len(Signals)] ==
        IF i = 0 THEN q
        ELSE IF Signals[i] \in signals THEN Feed(fed[i - 1], Signals[i], {"SIGNAL"})
        ELSE fed[i - 1]
  IN  fed[Len(Signals)]

\* Only watchers of signals become pending.
LEMMA SignalsAreFed ==
  ASSUME NEW q, QueueOK(q), NEW W, W = SignalSet
  PROVE  QueueOK(SignalsFed(q)) /\ Queued(SignalsFed(q)) \subseteq Queued(q) \cup W
<1> DEFINE n == Len(Signals)
           Q == {r \in Queues : Queued(r) \subseteq Queued(q) \cup W}
           Round(r, i) == IF Signals[i] \in signals THEN Feed(r, Signals[i], {"SIGNAL"}) ELSE r
           Body(g) == [i \in 0 .. n |-> IF i = 0 THEN q ELSE Round(g[i - 1], i)]
           F == [i \in 1 .. n |-> [r \in Q |-> Round(r, i)]]
           fed == CHOOSE g : g = Body(g)
<1>1. n \in Nat
  BY WatchersAssumption
<1>2. \A r : r \in Q <=> QueueOK(r) /\ Queued(r) \subseteq Queued(q) \cup W
  BY QueuesAre
<1> HIDE DEF Q
<1>3. ASSUME NEW i \in 1 .. n, NEW r \in Q
      PROVE  Round(r, i) \in Q
  <2>1. Signals[i] \in W /\ Signals[i] \in Watchers /\ QueueOK(r)
        /\ Queued(r) \subseteq Queued(q) \cup W
    BY <1>1, <1>2, WatchersAssumption DEF Watchers
  <2>2. {"SIGNAL"} \in SUBSET EventNames
    BY DEF EventNames
  <2>3. /\ QueueOK(Feed(r, Signals[i], {"SIGNAL"}))
        /\ Queued(Feed(r, Signals[i], {"SIGNAL"})) = Queued(r) \cup {Signals[i]}
    BY <2>1, <2>2, FeedKeepsQueue
  <2>4. QED
    BY <1>2, <2>1, <2>3
<1>4. F \in [1 .. n -> [Q -> Q]]
  <2> HIDE DEF Round
  <2> QED  BY <1>3
<1>5. q \in Q
  BY <1>2
<1>6. SignalsFed(q) = fed[n]
  BY DEF SignalsFed
<1> HIDE DEF n, Round
<1>7. PICK f : Rounds(f, n, Q, q, F)
  <2> HIDE DEF F
  <2> QED  BY <1>1, <1>4, <1>5, Iteration
<1>8. f = Body(f)
  <2>1. ASSUME NEW i \in 0 .. n
        PROVE  f[i] = IF i = 0 THEN q ELSE Round(f[i - 1], i)
    <3>1. CASE i = 0
      BY <1>7, <3>1 DEF Rounds
    <3>2. CASE i # 0
      <4>1. i \in 1 .. n /\ f[i - 1] \in Q
        BY <1>1, <1>7, <3>2 DEF Rounds
      <4>2. f[i] = F[i][f[i - 1]]
        BY <1>7, <4>1 DEF Rounds
      <4>3. F[i][f[i - 1]] = Round(f[i - 1], i)
        BY <4>1
      <4>4. QED
        BY <3>2, <4>2, <4>3
    <3>3. QED
      BY <3>1, <3>2
  <2>2. f = [i \in 0 .. n |-> f[i]]
    BY <1>7 DEF Rounds
  <2> HIDE DEF F
  <2>3. QED
    BY <2>1, <2>2
<1>9. fed = Body(fed)
  <2> HIDE DEF Body
  <2> QED  BY <1>8
<1> HIDE DEF fed
<1> DEFINE S == {i \in 0 .. n : fed[i] \in Q}
<1>10. 0 \in S
  BY <1>1, <1>5, <1>9
<1>11. ASSUME NEW i \in 1 .. n, i - 1 \in S
       PROVE  i \in S
  <2>1. i \in 0 .. n /\ i # 0 /\ fed[i - 1] \in Q
    BY <1>11
  <2>2. fed[i] = Round(fed[i - 1], i)
    BY <1>9, <2>1
  <2>3. QED
    BY <1>3, <2>1, <2>2
<1>12. n \in S
  <2> HIDE DEF S
  <2> QED  BY <1>1, <1>10, <1>11, Climb
<1>13. fed[n] \in Q
  BY <1>12
<1> HIDE DEF S
<1> QED  BY <1>2, <1>6, <1>13

\* What PollReturns makes of the queue q when order is reported.
ReportsFed(q, order) ==
  LET fed[i \in 0 .. Len(order)] ==
        IF i = 0 THEN q ELSE FeedAll(fed[i - 1], anfds[order[i]].head, Read)
  IN  fed[Len(order)]

\* Only watchers of descriptors become pending.
LEMMA ReportsAreFed ==
  ASSUME NEW q, QueueOK(q), NEW W \in SUBSET Watchers, NEW order \in Seq(AllFds),
         \A f \in AllFds : anfds[f].head \in Seq(W)
  PROVE  QueueOK(ReportsFed(q, order)) /\ Queued(ReportsFed(q, order)) \subseteq Queued(q) \cup W
<1> DEFINE n == Len(order)
           Q == {r \in Queues : Queued(r) \subseteq Queued(q) \cup W}
           Round(r, i) == FeedAll(r, anfds[order[i]].head, Read)
           Body(g) == [i \in 0 .. n |-> IF i = 0 THEN q ELSE Round(g[i - 1], i)]
           F == [i \in 1 .. n |-> [r \in Q |-> Round(r, i)]]
           fed == CHOOSE g : g = Body(g)
<1>1. n \in Nat
  OBVIOUS
<1>2. \A r : r \in Q <=> QueueOK(r) /\ Queued(r) \subseteq Queued(q) \cup W
  BY QueuesAre
<1> HIDE DEF Q
<1>3. ASSUME NEW i \in 1 .. n, NEW r \in Q
      PROVE  Round(r, i) \in Q
  <2> DEFINE head == anfds[order[i]].head
  <2>1. QueueOK(r) /\ Queued(r) \subseteq Queued(q) \cup W /\ order[i] \in AllFds
    BY <1>1, <1>2
  <2>2. head \in Seq(W)
    BY <2>1
  <2> HIDE DEF head
  <2>3. head \in Seq(Watchers) /\ \A j \in 1 .. Len(head) : head[j] \in W
    BY <2>2
  <2>4. Read \in SUBSET EventNames
    BY DEF EventNames, Read
  <2>5. /\ QueueOK(FeedAll(r, head, Read))
        /\ Queued(FeedAll(r, head, Read)) = Queued(r) \cup {head[j] : j \in 1 .. Len(head)}
    BY <2>1, <2>3, <2>4, FeedAllKeepsQueue
  <2>6. QED
    BY <1>2, <2>1, <2>3, <2>5 DEF head
<1>4. F \in [1 .. n -> [Q -> Q]]
  <2> HIDE DEF Round
  <2> QED  BY <1>3
<1>5. q \in Q
  BY <1>2
<1>6. ReportsFed(q, order) = fed[n]
  BY DEF ReportsFed
<1> HIDE DEF n, Round
<1>7. PICK f : Rounds(f, n, Q, q, F)
  <2> HIDE DEF F
  <2> QED  BY <1>1, <1>4, <1>5, Iteration
<1>8. f = Body(f)
  <2>1. ASSUME NEW i \in 0 .. n
        PROVE  f[i] = IF i = 0 THEN q ELSE Round(f[i - 1], i)
    <3>1. CASE i = 0
      BY <1>7, <3>1 DEF Rounds
    <3>2. CASE i # 0
      <4>1. i \in 1 .. n /\ f[i - 1] \in Q
        BY <1>1, <1>7, <3>2 DEF Rounds
      <4>2. f[i] = F[i][f[i - 1]]
        BY <1>7, <4>1 DEF Rounds
      <4>3. F[i][f[i - 1]] = Round(f[i - 1], i)
        BY <4>1
      <4>4. QED
        BY <3>2, <4>2, <4>3
    <3>3. QED
      BY <3>1, <3>2
  <2>2. f = [i \in 0 .. n |-> f[i]]
    BY <1>7 DEF Rounds
  <2> HIDE DEF F
  <2>3. QED
    BY <2>1, <2>2
<1>9. fed = Body(fed)
  <2> HIDE DEF Body
  <2> QED  BY <1>8
<1> HIDE DEF fed
<1> DEFINE S == {i \in 0 .. n : fed[i] \in Q}
<1>10. 0 \in S
  BY <1>1, <1>5, <1>9
<1>11. ASSUME NEW i \in 1 .. n, i - 1 \in S
       PROVE  i \in S
  <2>1. i \in 0 .. n /\ i # 0 /\ fed[i - 1] \in Q
    BY <1>11
  <2>2. fed[i] = Round(fed[i - 1], i)
    BY <1>9, <2>1
  <2>3. QED
    BY <1>3, <2>1, <2>2
<1>12. n \in S
  <2> HIDE DEF S
  <2> QED  BY <1>1, <1>10, <1>11, Climb
<1>13. fed[n] \in Q
  BY <1>12
<1> HIDE DEF S
<1> QED  BY <1>2, <1>6, <1>13

-----------------------------------------------------------------------------
(* The invariant holds initially *)

LEMMA EvpipeIsOne == evpipe \in AllFds
BY DEF AllFds

\* At first there are no descriptors of sockets and nothing is registered.
LEMMA IoInvInit ==
  ASSUME Init
  PROVE  IoInv
<1> USE DEF Init, LoopInit, Kernel
<1>1. backend \in Backends /\ open \subseteq AllFds
  BY DEF BackendInit, Backends
<1> DEFINE a == [head |-> << >>, events |-> {}, reify |-> {}, emask |-> {}, egen |-> 0]
<1>2. anfds = [f \in AllFds |-> a] /\ epoll = [f \in AllFds |-> None] /\ polls = << >>
      /\ pollidxs = [f \in AllFds |-> 0] /\ vec_ri = {}
  BY DEF EpollInit, PollInit, SelectInit
<1>3. a \in Descriptors /\ a.head = << >> /\ a.reify = {} /\ a.events = {}
  BY DEF Descriptors
<1> HIDE DEF a
<1>4. /\ Current.anfds = anfds /\ Current.epoll = epoll /\ Current.polls = polls
      /\ Current.pollidxs = pollidxs /\ Current.vec_ri = vec_ri
  BY DEF Current
<1>5. \A f \in AllFds : anfds[f] = a
  BY <1>2
<1>6. Current \in Tables
  <2>1. anfds \in [AllFds -> Descriptors]
    BY <1>2, <1>3
  <2>2. epoll \in [AllFds -> [events : {Read}, egen : Nat] \cup {None}]
    BY <1>2
  <2>3. polls \in Seq(AllFds) /\ pollidxs \in [AllFds -> Nat] /\ vec_ri \in SUBSET AllFds
    BY <1>2
  <2>4. QED
    BY <2>1, <2>2, <2>3 DEF Current, Tables
<1>7. TablesOK(backend, Current)
  <2>1. PollsAgree(Current)
    BY <1>2, <1>4 DEF PollsAgree
  <2>2. ASSUME NEW f \in AllFds
        PROVE  Told(backend, Current, f)
    BY <1>2, <1>3, <1>4, <1>5 DEF Told, Read
  <2>3. QED
    BY <1>6, <2>1, <2>2 DEF TablesOK
<1>8. SocketsOK
  <2>1. evpipe \in AllFds
    BY EvpipeIsOne
  <2>2. \A f \in AllFds : anfds[f].head = << >>
    BY <1>3, <1>5
  <2>3. fd = [w \in Ios |-> None]
    OBVIOUS
  <2>4. \A w \in Ios : fd[w] = None
    BY <2>3
  <2>5. fd \in [Ios -> AllFds \cup {None}]
    BY <2>3
  <2>6. QED
    BY <2>1, <2>2, <2>4, <2>5 DEF SocketsOK
<1>9. ChangesOK
  BY <1>3, <1>5 DEF ChangesOK
<1> QED  BY <1>1, <1>7, <1>8, <1>9 DEF IoInv

\* At first no timer runs and nothing is pending.
LEMMA WatcherInvInit ==
  ASSUME Init
  PROVE  WatcherInv
<1> USE DEF Init, LoopInit, Kernel
<1>1. HeapOK(heap, Timers)
  BY DEF HeapOK, verify_heap
<1>2. TimersOK
  BY <1>1 DEF TimersOK
<1>3. QueueOK(Queue) /\ Queued(Queue) = {}
  <2>1. pendings = [p \in Priorities |-> << >>] /\ pending = [w \in Watchers |-> 0]
    OBVIOUS
  <2>2. Queue.pendings = pendings /\ Queue.pending = pending
        /\ Queue = [pendings |-> pendings, pending |-> pending]
    BY DEF Queue
  <2>3. QED
    BY <2>1, <2>2 DEF QueueOK, Queued
<1> QED  BY <1>2, <1>3 DEF WatcherInv, PendingOK

\* At first the program runs and no signal has come.
LEMMA PhaseInvInit ==
  ASSUME Init
  PROVE  PhaseInv
BY DEF Init, LoopInit, Kernel, PhaseInv, SignalsOK, SleepOK

-----------------------------------------------------------------------------
(* The descriptors *)

\* What is left alone stays as it is.
LEMMA IoFrame ==
  ASSUME IoInv, UNCHANGED <<backend, ioVars, open, epoll>>, stopped' \subseteq stopped \cup Timers
  PROVE  IoInv'
<1>1. /\ backend' = backend /\ fd' = fd /\ anfds' = anfds /\ fdchanges' = fdchanges
      /\ polls' = polls /\ pollidxs' = pollidxs /\ vec_ri' = vec_ri /\ open' = open
      /\ epoll' = epoll
  BY DEF ioVars, pollVars
<1>2. Current' = Current
  BY <1>1 DEF Current
<1>3. TablesOK(backend', Current')
  BY <1>1, <1>2 DEF IoInv
<1>4. SocketsOK'
  <2>1. \A w \in Ios : w \in stopped' => w \in stopped
    BY WatchersAssumption
  <2>2. QED
    BY <1>1, <2>1 DEF IoInv, SocketsOK
<1>5. ChangesOK'
  BY <1>1 DEF IoInv, ChangesOK
<1> QED  BY <1>1, <1>3, <1>4, <1>5 DEF IoInv

\* Steps that leave timers and queue alone keep what is known of them.
LEMMA WatcherFrame ==
  ASSUME WatcherInv, UNCHANGED <<heap, repeat, queueVars, rfeeds, stopped>>
  PROVE  WatcherInv'
<1>1. /\ heap' = heap /\ repeat' = repeat /\ pendings' = pendings /\ pending' = pending
      /\ rfeeds' = rfeeds /\ stopped' = stopped
  BY DEF queueVars
<1>2. Queue' = Queue
  BY <1>1 DEF Queue
<1>3. TimersOK'
  BY <1>1 DEF WatcherInv, TimersOK, MayCallBack
<1>4. PendingOK'
  BY <1>1, <1>2 DEF WatcherInv, PendingOK, MayCallBack
<1> QED  BY <1>1, <1>3, <1>4 DEF WatcherInv

\* fd_change notes the change of a descriptor, of which the backend is told later.
LEMMA ChangeIsNoted ==
  ASSUME TablesOK(backend, Current), ChangesOK, UNCHANGED <<backend, pollVars>>,
         NEW f \in AllFds, NEW h \in Seq(Watchers),
         NEW flags \in SUBSET {"IOFDSET", "REIFY"}, "REIFY" \in flags,
         h # << >> => "IOFDSET" \in flags,
         fd_change([anfds EXCEPT ![f].head = h], f, flags),
         epoll' \in [AllFds -> [events : {Read}, egen : Nat] \cup {None}],
         backend = "epoll" => epoll'[f] = None,
         \A g \in AllFds : g # f => epoll'[g] = epoll[g]
  PROVE  /\ TablesOK(backend', Current') /\ ChangesOK'
         /\ anfds'[f].head = h
         /\ \A g \in AllFds : g # f => anfds'[g] = anfds[g]
<1> DEFINE a  == anfds[f]
           c1 == [head |-> h, events |-> a.events, reify |-> a.reify, emask |-> a.emask,
                  egen |-> a.egen]
           c  == [head |-> h, events |-> a.events, reify |-> a.reify \cup flags,
                  emask |-> a.emask, egen |-> a.egen]
           an1 == [anfds EXCEPT ![f] = c1]
<1>1. /\ Current.anfds = anfds /\ Current.epoll = epoll /\ Current.polls = polls
      /\ Current.pollidxs = pollidxs /\ Current.vec_ri = vec_ri
  BY DEF Current
<1>2. /\ anfds \in [AllFds -> Descriptors] /\ a \in Descriptors
      /\ polls \in Seq(AllFds) /\ pollidxs \in [AllFds -> Nat] /\ vec_ri \in SUBSET AllFds
  BY <1>1, TableFacts
<1>3. backend' = backend /\ polls' = polls /\ pollidxs' = pollidxs /\ vec_ri' = vec_ri
  BY DEF pollVars
<1>4. [a EXCEPT !.head = h] = c1 /\ c1 \in Descriptors /\ a.reify \subseteq {"IOFDSET", "REIFY"}
  BY <1>2, DescriptorExcept DEF Descriptors
<1>5. [c1 EXCEPT !.reify = a.reify \cup flags] = c /\ c \in Descriptors
  <2>1. ASSUME NEW re
        PROVE  [c1 EXCEPT !.reify = re] = [head |-> h, events |-> a.events, reify |-> re,
                                           emask |-> a.emask, egen |-> a.egen]
    OBVIOUS
  <2> DEFINE re == a.reify \cup flags
  <2>2. re \in SUBSET {"IOFDSET", "REIFY"}
    BY <1>4
  <2> HIDE DEF re
  <2>3. [head |-> h, events |-> a.events, reify |-> re, emask |-> a.emask, egen |-> a.egen]
          \in Descriptors
    BY <1>2, <2>2 DEF Descriptors
  <2>4. c = [head |-> h, events |-> a.events, reify |-> re, emask |-> a.emask,
             egen |-> a.egen]
    BY DEF re
  <2> HIDE DEF c, c1
  <2>5. [c1 EXCEPT !.reify = re] = c
    BY <2>1, <2>4
  <2>6. QED
    BY <2>3, <2>4, <2>5 DEF re
<1>6. c1.reify = a.reify /\ c.head = h /\ c.events = a.events /\ c.reify = a.reify \cup flags
  OBVIOUS
<1> HIDE DEF c1, c
<1>7. an1 \in [AllFds -> Descriptors] /\ an1[f] = c1 /\ [anfds EXCEPT ![f].head = h] = an1
  BY <1>2, <1>4
<1>8. anfds' = [anfds EXCEPT ![f] = c]
  <2>1. anfds' = [an1 EXCEPT ![f].reify = @ \cup flags]
    BY <1>7 DEF fd_change
  <2>2. [an1 EXCEPT ![f].reify = @ \cup flags] = [an1 EXCEPT ![f] = c]
    BY <1>5, <1>6, <1>7
  <2>3. [an1 EXCEPT ![f] = c] = [anfds EXCEPT ![f] = c]
    BY <1>2
  <2>4. QED
    BY <2>1, <2>2, <2>3
<1>9. fdchanges' = IF a.reify = {} THEN Append(fdchanges, f) ELSE fdchanges
  BY <1>6, <1>7 DEF fd_change
<1>10. /\ anfds' \in [AllFds -> Descriptors] /\ anfds'[f] = c
       /\ \A g \in AllFds : g # f => anfds'[g] = anfds[g]
  BY <1>2, <1>5, <1>8
<1>11. ChangesOK'
  <2>1. fdchanges \in Seq(AllFds) /\ Len(fdchanges) \in Nat
    BY DEF ChangesOK
  <2>2. fdchanges' \in Seq(AllFds)
    BY <1>9, <2>1
  <2>3. \A i \in 1 .. Len(fdchanges) : i \in 1 .. Len(fdchanges') /\ fdchanges'[i] = fdchanges[i]
    BY <1>9, <2>1
  <2>4. \E i \in 1 .. Len(fdchanges') : fdchanges'[i] = f
    <3>1. CASE a.reify = {}
      <4>1. Len(fdchanges) + 1 \in 1 .. Len(fdchanges') /\ fdchanges'[Len(fdchanges) + 1] = f
        BY <1>9, <2>1, <3>1
      <4>2. QED
        BY <4>1
    <3>2. CASE a.reify # {}
      BY <1>9, <3>2 DEF ChangesOK
    <3>3. QED
      BY <3>1, <3>2
  <2>5. ASSUME NEW g \in AllFds, anfds'[g].reify # {}
        PROVE  \E i \in 1 .. Len(fdchanges') : fdchanges'[i] = g
    <3>1. CASE g = f
      BY <2>4, <3>1
    <3>2. CASE g # f
      <4>1. PICK i \in 1 .. Len(fdchanges) : fdchanges[i] = g
        BY <1>10, <2>5, <3>2 DEF ChangesOK
      <4>2. QED
        BY <2>3, <4>1
    <3>3. QED
      BY <3>1, <3>2
  <2>6. QED
    BY <2>2, <2>5 DEF ChangesOK
<1>12. /\ Current'.anfds = anfds' /\ Current'.epoll = epoll' /\ Current'.polls = polls
       /\ Current'.pollidxs = pollidxs /\ Current'.vec_ri = vec_ri
  BY <1>3 DEF Current
<1>13. Current' \in Tables
  BY <1>2, <1>3, <1>10 DEF Current, Tables
<1>14. PollsAgree(Current')
  <2>1. PollsAgree(Current)
    BY DEF TablesOK
  <2>2. QED
    BY <1>1, <1>12, <2>1 DEF PollsAgree
<1>15. ASSUME NEW g \in AllFds
       PROVE  Told(backend, Current', g)
  <2>1. Told(backend, Current, g)
    BY DEF TablesOK
  <2>2. CASE g = f
    <3>1. c.reify # {} /\ (c.head # << >> => "IOFDSET" \in c.reify)
      BY <1>6
    <3>2. QED
      BY <1>1, <1>6, <1>10, <1>12, <2>1, <2>2, <3>1 DEF Told
  <2>3. CASE g # f
    BY <1>1, <1>10, <1>12, <2>1, <2>3 DEF Told
  <2>4. QED
    BY <2>2, <2>3
<1>16. TablesOK(backend', Current')
  BY <1>3, <1>13, <1>14, <1>15 DEF TablesOK
<1> QED  BY <1>6, <1>10, <1>11, <1>16

\* The heads of the lists.
LEMMA HeadFacts ==
  ASSUME IoInv
  PROVE  /\ \A f \in AllFds \ {evpipe} : f \notin open => anfds[f].head = << >>
         /\ \A f \in AllFds \ {evpipe} : \A w \in Ios : fd[w] = f => anfds[f].head = <<w>>
         /\ \A f \in AllFds : \A w \in Ios : fd[w] = f => anfds[f].head = <<w>>
         /\ \A v, w \in Ios : fd[v] # None /\ fd[v] = fd[w] => v = w
         /\ anfds \in [AllFds -> Descriptors]
         /\ epoll \in [AllFds -> [events : {Read}, egen : Nat] \cup {None}]
         /\ \A f \in AllFds : backend = "epoll" /\ anfds[f].head = << >> => epoll[f] = None
<1>1. SocketsOK
  BY DEF IoInv
<1>2. \A f \in AllFds : f # None
  BY DescriptorsAssumption
<1>3. \A f \in AllFds \ {evpipe} : \A w \in Ios : fd[w] = f => anfds[f].head = <<w>> /\ f \in open
  BY <1>1, <1>2 DEF SocketsOK
<1>4. \A f \in AllFds \ {evpipe} : f \notin open => anfds[f].head = << >>
  BY <1>1, <1>3 DEF SocketsOK
<1>5. ASSUME NEW v \in Ios, NEW w \in Ios, fd[v] # None, fd[v] = fd[w]
      PROVE  v = w
  <2>1. anfds[fd[v]].head = <<v>> /\ anfds[fd[v]].head = <<w>>
    BY <1>1, <1>5 DEF SocketsOK
  <2>2. <<v>>[1] = <<w>>[1]
    BY <2>1
  <2>3. QED
    BY <2>2
<1>6. /\ Current.anfds = anfds /\ Current.epoll = epoll
  BY DEF Current
<1>7. \A f \in AllFds : Told(backend, Current, f)
  BY DEF IoInv, TablesOK
<1>8. \A f \in AllFds : backend = "epoll" /\ anfds[f].head = << >> => epoll[f] = None
  BY <1>6, <1>7 DEF Told
<1>9. /\ anfds \in [AllFds -> Descriptors]
      /\ epoll \in [AllFds -> [events : {Read}, egen : Nat] \cup {None}]
  BY <1>6, TableFacts DEF IoInv
<1>10. \A f \in AllFds : \A w \in Ios : fd[w] = f => anfds[f].head = <<w>>
  BY <1>1, <1>2 DEF SocketsOK
<1> QED  BY <1>3, <1>4, <1>5, <1>8, <1>9, <1>10

\* A socket that is opened is noted for fd_reify with EV__IOFDSET, so that its descriptor
\* may have belonged to another one.
LEMMA OpenKeepsIo ==
  ASSUME IoInv, stopped \subseteq Timers \cup Ios, NEW w \in Ios, OpenSocket(w)
  PROVE  IoInv'
<1>1. PICK f \in Fds[backend] \ open :
        /\ open' = open \cup {f}
        /\ fd' = [fd EXCEPT ![w] = f]
        /\ fd_change([anfds EXCEPT ![f].head = wlist_add(@, w)], f, {"IOFDSET", "REIFY"})
  BY DEF OpenSocket
<1>2. /\ fd[w] = None /\ backend' = backend /\ pollVars' = pollVars
      /\ epoll' = epoll /\ stopped' = stopped \ {w}
  BY DEF OpenSocket, Returned
<1>3. /\ SocketsOK /\ backend \in Backends /\ open \subseteq AllFds
      /\ TablesOK(backend, Current) /\ ChangesOK
  BY DEF IoInv
<1>4. f \in AllFds /\ f # evpipe /\ f \notin open /\ f # None
  <2>1. f \in AllFds
    BY <1>1, <1>3, DescriptorsAssumption DEF AllFds
  <2>2. QED
    BY <1>1, <1>3, <2>1, DescriptorsAssumption
<1>5. anfds[f].head = << >> /\ (backend = "epoll" => epoll[f] = None)
      /\ epoll \in [AllFds -> [events : {Read}, egen : Nat] \cup {None}]
  BY <1>4, HeadFacts
<1>6. wlist_add(anfds[f].head, w) = <<w>> /\ <<w>> \in Seq(Watchers) /\ <<w>> # << >>
  BY <1>5 DEF wlist_add, Watchers
<1>7. fd_change([anfds EXCEPT ![f].head = <<w>>], f, {"IOFDSET", "REIFY"})
  <2>1. [anfds EXCEPT ![f].head = wlist_add(@, w)] = [anfds EXCEPT ![f].head = <<w>>]
    BY <1>6
  <2>2. QED
    BY <1>1, <2>1
<1>8. /\ TablesOK(backend', Current') /\ ChangesOK'
      /\ anfds'[f].head = <<w>>
      /\ \A g \in AllFds : g # f => anfds'[g] = anfds[g]
  <2> DEFINE flags == {"IOFDSET", "REIFY"}
             h == <<w>>
  <2>1. /\ flags \in SUBSET {"IOFDSET", "REIFY"} /\ "REIFY" \in flags /\ "IOFDSET" \in flags
        /\ h \in Seq(Watchers) /\ h # << >>
    BY <1>6
  <2>2. fd_change([anfds EXCEPT ![f].head = h], f, flags)
    BY <1>7
  <2>3. /\ epoll' \in [AllFds -> [events : {Read}, egen : Nat] \cup {None}]
        /\ backend = "epoll" => epoll'[f] = None
        /\ \A g \in AllFds : g # f => epoll'[g] = epoll[g]
    BY <1>2, <1>5
  <2>4. UNCHANGED <<backend, pollVars>>
    BY <1>2
  <2> HIDE DEF flags, h
  <2>5. /\ TablesOK(backend', Current') /\ ChangesOK'
        /\ anfds'[f].head = h
        /\ \A g \in AllFds : g # f => anfds'[g] = anfds[g]
    BY <1>3, <1>4, <2>1, <2>2, <2>3, <2>4, ChangeIsNoted
  <2>6. QED
    BY <2>5 DEF h
<1>9. SocketsOK'
  <2>1. /\ fd' \in [Ios -> AllFds \cup {None}] /\ fd'[w] = f
        /\ \A v \in Ios : v # w => fd'[v] = fd[v]
    BY <1>1, <1>3, <1>4 DEF SocketsOK
  <2>2. ASSUME NEW v \in Ios, fd'[v] # None
        PROVE  fd'[v] # evpipe /\ fd'[v] \in open' /\ anfds'[fd'[v]].head = <<v>>
    <3>1. CASE v = w
      BY <1>1, <1>4, <1>8, <2>1, <3>1
    <3>2. CASE v # w
      <4>1. /\ fd'[v] = fd[v] /\ fd[v] # None /\ fd[v] # evpipe /\ fd[v] \in open
            /\ anfds[fd[v]].head = <<v>>
        BY <1>3, <2>1, <2>2, <3>2 DEF SocketsOK
      <4>2. fd[v] # f /\ fd[v] \in AllFds
        BY <1>3, <1>4, <4>1
      <4>3. QED
        BY <1>1, <1>8, <4>1, <4>2
    <3>3. QED
      BY <3>1, <3>2
  <2>3. ASSUME NEW g \in AllFds \ {evpipe}, anfds'[g].head # << >>
        PROVE  \E v \in Ios : fd'[v] = g
    <3>1. CASE g = f
      BY <2>1, <3>1
    <3>2. CASE g # f
      <4>1. PICK v \in Ios : fd[v] = g
        BY <1>3, <1>8, <2>3, <3>2 DEF SocketsOK
      <4>2. v # w
        BY <1>2, <4>1, DescriptorsAssumption
      <4>3. QED
        BY <2>1, <4>1, <4>2
    <3>3. QED
      BY <3>1, <3>2
  <2>4. anfds'[evpipe].head \in {<< >>, <<pipe_w>>}
    BY <1>3, <1>4, <1>8, EvpipeIsOne DEF SocketsOK
  <2>5. \A v \in Ios : v \in stopped' => fd'[v] = None
    BY <1>2, <1>3, <2>1 DEF SocketsOK
  <2>6. QED
    BY <2>1, <2>2, <2>3, <2>4, <2>5 DEF SocketsOK
<1> QED  BY <1>1, <1>2, <1>3, <1>4, <1>8, <1>9 DEF IoInv

\* A list of one watcher is empty without it.
LEMMA OnlyOneLeaves ==
  ASSUME NEW w
  PROVE  wlist_del(<<w>>, w) = << >>
<1> DEFINE i == CHOOSE i \in DOMAIN <<w>> : <<w>>[i] = w
<1>1. \A j : j \in DOMAIN <<w>> <=> j = 1
  OBVIOUS
<1>2. i = 1
  BY <1>1
<1>3. wlist_del(<<w>>, w) = SubSeq(<<w>>, 1, i - 1) \o SubSeq(<<w>>, i + 1, Len(<<w>>))
  BY DEF wlist_del
<1> HIDE DEF i
<1>4. SubSeq(<<w>>, 1, 0) = << >> /\ SubSeq(<<w>>, 2, 1) = << >> /\ Len(<<w>>) = 1
  OBVIOUS
<1>5. << >> \o << >> = << >>
  OBVIOUS
<1> QED  BY <1>2, <1>3, <1>4, <1>5

\* A socket that is closed is out of the kernel's table before fd_reify looks at it.
LEMMA CloseKeepsIo ==
  ASSUME IoInv, stopped \subseteq Timers \cup Ios, NEW w \in Ios, CloseSocket(w)
  PROVE  IoInv'
<1> DEFINE f == fd[w]
<1>1. /\ f # None /\ backend' = backend /\ pollVars' = pollVars
      /\ fd_change([anfds EXCEPT ![f].head = wlist_del(@, w)], f, {"REIFY"})
      /\ open' = open \ {f}
      /\ epoll' = [epoll EXCEPT ![f] = None]
      /\ fd' = [fd EXCEPT ![w] = None] /\ stopped' = stopped \cup {w}
  BY DEF CloseSocket, Returned
<1>2. /\ SocketsOK /\ backend \in Backends /\ open \subseteq AllFds
      /\ TablesOK(backend, Current) /\ ChangesOK
  BY DEF IoInv
<1>3. f \in AllFds /\ f # evpipe /\ f \in open /\ anfds[f].head = <<w>>
  BY <1>1, <1>2 DEF SocketsOK
<1>4. epoll \in [AllFds -> [events : {Read}, egen : Nat] \cup {None}]
      /\ \A v \in Ios : fd[v] = f => v = w
  BY <1>1, HeadFacts
<1> HIDE DEF f
<1>5. wlist_del(anfds[f].head, w) = << >>
  BY <1>3, OnlyOneLeaves
<1>6. fd_change([anfds EXCEPT ![f].head = << >>], f, {"REIFY"})
  <2>1. [anfds EXCEPT ![f].head = wlist_del(@, w)] = [anfds EXCEPT ![f].head = << >>]
    BY <1>5
  <2>2. QED
    BY <1>1, <2>1
<1>7. /\ epoll' \in [AllFds -> [events : {Read}, egen : Nat] \cup {None}]
      /\ epoll'[f] = None /\ \A g \in AllFds : g # f => epoll'[g] = epoll[g]
  BY <1>1, <1>3, <1>4
<1>8. /\ TablesOK(backend', Current') /\ ChangesOK'
      /\ anfds'[f].head = << >>
      /\ \A g \in AllFds : g # f => anfds'[g] = anfds[g]
  <2>1. << >> \in Seq(Watchers)
    OBVIOUS
  <2>2. QED
    BY <1>1, <1>2, <1>3, <1>6, <1>7, <2>1, ChangeIsNoted
<1>9. SocketsOK'
  <2>1. /\ fd' \in [Ios -> AllFds \cup {None}] /\ fd'[w] = None
        /\ \A v \in Ios : v # w => fd'[v] = fd[v]
    BY <1>1, <1>2 DEF SocketsOK
  <2>2. ASSUME NEW v \in Ios, fd'[v] # None
        PROVE  fd'[v] # evpipe /\ fd'[v] \in open' /\ anfds'[fd'[v]].head = <<v>>
    <3>1. v # w /\ fd'[v] = fd[v]
      BY <2>1, <2>2
    <3>2. fd[v] # evpipe /\ fd[v] \in open /\ anfds[fd[v]].head = <<v>>
      BY <1>2, <2>2, <3>1 DEF SocketsOK
    <3>3. fd[v] # f /\ fd[v] \in AllFds
      BY <1>2, <1>4, <3>1, <3>2
    <3>4. QED
      BY <1>1, <1>8, <3>1, <3>2, <3>3
  <2>3. ASSUME NEW g \in AllFds \ {evpipe}, anfds'[g].head # << >>
        PROVE  \E v \in Ios : fd'[v] = g
    <3>1. g # f
      BY <1>8, <2>3
    <3>2. PICK v \in Ios : fd[v] = g
      BY <1>2, <1>8, <2>3, <3>1 DEF SocketsOK
    <3>3. v # w
      BY <3>1, <3>2 DEF f
    <3>4. QED
      BY <2>1, <3>2, <3>3
  <2>4. anfds'[evpipe].head \in {<< >>, <<pipe_w>>}
    BY <1>2, <1>3, <1>8, EvpipeIsOne DEF SocketsOK
  <2>5. \A v \in Ios : v \in stopped' => fd'[v] = None
    BY <1>1, <1>2, <2>1 DEF SocketsOK
  <2>6. QED
    BY <2>1, <2>2, <2>3, <2>4, <2>5 DEF SocketsOK
<1> QED  BY <1>1, <1>2, <1>8, <1>9 DEF IoInv

\* The loop's own watcher is started with the first signal.
LEMMA StartSignalKeepsIo ==
  ASSUME IoInv, NEW s \in SignalSet, StartSignal(s)
  PROVE  IoInv'
<1>1. /\ PipeStarted /\ fd' = fd /\ pollVars' = pollVars /\ backend' = backend
      /\ open' = open /\ epoll' = epoll /\ stopped' = stopped
  BY DEF StartSignal, loopVars, kernelVars
<1>2. /\ SocketsOK /\ backend \in Backends /\ open \subseteq AllFds
      /\ TablesOK(backend, Current) /\ ChangesOK
  BY DEF IoInv
<1>3. CASE anfds[evpipe].head # << >>
  <2>1. UNCHANGED ioVars
    BY <1>1, <1>3 DEF PipeStarted, ioVars
  <2>2. QED
    BY <1>1, <2>1, IoFrame
<1>4. CASE anfds[evpipe].head = << >>
  <2>1. fd_change([anfds EXCEPT ![evpipe].head = <<pipe_w>>], evpipe, {"IOFDSET", "REIFY"})
    BY <1>1, <1>4 DEF PipeStarted
  <2>2. (backend = "epoll" => epoll[evpipe] = None)
        /\ epoll \in [AllFds -> [events : {Read}, egen : Nat] \cup {None}]
    BY <1>4, EvpipeIsOne, HeadFacts
  <2>3. <<pipe_w>> \in Seq(Watchers) /\ <<pipe_w>> # << >>
    BY DEF Watchers
  <2>4. /\ TablesOK(backend', Current') /\ ChangesOK'
        /\ anfds'[evpipe].head = <<pipe_w>>
        /\ \A g \in AllFds : g # evpipe => anfds'[g] = anfds[g]
    <3> DEFINE flags == {"IOFDSET", "REIFY"}
               h == <<pipe_w>>
    <3>1. /\ flags \in SUBSET {"IOFDSET", "REIFY"} /\ "REIFY" \in flags /\ "IOFDSET" \in flags
          /\ h \in Seq(Watchers) /\ h # << >>
      BY <2>3
    <3>2. fd_change([anfds EXCEPT ![evpipe].head = h], evpipe, flags)
      BY <2>1
    <3>3. /\ epoll' \in [AllFds -> [events : {Read}, egen : Nat] \cup {None}]
          /\ backend = "epoll" => epoll'[evpipe] = None
          /\ \A g \in AllFds : g # evpipe => epoll'[g] = epoll[g]
      BY <1>1, <2>2
    <3>4. UNCHANGED <<backend, pollVars>>
      BY <1>1
    <3> HIDE DEF flags, h
    <3>5. /\ TablesOK(backend', Current') /\ ChangesOK'
          /\ anfds'[evpipe].head = h
          /\ \A g \in AllFds : g # evpipe => anfds'[g] = anfds[g]
      BY <1>2, <3>1, <3>2, <3>3, <3>4, EvpipeIsOne, ChangeIsNoted
    <3>6. QED
      BY <3>5 DEF h
  <2>5. SocketsOK'
    <3>1. ASSUME NEW v \in Ios, fd'[v] # None
          PROVE  fd'[v] # evpipe /\ fd'[v] \in open' /\ anfds'[fd'[v]].head = <<v>>
      <4>1. /\ fd[v] # None /\ fd[v] # evpipe /\ fd[v] \in open /\ anfds[fd[v]].head = <<v>>
            /\ fd[v] \in AllFds
        BY <1>1, <1>2, <3>1 DEF SocketsOK
      <4>2. QED
        BY <1>1, <2>4, <4>1
    <3>2. \A g \in AllFds \ {evpipe} : anfds'[g].head # << >> => \E v \in Ios : fd'[v] = g
      BY <1>1, <1>2, <2>4 DEF SocketsOK
    <3>3. fd' \in [Ios -> AllFds \cup {None}] /\ \A v \in Ios : v \in stopped' => fd'[v] = None
      BY <1>1, <1>2 DEF SocketsOK
    <3>4. QED
      BY <2>4, <3>1, <3>2, <3>3 DEF SocketsOK
  <2>6. QED
    BY <1>1, <1>2, <2>4, <2>5 DEF IoInv
<1> QED  BY <1>3, <1>4

\* fd_reify tells the backend of all that has changed.
LEMMA ReifyKeepsIo ==
  ASSUME IoInv, Reify
  PROVE  IoInv' /\ \A f \in AllFds : anfds'[f].reify = {}
<1> DEFINE r == AllReified(Current, fdchanges)
<1>1. /\ SocketsOK /\ backend \in Backends /\ open \subseteq AllFds
      /\ TablesOK(backend, Current) /\ ChangesOK
  BY DEF IoInv
<1>2. /\ anfds' = r.anfds /\ epoll' = r.epoll /\ polls' = r.polls
      /\ pollidxs' = r.pollidxs /\ vec_ri' = r.vec_ri
  BY DEF Reify, AllReified, Current
<1>3. fdchanges' = << >> /\ fd' = fd /\ backend' = backend /\ open' = open /\ stopped' = stopped
  BY DEF Reify
<1> HIDE DEF r
<1>4. \A g \in AllFds : Current.anfds[g].reify # {} =>
        \E i \in 1 .. Len(fdchanges) : fdchanges[i] = g
  BY <1>1 DEF ChangesOK, Current
<1>5. /\ TablesOK(backend, r)
      /\ \A g \in AllFds : r.anfds[g].head = Current.anfds[g].head /\ r.anfds[g].reify = {}
  BY <1>1, <1>4, AllAreTold DEF ChangesOK, r
<1>6. Current' = r
  <2>1. r = [anfds |-> r.anfds, epoll |-> r.epoll, polls |-> r.polls,
             pollidxs |-> r.pollidxs, vec_ri |-> r.vec_ri]
    BY <1>5, TableFacts
  <2>2. QED
    BY <1>2, <2>1 DEF Current
<1>7. TablesOK(backend', Current')
  BY <1>3, <1>5, <1>6
<1>8. \A g \in AllFds : anfds'[g].head = anfds[g].head /\ anfds'[g].reify = {}
  BY <1>2, <1>5 DEF Current
<1>9. SocketsOK'
  <2>1. \A v \in Ios : fd[v] # None => fd[v] \in AllFds
    BY <1>1 DEF SocketsOK
  <2>2. QED
    BY <1>1, <1>3, <1>8, <2>1, EvpipeIsOne DEF SocketsOK
<1>10. ChangesOK'
  BY <1>3, <1>8 DEF ChangesOK
<1> QED  BY <1>1, <1>3, <1>7, <1>8, <1>9, <1>10 DEF IoInv

-----------------------------------------------------------------------------
(* The timers and what is pending *)

\* A timer that is stopped is out of the heap.
LEMMA StoppedTimerLeaves ==
  ASSUME HeapOK(heap, Timers), NEW t \in Timers
  PROVE  /\ HeapOK(StoppedTimer(t), Timers)
         /\ \A u \in Timers : StoppedTimer(t).active[u] # 0 <=> u # t /\ heap.active[u] # 0
<1>1. CASE heap.active[t] = 0
  BY <1>1 DEF StoppedTimer
<1>2. CASE heap.active[t] # 0
  BY <1>2, RemoveKeepsHeap DEF StoppedTimer
<1> QED  BY <1>1, <1>2

LEMMA WatcherFacts ==
  ASSUME WatcherInv
  PROVE  /\ stopped \subseteq Timers \cup Ios
         /\ HeapOK(heap, Timers) /\ repeat \in [Timers -> Nat]
         /\ \A t \in Timers : t \in stopped => heap.active[t] = 0
         /\ rfeeds \in Seq(Timers)
         /\ \A i \in 1 .. Len(rfeeds) : MayCallBack(rfeeds[i])
         /\ QueueOK(Queue) /\ \A w \in Queued(Queue) : MayCallBack(w)
BY DEF WatcherInv, TimersOK, PendingOK

\* A timer that is restarted is not pending for its old deadline.
LEMMA RestartKeepsWatchers ==
  ASSUME WatcherInv, rfeeds = << >>, backend \in Backends,
         NEW t \in Timers, NEW s \in Settings[backend][t], RestartTimer(t, s)
  PROVE  WatcherInv'
<1> DEFINE h == StoppedTimer(t)
           q == ClearPending(Queue, t)
<1>1. /\ heap' = HeapInsert(h, t, s.after)
      /\ repeat' = [repeat EXCEPT ![t] = s.repeat]
      /\ SetQueue(q) /\ stopped' = stopped \ {t} /\ rfeeds' = rfeeds
  BY DEF RestartTimer, Returned
<1>2. s.after \in Int /\ s.repeat \in Nat
  BY SettingsAssumption
<1>3. HeapOK(h, Timers) /\ \A u \in Timers : h.active[u] # 0 <=> u # t /\ heap.active[u] # 0
  BY WatcherFacts, StoppedTimerLeaves
<1> HIDE DEF h
<1>4. /\ HeapOK(heap', Timers)
      /\ \A u \in Timers : heap'.active[u] # 0 <=> u = t \/ heap.active[u] # 0
  <2>1. h.active[t] = 0
    BY <1>3
  <2>2. /\ HeapOK(HeapInsert(h, t, s.after), Timers)
        /\ \A u \in Timers : HeapInsert(h, t, s.after).active[u] # 0 <=> u = t \/ h.active[u] # 0
    BY <1>2, <1>3, <2>1, InsertKeepsHeap
  <2>3. QED
    BY <1>1, <1>3, <2>2
<1>5. repeat' \in [Timers -> Nat] /\ \A u \in Timers : u # t => repeat'[u] = repeat[u]
  BY <1>1, <1>2, WatcherFacts
<1>6. Queue' = q /\ QueueOK(q) /\ Queued(q) = Queued(Queue) \ {t}
  <2>1. t \in Watchers
    BY DEF Watchers
  <2>2. QueueOK(q) /\ Queued(q) = Queued(Queue) \ {t}
    BY <2>1, WatcherFacts, ClearKeepsQueue
  <2> HIDE DEF q
  <2>3. QED
    BY <1>1, <2>2, QueueIsSet
<1> HIDE DEF q
<1>7. TimersOK'
  <2>1. \A u \in Timers : u \in stopped' => heap'.active[u] = 0
    BY <1>1, <1>4, WatcherFacts
  <2>2. rfeeds' = << >>
    BY <1>1
  <2>3. QED
    BY <1>4, <1>5, <2>1, <2>2 DEF TimersOK
<1>8. PendingOK'
  <2>1. ASSUME NEW w \in Queued(Queue')
        PROVE  MayCallBack(w)'
    <3>1. w \in Queued(Queue) /\ w # t
      BY <1>6
    <3>2. MayCallBack(w)
      BY <3>1, WatcherFacts
    <3>3. QED
      BY <1>1, <1>4, <1>5, <3>1, <3>2 DEF MayCallBack
  <2>2. QED
    BY <1>6, <2>1 DEF PendingOK
<1> QED  BY <1>1, <1>7, <1>8, WatcherFacts DEF WatcherInv

\* A timer that is stopped is neither in the heap nor pending.
LEMMA StopKeepsWatchers ==
  ASSUME WatcherInv, rfeeds = << >>, NEW t \in Timers, StopTimer(t)
  PROVE  WatcherInv'
<1> DEFINE q == ClearPending(Queue, t)
<1>1. /\ heap' = StoppedTimer(t) /\ repeat' = repeat
      /\ SetQueue(q) /\ stopped' = stopped \cup {t} /\ rfeeds' = rfeeds
  BY DEF StopTimer, Returned
<1>2. /\ HeapOK(heap', Timers)
      /\ \A u \in Timers : heap'.active[u] # 0 <=> u # t /\ heap.active[u] # 0
  BY <1>1, WatcherFacts, StoppedTimerLeaves
<1>3. Queue' = q /\ QueueOK(q) /\ Queued(q) = Queued(Queue) \ {t}
  <2>1. t \in Watchers
    BY DEF Watchers
  <2>2. QueueOK(q) /\ Queued(q) = Queued(Queue) \ {t}
    BY <2>1, WatcherFacts, ClearKeepsQueue
  <2> HIDE DEF q
  <2>3. QED
    BY <1>1, <2>2, QueueIsSet
<1> HIDE DEF q
<1>4. TimersOK'
  <2>1. \A u \in Timers : u \in stopped' => heap'.active[u] = 0
    BY <1>1, <1>2, WatcherFacts
  <2>2. rfeeds' = << >> /\ repeat' \in [Timers -> Nat]
    BY <1>1, WatcherFacts
  <2>3. QED
    BY <1>2, <2>1, <2>2 DEF TimersOK
<1>5. PendingOK'
  <2>1. ASSUME NEW w \in Queued(Queue')
        PROVE  MayCallBack(w)'
    <3>1. w \in Queued(Queue) /\ w # t
      BY <1>3
    <3>2. MayCallBack(w)
      BY <3>1, WatcherFacts
    <3>3. QED
      BY <1>1, <1>2, <3>1, <3>2 DEF MayCallBack
  <2>2. QED
    BY <1>3, <2>1 DEF PendingOK
<1> QED  BY <1>1, <1>4, <1>5, WatcherFacts DEF WatcherInv

\* A socket that is opened was not pending under its old descriptor.
LEMMA OpenKeepsWatchers ==
  ASSUME WatcherInv, NEW w \in Ios, OpenSocket(w)
  PROVE  WatcherInv'
<1>1. /\ heap' = heap /\ repeat' = repeat /\ rfeeds' = rfeeds
      /\ pendings' = pendings /\ pending' = pending
      /\ stopped' = stopped \ {w}
  BY DEF OpenSocket, Returned, queueVars
<1>2. Queue' = Queue
  BY <1>1 DEF Queue
<1>3. TimersOK'
  BY <1>1, WatcherFacts DEF TimersOK, MayCallBack
<1>4. PendingOK'
  BY <1>1, <1>2, WatcherFacts DEF PendingOK, MayCallBack
<1> QED  BY <1>1, <1>3, <1>4, WatcherFacts DEF WatcherInv

\* The watcher of a socket that is closed is not pending.
LEMMA CloseKeepsWatchers ==
  ASSUME WatcherInv, rfeeds = << >>, NEW w \in Ios, CloseSocket(w)
  PROVE  WatcherInv'
<1> DEFINE q == ClearPending(Queue, w)
<1>1. /\ heap' = heap /\ repeat' = repeat /\ rfeeds' = rfeeds
      /\ SetQueue(q) /\ stopped' = stopped \cup {w}
  BY DEF CloseSocket, Returned
<1>2. Queue' = q /\ QueueOK(q) /\ Queued(q) = Queued(Queue) \ {w}
  <2>1. w \in Watchers
    BY DEF Watchers
  <2>2. QueueOK(q) /\ Queued(q) = Queued(Queue) \ {w}
    BY <2>1, WatcherFacts, ClearKeepsQueue
  <2> HIDE DEF q
  <2>3. QED
    BY <1>1, <2>2, QueueIsSet
<1> HIDE DEF q
<1>3. w \notin Timers
  BY WatchersAssumption
<1>4. TimersOK'
  <2>1. \A u \in Timers : u \in stopped' => heap'.active[u] = 0
    BY <1>1, <1>3, WatcherFacts
  <2>2. rfeeds' = << >> /\ repeat' \in [Timers -> Nat] /\ HeapOK(heap', Timers)
    BY <1>1, WatcherFacts
  <2>3. QED
    BY <2>1, <2>2 DEF TimersOK
<1>5. PendingOK'
  <2>1. ASSUME NEW v \in Queued(Queue')
        PROVE  MayCallBack(v)'
    <3>1. v \in Queued(Queue) /\ v # w
      BY <1>2
    <3>2. MayCallBack(v)
      BY <3>1, WatcherFacts
    <3>3. QED
      BY <1>1, <3>1, <3>2 DEF MayCallBack
  <2>2. QED
    BY <1>2, <2>1 DEF PendingOK
<1> QED  BY <1>1, <1>4, <1>5, WatcherFacts DEF WatcherInv

\* The timers are left alone, and the queue becomes q.
LEMMA FeedingKeepsWatchers ==
  ASSUME WatcherInv, UNCHANGED <<repeat, rfeeds, stopped>>,
         HeapOK(heap', Timers), heap'.active = heap.active,
         NEW q, SetQueue(q), QueueOK(q), \A w \in Queued(q) : MayCallBack(w)
  PROVE  WatcherInv'
<1>1. Queue' = q
  BY QueueIsSet
<1>2. TimersOK'
  BY WatcherFacts DEF TimersOK, MayCallBack
<1>3. PendingOK'
  BY <1>1 DEF PendingOK, MayCallBack
<1> QED  BY <1>2, <1>3, WatcherFacts DEF WatcherInv

\* The event that is invoked leaves the queue from the end.
LEMMA InvokeKeepsWatchers ==
  ASSUME WatcherInv, Invoke
  PROVE  WatcherInv'
<1>1. PICK p \in Priorities :
        /\ pendings[p] # << >>
        /\ LET e == pendings[p][Len(pendings[p])]
           IN  /\ pendings' = [pendings EXCEPT ![p] = SubSeq(@, 1, Len(@) - 1)]
               /\ pending' = IF e.w = pending_w THEN pending ELSE [pending EXCEPT ![e.w] = 0]
  BY DEF Invoke
<1>2. heap' = heap /\ repeat' = repeat /\ rfeeds' = rfeeds /\ stopped' = stopped
  BY DEF Invoke
<1> DEFINE e == pendings[p][Len(pendings[p])]
           q == [pendings |-> [pendings EXCEPT ![p] = SubSeq(@, 1, Len(@) - 1)],
                 pending |-> IF e.w = pending_w THEN pending ELSE [pending EXCEPT ![e.w] = 0]]
<1>3. Queue.pendings = pendings /\ Queue.pending = pending
  BY DEF Queue
<1>4. QueueOK(q) /\ Queued(q) \subseteq Queued(Queue)
  BY <1>1, <1>3, WatcherFacts, PopKeepsQueue
<1>5. SetQueue(q)
  BY <1>1 DEF SetQueue
<1> HIDE DEF q
<1>6. \A w \in Queued(q) : MayCallBack(w)
  BY <1>4, WatcherFacts
<1>7. HeapOK(heap', Timers) /\ heap'.active = heap.active
  BY <1>2, WatcherFacts
<1> QED  BY <1>2, <1>4, <1>5, <1>6, <1>7, FeedingKeepsWatchers

\* Watchers that are neither timers nor sockets may always be served.
LEMMA OthersMay ==
  ASSUME WatcherInv, NEW w \in SignalSet \cup {Prepare, pipe_w}
  PROVE  MayCallBack(w)
BY WatcherFacts, WatchersAssumption DEF MayCallBack

LEMMA FeedSignalsKeepsWatchers ==
  ASSUME WatcherInv, FeedSignals
  PROVE  WatcherInv'
<1> DEFINE q == SignalsFed(Queue)
<1>1. SetQueue(q)
  BY DEF FeedSignals, SignalsFed
<1>2. heap' = heap /\ repeat' = repeat /\ rfeeds' = rfeeds /\ stopped' = stopped
  BY DEF FeedSignals
<1>3. QueueOK(q) /\ Queued(q) \subseteq Queued(Queue) \cup SignalSet
  BY WatcherFacts, SignalsAreFed
<1> HIDE DEF q
<1>4. \A w \in Queued(q) : MayCallBack(w)
  BY <1>3, WatcherFacts, OthersMay
<1>5. HeapOK(heap', Timers) /\ heap'.active = heap.active
  BY <1>2, WatcherFacts
<1> QED  BY <1>1, <1>2, <1>3, <1>4, <1>5, FeedingKeepsWatchers

LEMMA QueuePrepareKeepsWatchers ==
  ASSUME WatcherInv, QueuePrepare
  PROVE  WatcherInv'
<1> DEFINE q == Feed(Queue, Prepare, {"PREPARE"})
<1>1. SetQueue(q)
  BY DEF QueuePrepare
<1>2. heap' = heap /\ repeat' = repeat /\ rfeeds' = rfeeds /\ stopped' = stopped
  BY DEF QueuePrepare
<1>3. QueueOK(q) /\ Queued(q) = Queued(Queue) \cup {Prepare}
  <2>1. Prepare \in Watchers /\ {"PREPARE"} \in SUBSET EventNames
    BY DEF Watchers, EventNames
  <2>2. QED
    BY <2>1, WatcherFacts, FeedKeepsQueue
<1> HIDE DEF q
<1>4. \A w \in Queued(q) : MayCallBack(w)
  BY <1>3, WatcherFacts, OthersMay
<1>5. HeapOK(heap', Timers) /\ heap'.active = heap.active
  BY <1>2, WatcherFacts
<1> QED  BY <1>1, <1>2, <1>3, <1>4, <1>5, FeedingKeepsWatchers

\* When the loop's time changes all entries of the heap move alike.
LEMMA TimeUpdateKeepsHeap ==
  ASSUME HeapOK(heap, Timers), clock \in Nat, time_update
  PROVE  HeapOK(heap', Timers) /\ heap'.active = heap.active
BY ShiftKeepsHeap DEF time_update

LEMMA ReifyKeepsWatchers ==
  ASSUME WatcherInv, clock \in Nat, Reify
  PROVE  WatcherInv'
<1>1. /\ repeat' = repeat /\ rfeeds' = rfeeds /\ stopped' = stopped
      /\ pendings' = pendings /\ pending' = pending /\ time_update
  BY DEF Reify, queueVars
<1>2. HeapOK(heap', Timers) /\ heap'.active = heap.active
  BY <1>1, WatcherFacts, TimeUpdateKeepsHeap
<1>3. SetQueue(Queue) /\ QueueOK(Queue) /\ \A w \in Queued(Queue) : MayCallBack(w)
  BY <1>1, WatcherFacts DEF SetQueue, Queue
<1> QED  BY <1>1, <1>2, <1>3, FeedingKeepsWatchers

LEMMA WakeKeepsWatchers ==
  ASSUME WatcherInv, clock \in Nat, Wake
  PROVE  WatcherInv'
<1> DEFINE q == IF pipe_write_skipped THEN Feed(Queue, pipe_w, {"CUSTOM"}) ELSE Queue
<1>1. repeat' = repeat /\ rfeeds' = rfeeds /\ stopped' = stopped /\ SetQueue(q) /\ time_update
  BY DEF Wake
<1>2. HeapOK(heap', Timers) /\ heap'.active = heap.active
  BY <1>1, WatcherFacts, TimeUpdateKeepsHeap
<1>3. QueueOK(q) /\ Queued(q) \subseteq Queued(Queue) \cup {pipe_w}
  <2>1. pipe_w \in Watchers /\ {"CUSTOM"} \in SUBSET EventNames
    BY DEF Watchers, EventNames
  <2>2. QED
    BY <2>1, WatcherFacts, FeedKeepsQueue
<1> HIDE DEF q
<1>4. \A w \in Queued(q) : MayCallBack(w)
  BY <1>3, WatcherFacts, OthersMay
<1> QED  BY <1>1, <1>2, <1>3, <1>4, FeedingKeepsWatchers

\* What is reported is a sequence of descriptors.
LEMMA OrdersAreSequences ==
  ASSUME NEW S \in SUBSET AllFds, NEW order \in Orders(S)
  PROVE  order \in Seq(AllFds)
<1>1. IsFiniteSet(S)
  BY DescriptorsAssumption, FS_Subset
<1> DEFINE n == Cardinality(S)
<1>2. n \in Nat
  BY <1>1, FS_CardinalityType
<1>3. order \in [1 .. n -> S]
  BY DEF Orders
<1> HIDE DEF n
<1> QED  BY <1>2, <1>3

\* Every report of a backend is a sequence of descriptors.
LEMMA ReportsAreSequences ==
  ASSUME ready \subseteq AllFds, backend \in Backends, NEW order \in Reported
  PROVE  order \in Seq(AllFds)
<1>1. CASE backend = "epoll"
  <2>1. order \in Orders({f \in ready : epoll[f] # None})
    BY <1>1 DEF Reported, EpollReports
  <2>2. QED
    BY <2>1, OrdersAreSequences
<1>2. CASE backend = "poll"
  <2>1. order \in Orders({polls[i] : i \in DOMAIN polls} \cap ready)
    BY <1>2 DEF Reported, PollReports
  <2>2. QED
    BY <2>1, OrdersAreSequences
<1>3. CASE backend = "select"
  <2>1. order \in Orders(ready \cap vec_ri)
    BY <1>3 DEF Reported, SelectReports
  <2>2. QED
    BY <2>1, OrdersAreSequences
<1> QED  BY <1>1, <1>2, <1>3 DEF Backends

\* What is reported belongs to sockets that are watched.
LEMMA PollReturnsKeepsWatchers ==
  ASSUME WatcherInv, IoInv, ready \subseteq AllFds, PollReturns
  PROVE  WatcherInv'
<1> DEFINE W == {w \in Ios : fd[w] # None} \cup {pipe_w}
<1>1. SocketsOK /\ backend \in Backends
  BY DEF IoInv
<1>2. PICK order \in Reported : SetQueue(ReportsFed(Queue, order))
  BY DEF PollReturns, ReportsFed
<1> DEFINE q == ReportsFed(Queue, order)
<1>3. heap' = heap /\ repeat' = repeat /\ rfeeds' = rfeeds /\ stopped' = stopped
  BY DEF PollReturns
<1>4. ASSUME NEW f \in AllFds
      PROVE  anfds[f].head \in Seq(W)
  <2>1. CASE f = evpipe
    <3>1. anfds[f].head \in {<< >>, <<pipe_w>>} /\ pipe_w \in W
      BY <1>1, <2>1 DEF SocketsOK
    <3> HIDE DEF W
    <3>2. << >> \in Seq(W) /\ <<pipe_w>> \in Seq(W)
      BY <3>1
    <3>3. QED
      BY <3>1, <3>2, Zenon
  <2>2. CASE f # evpipe /\ anfds[f].head = << >>
    BY <2>2
  <2>3. CASE f # evpipe /\ anfds[f].head # << >>
    <3>1. PICK w \in Ios : fd[w] = f
      BY <1>1, <2>3 DEF SocketsOK
    <3>2. w \in W /\ anfds[f].head = <<w>>
      BY <3>1, HeadFacts, DescriptorsAssumption
    <3> HIDE DEF W
    <3>3. QED
      BY <3>2
  <2>4. QED
    BY <2>1, <2>2, <2>3
<1>5. W \in SUBSET Watchers /\ order \in Seq(AllFds)
  BY <1>1, ReportsAreSequences DEF Watchers
<1>6. QueueOK(q) /\ Queued(q) \subseteq Queued(Queue) \cup W
  <2> HIDE DEF W
  <2> QED  BY <1>4, <1>5, WatcherFacts, ReportsAreFed
<1>7. \A w \in W : MayCallBack(w)
  BY <1>1, WatchersAssumption, OthersMay DEF SocketsOK, MayCallBack
<1> HIDE DEF q, W
<1>8. \A w \in Queued(q) : MayCallBack(w)
  BY <1>6, <1>7, WatcherFacts
<1>9. HeapOK(heap', Timers) /\ heap'.active = heap.active
  BY <1>3, WatcherFacts
<1> QED  BY <1>2, <1>3, <1>6, <1>8, <1>9, FeedingKeepsWatchers DEF q

\* The timers found due become pending.
LEMMA TimersDoneKeepsWatchers ==
  ASSUME WatcherInv, TimersDone
  PROVE  WatcherInv'
<1> DEFINE q == FeedAll(Queue, rfeeds, {"TIMER"})
<1>1. SetQueue(q) /\ rfeeds' = << >> /\ heap' = heap /\ repeat' = repeat /\ stopped' = stopped
  BY DEF TimersDone
<1>2. QueueOK(q) /\ Queued(q) = Queued(Queue) \cup {rfeeds[i] : i \in 1 .. Len(rfeeds)}
  <2>1. {"TIMER"} \in SUBSET EventNames /\ Timers \subseteq Watchers
    BY DEF EventNames, Watchers
  <2>2. rfeeds \in Seq(Watchers)
    BY <2>1, WatcherFacts
  <2>3. QED
    BY <2>1, <2>2, WatcherFacts, FeedAllKeepsQueue
<1> HIDE DEF q
<1>3. \A w \in Queued(q) : MayCallBack(w)
  BY <1>2, WatcherFacts
<1>4. Queue' = q
  BY <1>1, <1>2, QueueIsSet
<1>5. TimersOK'
  BY <1>1, WatcherFacts DEF TimersOK
<1>6. PendingOK'
  BY <1>1, <1>2, <1>3, <1>4 DEF PendingOK, MayCallBack
<1> QED  BY <1>1, <1>5, <1>6, WatcherFacts DEF WatcherInv

\* A timer found due is postponed, or stopped and no longer pending, and may be served.
LEMMA ExpiryKeepsWatchers ==
  ASSUME WatcherInv, TimerExpires
  PROVE  WatcherInv'
<1>0. PICK t : t = heap.timers[1].w
  OBVIOUS
<1> DEFINE at == heap.timers[1].at
           later == at + repeat[t]
           then == IF later < 0 THEN 0 ELSE later
<1>1. /\ heap.timers # << >> /\ at < 0
      /\ heap' = IF repeat[t] # 0 THEN HeapPostpone(heap, then) ELSE HeapRemove(heap, t)
      /\ SetQueue(IF repeat[t] # 0 THEN Queue ELSE ClearPending(Queue, t))
      /\ rfeeds' = <<t>> \o rfeeds
      /\ repeat' = repeat /\ stopped' = stopped
  BY <1>0 DEF TimerExpires, FirstIsDue
<1>2. /\ HeapOK(heap, Timers) /\ repeat \in [Timers -> Nat] /\ rfeeds \in Seq(Timers)
      /\ QueueOK(Queue)
  BY WatcherFacts
<1>3. t \in Timers /\ at \in Int /\ heap.active[t] # 0
  <2>1. /\ heap.timers \in Seq(Entries(Timers))
        /\ \A i \in 1 .. Len(heap.timers) :
             /\ heap.timers[i].w \in Timers /\ heap.timers[i].at \in Int
             /\ heap.active[heap.timers[i].w] = i
    BY <1>2, HeapFacts
  <2>2. 1 \in 1 .. Len(heap.timers)
    BY <1>1, <2>1
  <2>3. QED
    BY <1>0, <2>1, <2>2
<1>4. t \notin stopped
  BY <1>3, WatcherFacts
<1>5. then \in Int /\ at <= then
  BY <1>1, <1>2, <1>3
<1> HIDE DEF at, then
<1>6. /\ HeapOK(heap', Timers)
      /\ \A u \in Timers : heap'.active[u] # 0 <=>
           heap.active[u] # 0 /\ ~ (u = t /\ repeat[t] = 0)
  <2>1. CASE repeat[t] # 0
    BY <1>1, <1>2, <1>5, <2>1, PostponeKeepsHeap DEF at
  <2>2. CASE repeat[t] = 0
    BY <1>1, <1>2, <1>3, <2>2, RemoveKeepsHeap
  <2>3. QED
    BY <2>1, <2>2
<1>7. ASSUME NEW w, MayCallBack(w)
      PROVE  MayCallBack(w)'
  BY <1>1, <1>6, <1>7 DEF MayCallBack
<1>8. MayCallBack(t)'
  BY <1>1, <1>3, <1>4, <1>6 DEF MayCallBack
<1>9. rfeeds' \in Seq(Timers) /\ \A i \in 1 .. Len(rfeeds') : MayCallBack(rfeeds[i])'
  <2>1. <<t>> \in Seq(Timers) /\ Len(<<t>>) = 1 /\ <<t>>[1] = t
    BY <1>3
  <2> DEFINE one == <<t>>
  <2> HIDE DEF one
  <2>2. /\ one \o rfeeds \in Seq(Timers) /\ Len(one \o rfeeds) = Len(rfeeds) + 1
        /\ \A i \in 1 .. Len(rfeeds) + 1 :
             (one \o rfeeds)[i] = IF i = 1 THEN t ELSE rfeeds[i - 1]
    BY <1>2, <2>1 DEF one
  <2>3. Len(rfeeds) \in Nat
    BY <1>2
  <2>4. ASSUME NEW i \in 1 .. Len(rfeeds')
        PROVE  MayCallBack(rfeeds[i])'
    <3>1. CASE i = 1
      BY <1>1, <1>8, <2>2, <2>4, <3>1 DEF one
    <3>2. CASE i # 1
      <4>1. i - 1 \in 1 .. Len(rfeeds) /\ rfeeds'[i] = rfeeds[i - 1]
        BY <1>1, <2>2, <2>3, <3>2 DEF one
      <4>2. MayCallBack(rfeeds[i - 1])
        BY <4>1, WatcherFacts
      <4>3. QED
        BY <1>7, <4>1, <4>2
    <3>3. QED
      BY <3>1, <3>2
  <2>5. QED
    BY <1>1, <2>2, <2>4 DEF one
<1>10. TimersOK'
  <2>1. \A u \in Timers : u \in stopped' => heap'.active[u] = 0
    BY <1>1, <1>6, WatcherFacts
  <2>2. QED
    BY <1>1, <1>2, <1>6, <1>9, <2>1 DEF TimersOK
<1>11. PendingOK'
  <2> DEFINE q == IF repeat[t] # 0 THEN Queue ELSE ClearPending(Queue, t)
  <2>1. QueueOK(q) /\ Queued(q) \subseteq Queued(Queue)
    <3>1. t \in Watchers
      BY <1>3 DEF Watchers
    <3>2. QED
      BY <1>2, <3>1, ClearKeepsQueue
  <2>2. SetQueue(q)
    BY <1>1
  <2> HIDE DEF q
  <2>3. Queue' = q
    BY <2>1, <2>2, QueueIsSet
  <2>4. ASSUME NEW w \in Queued(Queue')
        PROVE  MayCallBack(w)'
    <3>1. MayCallBack(w)
      BY <2>1, <2>3, WatcherFacts
    <3>2. QED
      BY <1>7, <3>1
  <2>5. QED
    BY <2>1, <2>3, <2>4 DEF PendingOK
<1> QED  BY <1>1, <1>10, <1>11, WatcherFacts DEF WatcherInv

-----------------------------------------------------------------------------
(* Where ev_run is *)

\* Outside of decide and poll nothing is asked of the sleep.
LEMMA AwakePhase ==
  ASSUME SignalsOK, phase' \notin {"decide", "poll"},
         clock' \in Nat, ready' \subseteq AllFds, phase' # "timers" => rfeeds' = << >>,
         handled' \subseteq SignalSet, pipe_write_skipped' \in BOOLEAN,
         sig_pending' \in BOOLEAN, pipe_write_wanted' \in BOOLEAN,
         phase' # "program" => handled' = SignalSet,
         sig_pending' => phase' = "pipecb" \/ evpipe \in ready' \/ pipe_write_skipped'
  PROVE  PhaseInv'
BY DEF PhaseInv, SignalsOK, SleepOK

\* In a callback the loop stays where it is.
LEMMA CallsKeepPhase ==
  ASSUME PhaseInv, phase = "program", UNCHANGED <<signalVars, phase, rfeeds, clock>>,
         ready' \subseteq ready, evpipe \in ready => evpipe \in ready'
  PROVE  PhaseInv'
BY DEF PhaseInv, SignalsOK, SleepOK, signalVars

LEMMA ReturnKeepsPhase ==
  ASSUME PhaseInv, Return
  PROVE  PhaseInv'
<1>1. SignalsOK /\ clock \in Nat /\ ready \subseteq AllFds /\ (phase # "timers" => rfeeds = << >>)
  BY DEF PhaseInv
<1> QED  BY <1>1, AwakePhase DEF SignalsOK, Return, signalVars, kernelVars

LEMMA LookForSignalsKeepsPhase ==
  ASSUME PhaseInv, LookForSignals
  PROVE  PhaseInv'
<1>1. SignalsOK /\ clock \in Nat /\ ready \subseteq AllFds /\ (phase # "timers" => rfeeds = << >>)
  BY DEF PhaseInv
<1> QED  BY <1>1, AwakePhase DEF SignalsOK, LookForSignals, kernelVars

LEMMA FeedSignalsKeepsPhase ==
  ASSUME PhaseInv, FeedSignals
  PROVE  PhaseInv'
<1>1. SignalsOK /\ clock \in Nat /\ ready \subseteq AllFds /\ (phase # "timers" => rfeeds = << >>)
  BY DEF PhaseInv
<1> QED  BY <1>1, AwakePhase DEF SignalsOK, FeedSignals, kernelVars

LEMMA QueuePrepareKeepsPhase ==
  ASSUME PhaseInv, QueuePrepare
  PROVE  PhaseInv'
<1>1. SignalsOK /\ clock \in Nat /\ ready \subseteq AllFds /\ (phase # "timers" => rfeeds = << >>)
  BY DEF PhaseInv
<1> QED  BY <1>1, AwakePhase DEF SignalsOK, QueuePrepare, NonePending, signalVars, kernelVars

LEMMA PollReturnsKeepsPhase ==
  ASSUME PhaseInv, PollReturns
  PROVE  PhaseInv'
<1>1. SignalsOK /\ clock \in Nat /\ ready \subseteq AllFds /\ (phase # "timers" => rfeeds = << >>)
  BY DEF PhaseInv
<1> QED  BY <1>1, AwakePhase DEF SignalsOK, PollReturns, signalVars

LEMMA StopWantingKeepsPhase ==
  ASSUME PhaseInv, StopWanting
  PROVE  PhaseInv'
<1>1. SignalsOK /\ clock \in Nat /\ ready \subseteq AllFds /\ (phase # "timers" => rfeeds = << >>)
  BY DEF PhaseInv
<1> QED  BY <1>1, AwakePhase DEF SignalsOK, StopWanting, kernelVars

LEMMA WakeKeepsPhase ==
  ASSUME PhaseInv, Wake
  PROVE  PhaseInv'
<1>1. SignalsOK /\ clock \in Nat /\ ready \subseteq AllFds /\ (phase # "timers" => rfeeds = << >>)
  BY DEF PhaseInv
<1> QED  BY <1>1, AwakePhase DEF SignalsOK, Wake, time_update, signalVars

LEMMA TimerExpiresKeepsPhase ==
  ASSUME PhaseInv, TimerExpires
  PROVE  PhaseInv'
<1>1. SignalsOK /\ clock \in Nat /\ ready \subseteq AllFds /\ (phase # "timers" => rfeeds = << >>)
  BY DEF PhaseInv
<1> QED  BY <1>1, AwakePhase DEF SignalsOK, TimerExpires, signalVars, kernelVars

LEMMA TimersDoneKeepsPhase ==
  ASSUME PhaseInv, TimersDone
  PROVE  PhaseInv'
<1>1. SignalsOK /\ clock \in Nat /\ ready \subseteq AllFds /\ (phase # "timers" => rfeeds = << >>)
  BY DEF PhaseInv
<1> QED  BY <1>1, AwakePhase DEF SignalsOK, TimersDone, signalVars, kernelVars

LEMMA InvokeKeepsPhase ==
  ASSUME PhaseInv, SocketsOK, Invoke
  PROVE  PhaseInv'
<1>1. SignalsOK /\ clock \in Nat /\ ready \subseteq AllFds /\ (phase # "timers" => rfeeds = << >>)
  BY DEF PhaseInv
<1>2. PICK p \in Priorities :
        LET e == pendings[p][Len(pendings[p])]
        IN  /\ phase' = IF e.w = pending_w THEN "invoke"
                        ELSE IF e.w = pipe_w THEN "pipecb" ELSE "program"
            /\ ready' = IF e.w \in Ios THEN ready \ {fd[e.w]}
                        ELSE IF e.w = pipe_w /\ "READ" \in e.events THEN ready \ {evpipe}
                        ELSE ready
            /\ pipe_write_skipped' = (pipe_write_skipped /\ e.w # pipe_w)
  BY DEF Invoke
<1>3. /\ phase = "invoke" /\ rfeeds' = rfeeds /\ clock' = clock
      /\ handled' = handled /\ sig_pending' = sig_pending
      /\ pipe_write_wanted' = pipe_write_wanted
  BY DEF Invoke
<1> DEFINE e == pendings[p][Len(pendings[p])]
<1>4. ready' \subseteq AllFds /\ phase' \in {"invoke", "pipecb", "program"}
      /\ pipe_write_skipped' \in BOOLEAN
  BY <1>1, <1>2
<1>5. ASSUME sig_pending
      PROVE  phase' = "pipecb" \/ evpipe \in ready' \/ pipe_write_skipped'
  <2>1. evpipe \in ready \/ pipe_write_skipped
    BY <1>1, <1>3, <1>5 DEF SignalsOK
  <2>2. CASE e.w = pipe_w
    BY <1>2, <2>2, WatchersAssumption DEF Watchers
  <2>3. CASE e.w # pipe_w
    <3>1. e.w \in Ios => fd[e.w] # evpipe
      BY EvpipeIsOne, DescriptorsAssumption DEF SocketsOK
    <3>2. QED
      BY <1>2, <2>1, <2>3, <3>1
  <2>4. QED
    BY <2>2, <2>3
<1> QED  BY <1>1, <1>3, <1>4, <1>5, AwakePhase DEF SignalsOK

\* Before the loop decides how long to sleep nothing is left to tell the backend.
LEMMA ReifyKeepsPhase ==
  ASSUME PhaseInv, Reify, \A f \in AllFds : anfds'[f].reify = {}
  PROVE  PhaseInv'
<1>1. SignalsOK /\ clock \in Nat /\ ready \subseteq AllFds /\ (phase # "timers" => rfeeds = << >>)
  BY DEF PhaseInv
<1>2. /\ phase = "invoke" /\ phase' = "decide" /\ pipe_write_wanted' = TRUE
      /\ handled' = handled /\ sig_pending' = sig_pending
      /\ pipe_write_skipped' = pipe_write_skipped
      /\ rfeeds' = rfeeds /\ clock' = 0 /\ ready' = ready
  BY DEF Reify, NonePending, time_update
<1> QED  BY <1>1, <1>2 DEF PhaseInv, SignalsOK, SleepOK

\* The sleep ends before the first timer is due, which is before all others.
LEMMA StartPollingKeepsPhase ==
  ASSUME PhaseInv, HeapOK(heap, Timers), StartPolling
  PROVE  PhaseInv'
<1>1. SignalsOK /\ SleepOK /\ clock \in Nat /\ ready \subseteq AllFds
      /\ (phase # "timers" => rfeeds = << >>)
  BY DEF PhaseInv
<1>2. /\ phase = "decide" /\ phase' = "poll" /\ wake' = waittime
      /\ heap' = heap /\ anfds' = anfds /\ backend' = backend /\ rfeeds' = rfeeds
      /\ handled' = handled /\ sig_pending' = sig_pending
      /\ pipe_write_wanted' = pipe_write_wanted
      /\ pipe_write_skipped' = pipe_write_skipped
      /\ clock' = clock /\ ready' = ready
  BY DEF StartPolling, ioVars, signalVars, kernelVars
<1>3. SignalsOK'
  BY <1>1, <1>2 DEF SignalsOK
<1>4. sig_pending => evpipe \in ready \/ waittime = 0
  BY <1>1, <1>2 DEF SignalsOK, waittime
<1>5. ASSUME NEW i \in 1 .. Len(heap.timers)
      PROVE  waittime <= heap.timers[i].at \/ waittime <= backend_mintime
  <2>1. /\ DOMAIN heap.timers = 1 .. Len(heap.timers)
        /\ heap.timers[i].at \in Int
    BY HeapFacts
  <2>2. heap.timers # << >> /\ heap.timers[1].at <= heap.timers[i].at
    BY <2>1, RootIsFirst
  <2>3. heap.timers[1].at \in Int
    <3>1. /\ heap.timers \in Seq(Entries(Timers))
          /\ \A j \in 1 .. Len(heap.timers) : heap.timers[j].at \in Int
      BY HeapFacts
    <3>2. 1 \in 1 .. Len(heap.timers)
      BY <2>2, <3>1
    <3>3. QED
      BY <3>1, <3>2
  <2>4. backend_mintime \in Nat /\ MAX_BLOCKTIME \in Nat
    BY BoundsAssumption DEF backend_mintime, MAX_BLOCKTIME
  <2> DEFINE at == heap.timers[i].at
             to == heap.timers[1].at
  <2>5. waittime = IF pipe_write_skipped THEN 0
                   ELSE IF to < backend_mintime THEN backend_mintime
                   ELSE IF to < MAX_BLOCKTIME THEN to ELSE MAX_BLOCKTIME
    BY <2>2 DEF waittime
  <2> HIDE DEF at, to
  <2>6. waittime <= at \/ waittime <= backend_mintime
    BY <2>1, <2>2, <2>3, <2>4, <2>5 DEF at, to
  <2>7. QED
    BY <2>6 DEF at
<1>6. SleepOK'
  <2>1. backend_mintime' = backend_mintime
    BY <1>2 DEF backend_mintime
  <2>2. QED
    BY <1>1, <1>2, <1>4, <1>5, <2>1 DEF SleepOK
<1> QED  BY <1>1, <1>2, <1>3, <1>6 DEF PhaseInv

\* No signal comes before its watcher is started.
LEMMA StartSignalKeepsPhase ==
  ASSUME PhaseInv, NEW s \in SignalSet, StartSignal(s)
  PROVE  PhaseInv'
<1>1. SignalsOK /\ clock \in Nat /\ ready \subseteq AllFds /\ (phase # "timers" => rfeeds = << >>)
  BY DEF PhaseInv
<1>2. /\ s \notin handled /\ handled' = handled \cup {s} /\ phase' = phase /\ rfeeds' = rfeeds
      /\ clock' = clock /\ ready' = ready /\ sig_pending' = sig_pending
      /\ pipe_write_wanted' = pipe_write_wanted
      /\ pipe_write_skipped' = pipe_write_skipped
  BY DEF StartSignal, loopVars, kernelVars
<1>3. phase = "program"
  BY <1>1, <1>2 DEF SignalsOK
<1> QED  BY <1>1, <1>2, <1>3, AwakePhase DEF SignalsOK

\* A signal that arrives while the loop sleeps, or before, wakes it.
LEMMA RaiseKeepsPhase ==
  ASSUME PhaseInv, NEW s \in SignalSet, Raise(s)
  PROVE  PhaseInv'
<1>1. SignalsOK /\ SleepOK /\ clock \in Nat /\ ready \subseteq AllFds
      /\ (phase # "timers" => rfeeds = << >>)
  BY DEF PhaseInv
<1>2. /\ heap' = heap /\ anfds' = anfds /\ backend' = backend /\ rfeeds' = rfeeds
      /\ phase' = phase /\ wake' = wake /\ handled' = handled
      /\ pipe_write_wanted' = pipe_write_wanted /\ clock' = clock /\ evpipe_write
  BY DEF Raise, ioVars, loopVars
<1>3. /\ sig_pending' = TRUE
      /\ pipe_write_skipped' = IF sig_pending THEN pipe_write_skipped ELSE ~pipe_write_wanted
      /\ ready' = IF ~sig_pending /\ pipe_write_wanted THEN ready \cup {evpipe} ELSE ready
  BY <1>2 DEF evpipe_write
<1>4. ready' \subseteq AllFds
  BY <1>1, <1>3, EvpipeIsOne
<1>5. SignalsOK'
  BY <1>1, <1>2, <1>3 DEF SignalsOK
<1>6. SleepOK'
  <2>1. backend_mintime' = backend_mintime
    BY <1>2 DEF backend_mintime
  <2>2. phase = "poll" => evpipe \in ready' \/ wake = 0
    BY <1>1, <1>3 DEF SleepOK, SignalsOK
  <2>3. QED
    BY <1>1, <1>2, <2>1, <2>2 DEF SleepOK
<1> QED  BY <1>1, <1>2, <1>4, <1>5, <1>6 DEF PhaseInv

LEMMA ArriveKeepsPhase ==
  ASSUME PhaseInv, NEW f \in AllFds, Arrive(f)
  PROVE  PhaseInv'
<1>1. /\ heap' = heap /\ anfds' = anfds /\ backend' = backend /\ rfeeds' = rfeeds
      /\ phase' = phase /\ wake' = wake /\ handled' = handled
      /\ sig_pending' = sig_pending /\ pipe_write_wanted' = pipe_write_wanted
      /\ pipe_write_skipped' = pipe_write_skipped
      /\ clock' = clock /\ ready' = ready \cup {f}
  BY DEF Arrive, ioVars, loopVars, signalVars
<1>2. backend_mintime' = backend_mintime
  BY <1>1 DEF backend_mintime
<1> QED  BY <1>1, <1>2 DEF PhaseInv, SignalsOK, SleepOK

LEMMA TickKeepsPhase ==
  ASSUME PhaseInv, Tick
  PROVE  PhaseInv'
<1>1. /\ heap' = heap /\ anfds' = anfds /\ backend' = backend /\ rfeeds' = rfeeds
      /\ phase' = phase /\ wake' = wake /\ handled' = handled
      /\ sig_pending' = sig_pending /\ pipe_write_wanted' = pipe_write_wanted
      /\ pipe_write_skipped' = pipe_write_skipped
      /\ clock' = clock + 1 /\ ready' = ready
  BY DEF Tick, ioVars, loopVars, signalVars
<1>2. backend_mintime' = backend_mintime
  BY <1>1 DEF backend_mintime
<1>3. clock' \in Nat
  BY <1>1 DEF PhaseInv
<1> QED  BY <1>1, <1>2, <1>3 DEF PhaseInv, SignalsOK, SleepOK

-----------------------------------------------------------------------------
(* The invariant is inductive *)

\* What is known of the state a step starts from.
LEMMA InvFacts ==
  ASSUME LoopInv
  PROVE  /\ IoInv /\ WatcherInv /\ PhaseInv /\ SocketsOK /\ backend \in Backends
         /\ HeapOK(heap, Timers) /\ stopped \subseteq Timers \cup Ios
         /\ clock \in Nat /\ ready \subseteq AllFds
         /\ phase # "timers" => rfeeds = << >>
BY DEF LoopInv, IoInv, WatcherInv, TimersOK, PhaseInv

\* The three parts of the invariant hold at first.
LEMMA InvInit ==
  ASSUME Init
  PROVE  LoopInv
BY IoInvInit, WatcherInvInit, PhaseInvInit DEF LoopInv

\* The calls of the program.
LEMMA CallsKeepInv ==
  ASSUME LoopInv,
         \/ \E t \in Timers : \E s \in Settings[backend][t] : RestartTimer(t, s)
         \/ \E t \in Timers : StopTimer(t)
         \/ \E w \in Ios : OpenSocket(w) \/ CloseSocket(w)
  PROVE  LoopInv'
<1>1. CASE \E t \in Timers : \E s \in Settings[backend][t] : RestartTimer(t, s)
  <2>0. PICK t \in Timers : \E s \in Settings[backend][t] : RestartTimer(t, s)
    BY <1>1
  <2>1. PICK s \in Settings[backend][t] : RestartTimer(t, s)
    BY <2>0
  <2>2. /\ phase = "program" /\ phase' = phase /\ backend' = backend /\ rfeeds' = rfeeds
        /\ UNCHANGED <<ioVars, signalVars, kernelVars>> /\ stopped' \subseteq stopped \cup Timers
    BY <2>1 DEF RestartTimer, Call, Returned, ioVars
  <2>3. IoInv'
    BY <2>2, InvFacts, IoFrame DEF kernelVars
  <2>4. WatcherInv'
    BY <2>1, <2>2, InvFacts, RestartKeepsWatchers
  <2>5. PhaseInv'
    BY <2>2, InvFacts, CallsKeepPhase DEF kernelVars
  <2>6. QED
    BY <2>3, <2>4, <2>5 DEF LoopInv
<1>2. CASE \E t \in Timers : StopTimer(t)
  <2>1. PICK t \in Timers : StopTimer(t)
    BY <1>2
  <2>2. /\ phase = "program" /\ phase' = phase /\ backend' = backend /\ rfeeds' = rfeeds
        /\ UNCHANGED <<ioVars, signalVars, kernelVars>> /\ stopped' \subseteq stopped \cup Timers
    BY <2>1 DEF StopTimer, Call, Returned, ioVars
  <2>3. IoInv'
    BY <2>2, InvFacts, IoFrame DEF kernelVars
  <2>4. WatcherInv'
    BY <2>1, <2>2, InvFacts, StopKeepsWatchers
  <2>5. PhaseInv'
    BY <2>2, InvFacts, CallsKeepPhase DEF kernelVars
  <2>6. QED
    BY <2>3, <2>4, <2>5 DEF LoopInv
<1>3. CASE \E w \in Ios : OpenSocket(w)
  <2>1. PICK w \in Ios : OpenSocket(w)
    BY <1>3
  <2>2. /\ phase = "program" /\ phase' = phase /\ rfeeds' = rfeeds
        /\ UNCHANGED signalVars /\ clock' = clock /\ ready' = ready
    BY <2>1 DEF OpenSocket, Call, Returned
  <2>3. IoInv'
    BY <2>1, InvFacts, OpenKeepsIo
  <2>4. WatcherInv'
    BY <2>1, InvFacts, OpenKeepsWatchers
  <2>5. PhaseInv'
    BY <2>2, InvFacts, CallsKeepPhase
  <2>6. QED
    BY <2>3, <2>4, <2>5 DEF LoopInv
<1>4. CASE \E w \in Ios : CloseSocket(w)
  <2>1. PICK w \in Ios : CloseSocket(w)
    BY <1>4
  <2>2. /\ phase = "program" /\ phase' = phase /\ rfeeds' = rfeeds
        /\ UNCHANGED signalVars /\ clock' = clock /\ ready' = ready \ {fd[w]} /\ fd[w] # None
    BY <2>1 DEF CloseSocket, Call, Returned
  <2>3. IoInv'
    BY <2>1, InvFacts, CloseKeepsIo
  <2>4. WatcherInv'
    BY <2>1, <2>2, InvFacts, CloseKeepsWatchers
  <2>5. fd[w] # evpipe
    BY <2>2, InvFacts DEF SocketsOK
  <2>6. PhaseInv'
    BY <2>2, <2>5, InvFacts, CallsKeepPhase
  <2>7. QED
    BY <2>3, <2>4, <2>6 DEF LoopInv
<1> QED  BY <1>1, <1>2, <1>3, <1>4

\* The steps of ev_run that leave the descriptors and the watchers alone.
LEMMA PlainStepsKeepInv ==
  ASSUME LoopInv, Return \/ LookForSignals \/ StartPolling \/ StopWanting
  PROVE  LoopInv'
<1>1. /\ UNCHANGED <<backend, ioVars, open, epoll, stopped>>
      /\ UNCHANGED <<heap, repeat, queueVars, rfeeds>>
  <2>1. CASE Return
    BY <2>1 DEF Return, kernelVars
  <2>2. CASE LookForSignals
    BY <2>2 DEF LookForSignals, kernelVars
  <2>3. CASE StartPolling
    BY <2>3 DEF StartPolling, kernelVars
  <2>4. CASE StopWanting
    BY <2>4 DEF StopWanting, kernelVars
  <2>5. QED
    BY <2>1, <2>2, <2>3, <2>4
<1>2. IoInv'
  BY <1>1, InvFacts, IoFrame
<1>3. WatcherInv'
  BY <1>1, InvFacts, WatcherFrame
<1>4. PhaseInv'
  BY InvFacts, ReturnKeepsPhase, LookForSignalsKeepsPhase, StartPollingKeepsPhase,
     StopWantingKeepsPhase
<1> QED  BY <1>2, <1>3, <1>4 DEF LoopInv

\* The steps of ev_run that feed or invoke watchers, and those that serve the timers.
LEMMA ServiceKeepsInv ==
  ASSUME LoopInv,
         \/ Invoke \/ FeedSignals \/ QueuePrepare \/ PollReturns \/ Wake
         \/ TimerExpires \/ TimersDone
  PROVE  LoopInv'
<1>1. UNCHANGED <<backend, ioVars, open, epoll, stopped>>
  <2>1. CASE Invoke
    BY <2>1 DEF Invoke
  <2>2. CASE FeedSignals
    BY <2>2 DEF FeedSignals, kernelVars
  <2>3. CASE QueuePrepare
    BY <2>3 DEF QueuePrepare, kernelVars
  <2>4. CASE PollReturns
    BY <2>4 DEF PollReturns
  <2>5. CASE Wake
    BY <2>5 DEF Wake
  <2>6. CASE TimerExpires
    BY <2>6 DEF TimerExpires, kernelVars
  <2>7. CASE TimersDone
    BY <2>7 DEF TimersDone, kernelVars
  <2>8. QED
    BY <2>1, <2>2, <2>3, <2>4, <2>5, <2>6, <2>7, SMTT(30)
<1>2. IoInv'
  BY <1>1, InvFacts, IoFrame
<1>3. WatcherInv'
  BY InvFacts, InvokeKeepsWatchers, FeedSignalsKeepsWatchers, QueuePrepareKeepsWatchers,
     PollReturnsKeepsWatchers, WakeKeepsWatchers, ExpiryKeepsWatchers,
     TimersDoneKeepsWatchers
<1>4. PhaseInv'
  BY InvFacts, InvokeKeepsPhase, FeedSignalsKeepsPhase, QueuePrepareKeepsPhase,
     PollReturnsKeepsPhase, WakeKeepsPhase, TimerExpiresKeepsPhase, TimersDoneKeepsPhase
<1> QED  BY <1>2, <1>3, <1>4 DEF LoopInv

LEMMA ReifyKeepsInv ==
  ASSUME LoopInv, Reify
  PROVE  LoopInv'
<1>1. IoInv' /\ \A f \in AllFds : anfds'[f].reify = {}
  BY InvFacts, ReifyKeepsIo
<1>2. WatcherInv'
  BY InvFacts, ReifyKeepsWatchers
<1>3. PhaseInv'
  BY <1>1, InvFacts, ReifyKeepsPhase
<1> QED  BY <1>1, <1>2, <1>3 DEF LoopInv

LEMMA StartSignalKeepsInv ==
  ASSUME LoopInv, NEW s \in SignalSet, StartSignal(s)
  PROVE  LoopInv'
<1>1. IoInv'
  BY InvFacts, StartSignalKeepsIo
<1>2. UNCHANGED <<heap, repeat, queueVars, rfeeds, stopped>>
  BY DEF StartSignal, loopVars
<1>3. WatcherInv'
  BY <1>2, InvFacts, WatcherFrame
<1>4. PhaseInv'
  BY InvFacts, StartSignalKeepsPhase
<1> QED  BY <1>1, <1>3, <1>4 DEF LoopInv

\* Signals, what arrives at the sockets, and the clock.
LEMMA AroundKeepsInv ==
  ASSUME LoopInv,
         \/ \E s \in SignalSet : Raise(s)
         \/ \E f \in AllFds : Arrive(f)
         \/ Tick
  PROVE  LoopInv'
<1>1. /\ UNCHANGED <<backend, ioVars, open, epoll, stopped>>
      /\ UNCHANGED <<heap, repeat, queueVars, rfeeds>>
  <2>1. CASE \E s \in SignalSet : Raise(s)
    BY <2>1 DEF Raise, loopVars
  <2>2. CASE \E f \in AllFds : Arrive(f)
    BY <2>2 DEF Arrive, loopVars
  <2>3. CASE Tick
    BY <2>3 DEF Tick, loopVars
  <2>4. QED
    BY <2>1, <2>2, <2>3
<1>2. IoInv'
  BY <1>1, InvFacts, IoFrame
<1>3. WatcherInv'
  BY <1>1, InvFacts, WatcherFrame
<1>4. PhaseInv'
  BY InvFacts, RaiseKeepsPhase, ArriveKeepsPhase, TickKeepsPhase
<1> QED  BY <1>2, <1>3, <1>4 DEF LoopInv

\* A step that changes nothing changes nothing of the invariant.
LEMMA StutteringKeepsInv ==
  ASSUME LoopInv, UNCHANGED vars
  PROVE  LoopInv'
<1>1. /\ UNCHANGED <<backend, ioVars, open, epoll, stopped>>
      /\ UNCHANGED <<heap, repeat, queueVars, rfeeds>>
  BY DEF vars, loopVars, kernelVars
<1>2. IoInv'
  BY <1>1, InvFacts, IoFrame
<1>3. WatcherInv'
  BY <1>1, InvFacts, WatcherFrame
<1>4. PhaseInv'
  <2>1. /\ UNCHANGED <<clock, ready, phase, rfeeds, heap, wake, anfds, backend>>
        /\ UNCHANGED <<handled, signals, sig_pending, pipe_write_wanted, pipe_write_skipped>>
    BY DEF vars, loopVars, kernelVars, ioVars, signalVars
  <2>2. backend_mintime' = backend_mintime
    BY <2>1 DEF backend_mintime
  <2>3. QED
    BY <2>1, <2>2, InvFacts DEF PhaseInv, SignalsOK, SleepOK
<1> QED  BY <1>2, <1>3, <1>4 DEF LoopInv

\* One case for every action.
LEMMA InvIsInductive ==
  ASSUME LoopInv, [Next]_vars
  PROVE  LoopInv'
BY CallsKeepInv, PlainStepsKeepInv, ServiceKeepsInv, ReifyKeepsInv, StartSignalKeepsInv,
   AroundKeepsInv, StutteringKeepsInv DEF Next, Loop

-----------------------------------------------------------------------------
(* What the invariant says of the loop *)

\* The invariant of the event loop: the heap, the queue of pending events and the
\* tables of the backends are consistent between any two steps of ev_run, whatever
\* callbacks start, stop, open and close and whenever a signal arrives.
THEOREM LoopInvariant == Spec => []LoopInv
<1>1. Init => LoopInv
  BY InvInit
<1>2. LoopInv /\ [Next]_vars => LoopInv'
  BY InvIsInductive
<1> QED  BY <1>1, <1>2, PTL DEF Spec

LEMMA InvStopsCallbacks ==
  ASSUME LoopInv
  PROVE  NoCallbackAfterStop
<1>1. QueueOK(Queue) /\ \A w \in Queued(Queue) : MayCallBack(w)
  BY DEF LoopInv, WatcherInv, PendingOK
<1>2. pending_w \notin Watchers /\ stopped \subseteq Watchers /\ Timers \subseteq Watchers
  BY WatchersAssumption DEF LoopInv, WatcherInv, Watchers
<1>3. Queue.pendings = pendings /\ Queue.pending = pending
  BY DEF Queue
<1>4. ASSUME NEW p \in Priorities, NEW i \in DOMAIN pendings[p]
      PROVE  LET w == pendings[p][i].w
             IN  /\ w \notin stopped
                 /\ w \in Timers /\ repeat[w] = 0 => heap.active[w] = 0
  <2>1. i \in 1 .. Len(pendings[p]) /\ pendings[p][i].w \in Watchers \cup {pending_w}
    BY <1>1, <1>3, QueueFacts
  <2>2. PICK w : w = pendings[p][i].w
    OBVIOUS
  <2>3. CASE w = pending_w
    BY <1>2, <2>2, <2>3
  <2>4. CASE w # pending_w
    <3>1. pending[w] = i /\ w \in Watchers
      BY <1>1, <1>3, <2>1, <2>2, <2>4 DEF QueueOK
    <3>2. w \in Queued(Queue)
      BY <1>3, <2>1, <3>1 DEF Queued
    <3>3. QED
      BY <1>1, <2>2, <3>2 DEF MayCallBack
  <2>5. QED
    BY <2>3, <2>4
<1> QED  BY <1>4 DEF NoCallbackAfterStop

\* The callback of a watcher that was stopped does not run, and a timer that was
\* restarted does not answer for its old deadline: ev_io_stop and ev_timer_stop take
\* what is pending out of the queue, whichever events were fed before.
THEOREM StoppedWatchersAreSilent == Spec => []NoCallbackAfterStop
BY LoopInvariant, InvStopsCallbacks, PTL

\* Every watcher that is pending is where it says in the queue.
LEMMA WatchersVerify ==
  ASSUME LoopInv, NEW w \in Watchers
  PROVE  verify_watcher(w)
BY DEF LoopInv, WatcherInv, PendingOK, QueueOK, Queue, verify_watcher

\* The list of a descriptor is empty or has the one watcher that is active there.
LEMMA HeadsHold ==
  ASSUME LoopInv, NEW f \in AllFds
  PROVE  /\ anfds[f].head \in Seq(Watchers)
         /\ f = evpipe => anfds[f].head \in {<< >>, <<pipe_w>>}
         /\ f # evpipe => \/ anfds[f].head = << >> /\ \A w \in Ios : fd[w] # f
                          \/ \E w \in Ios : /\ fd[w] = f /\ anfds[f].head = <<w>>
                                            /\ \A v \in Ios : fd[v] = f => v = w
<1>1. TablesOK(backend, Current) /\ SocketsOK
  BY DEF LoopInv, IoInv
<1>2. anfds[f].head \in Seq(Watchers)
  BY <1>1, TableFacts DEF TablesOK, Current, Tables, Descriptors
<1>3. f # None
  BY DescriptorsAssumption
<1>4. f = evpipe => anfds[f].head \in {<< >>, <<pipe_w>>}
  BY <1>1 DEF SocketsOK
<1>5. \A w \in Ios : fd[w] = f => f # evpipe /\ anfds[f].head = <<w>>
  BY <1>1, <1>3 DEF SocketsOK
<1>6. CASE f # evpipe /\ anfds[f].head # << >>
  <2>1. PICK w \in Ios : fd[w] = f
    BY <1>1, <1>6 DEF SocketsOK
  <2>2. anfds[f].head = <<w>>
    BY <1>5, <2>1
  <2>3. ASSUME NEW v \in Ios, fd[v] = f
        PROVE  v = w
    <3>1. <<v>> = <<w>>
      BY <1>5, <2>2, <2>3
    <3>2. QED
      BY <3>1
  <2>4. QED
    BY <1>2, <1>6, <2>1, <2>2, <2>3
<1>7. CASE f # evpipe /\ anfds[f].head = << >>
  <2>1. \A w \in Ios : << >> # <<w>>
    OBVIOUS
  <2>2. QED
    BY <1>2, <1>5, <1>7, <2>1
<1> QED  BY <1>2, <1>4, <1>6, <1>7

LEMMA InvVerifies ==
  ASSUME LoopInv
  PROVE  Verified
<1>1. HeapOK(heap, Timers)
  BY InvFacts
<1>2. \A w \in Watchers : verify_watcher(w)
  BY WatchersVerify
<1>3. ASSUME NEW f \in AllFds, NEW i \in DOMAIN anfds[f].head
      PROVE  LET w == anfds[f].head[i]
             IN  verify_watcher(w) /\ (w \in Ios => fd[w] = f)
  <2>1. i \in 1 .. Len(anfds[f].head) /\ anfds[f].head[i] \in Watchers
    BY HeadsHold
  <2>2. CASE f = evpipe
    <3>1. anfds[f].head[i] = pipe_w
      BY <2>1, <2>2, HeadsHold
    <3>2. QED
      BY <1>2, <2>1, <3>1, WatchersAssumption
  <2>3. CASE f # evpipe
    <3>1. PICK w \in Ios : fd[w] = f /\ anfds[f].head = <<w>>
      BY <2>1, <2>3, HeadsHold
    <3>2. anfds[f].head[i] = w
      BY <2>1, <3>1
    <3>3. QED
      BY <1>2, <2>1, <3>1, <3>2
  <2>4. QED
    BY <2>2, <2>3
<1>4. ev_verify
  <2>1. \A i \in DOMAIN heap.timers : verify_watcher(heap.timers[i].w)
    <3>1. \A i \in DOMAIN heap.timers : heap.timers[i].w \in Timers
      <4>1. DOMAIN heap.timers = 1 .. Len(heap.timers)
        BY <1>1, HeapFacts
      <4>2. \A i \in 1 .. Len(heap.timers) : heap.timers[i].w \in Timers
        BY <1>1, HeapFacts
      <4>3. QED
        BY <4>1, <4>2
    <3>2. Timers \subseteq Watchers
      BY DEF Watchers
    <3>3. QED
      BY <1>2, <3>1, <3>2
  <2>2. verify_watcher(Prepare)
    BY <1>2 DEF Watchers
  <2>3. verify_heap(heap)
    BY <1>1 DEF HeapOK
  <2>4. QED
    BY <1>3, <2>1, <2>2, <2>3 DEF ev_verify
<1>5. \A t \in Timers : heap.active[t] # 0 => heap.timers[heap.active[t]].w = t
  BY <1>1 DEF HeapOK
<1>6. ASSUME NEW w \in Ios, NEW f \in AllFds \ {evpipe}
      PROVE  Cardinality({i \in DOMAIN anfds[f].head : anfds[f].head[i] = w})
               = IF fd[w] = f THEN 1 ELSE 0
  <2> DEFINE places == {i \in DOMAIN anfds[f].head : anfds[f].head[i] = w}
  <2>1. CASE fd[w] = f
    <3>1. anfds[f].head = <<w>>
      BY <2>1, HeadsHold
    <3>2. places = {1}
      BY <3>1
    <3>3. QED
      BY <2>1, <3>2, FS_Singleton
  <2>2. CASE fd[w] # f
    <3>1. places = {}
      BY <2>2, HeadsHold
    <3>2. QED
      BY <2>2, <3>1, FS_EmptySet
  <2>3. QED
    BY <2>1, <2>2
<1> QED  BY <1>4, <1>5, <1>6 DEF Verified

\* The assertions of ev_verify hold between any two steps, and no watcher that is
\* active is forgotten: its timer is in the heap where its field active says, and a
\* socket is in the list of its descriptor, once.
THEOREM AssertionsHold == Spec => []Verified
BY LoopInvariant, InvVerifies, PTL

LEMMA InvMissesNothing ==
  ASSUME LoopInv
  PROVE  SleepMissesNothing
<1> SUFFICES ASSUME phase = "poll"
             PROVE  /\ \A i \in DOMAIN heap.timers :
                         wake <= heap.timers[i].at \/ wake <= backend_mintime
                    /\ \A f \in AllFds : anfds[f].reify = {}
                    /\ LET watched == {f \in AllFds : anfds[f].head # << >>}
                       IN  /\ backend = "epoll" => \A f \in AllFds :
                                epoll[f] = IF f \in watched
                                           THEN [events |-> Read, egen |-> anfds[f].egen]
                                           ELSE None
                           /\ backend = "poll" =>
                                /\ {polls[i] : i \in DOMAIN polls} = watched
                                /\ \A i \in DOMAIN polls : pollidxs[polls[i]] = i
                           /\ backend = "select" => vec_ri = watched
                    /\ sig_pending => evpipe \in ready \/ wake = 0
  BY DEF SleepMissesNothing
<1> DEFINE watched == {f \in AllFds : anfds[f].head # << >>}
<1>1. SleepOK /\ TablesOK(backend, Current)
  BY DEF LoopInv, PhaseInv, IoInv
<1>2. \A f \in AllFds : anfds[f].reify = {}
  BY <1>1 DEF SleepOK
<1>3. /\ Current.anfds = anfds /\ Current.epoll = epoll /\ Current.polls = polls
      /\ Current.pollidxs = pollidxs /\ Current.vec_ri = vec_ri
  BY DEF Current
<1>4. /\ Current \in Tables /\ PollsAgree(Current)
      /\ \A f \in AllFds : Told(backend, Current, f)
  BY <1>1 DEF TablesOK
<1>5. polls \in Seq(AllFds) /\ vec_ri \subseteq AllFds
  BY <1>3, <1>4 DEF Tables
<1>6. \A f \in AllFds : anfds[f].events = Read <=> f \in watched
  BY <1>2, <1>3, <1>4 DEF Told, Read
<1>7. backend = "epoll" => \A f \in AllFds :
        epoll[f] = IF f \in watched THEN [events |-> Read, egen |-> anfds[f].egen] ELSE None
  BY <1>2, <1>3, <1>4 DEF Told
<1>8. ASSUME backend = "poll"
      PROVE  /\ {polls[i] : i \in DOMAIN polls} = watched
             /\ \A i \in DOMAIN polls : pollidxs[polls[i]] = i
  <2>1. \A f \in AllFds : pollidxs[f] # 0 <=> f \in watched
    BY <1>3, <1>4, <1>6, <1>8 DEF Told
  <2>2. /\ \A i \in 1 .. Len(polls) : pollidxs[polls[i]] = i
        /\ \A f \in AllFds : pollidxs[f] # 0 =>
             pollidxs[f] \in 1 .. Len(polls) /\ polls[pollidxs[f]] = f
    BY <1>3, <1>4 DEF PollsAgree
  <2>3. DOMAIN polls = 1 .. Len(polls) /\ \A i \in 1 .. Len(polls) : polls[i] \in AllFds
    BY <1>5
  <2>4. \A i \in DOMAIN polls : polls[i] \in watched
    BY <2>1, <2>2, <2>3
  <2>5. \A f \in watched : \E i \in DOMAIN polls : polls[i] = f
    BY <2>1, <2>2, <2>3
  <2>6. QED
    BY <2>2, <2>3, <2>4, <2>5
<1>9. backend = "select" => vec_ri = watched
  <2>1. ASSUME backend = "select"
        PROVE  \A f \in AllFds : f \in vec_ri <=> f \in watched
    BY <1>3, <1>4, <1>6, <2>1 DEF Told
  <2>2. QED
    BY <1>5, <2>1
<1>10. /\ \A i \in 1 .. Len(heap.timers) :
            wake <= heap.timers[i].at \/ wake <= backend_mintime
       /\ sig_pending => evpipe \in ready \/ wake = 0
  BY <1>1 DEF SleepOK
<1>11. DOMAIN heap.timers = 1 .. Len(heap.timers)
  BY InvFacts, HeapFacts
<1> QED  BY <1>2, <1>7, <1>8, <1>9, <1>10, <1>11

\* When the backend sleeps, whatever the loop must serve ends the sleep: no timer is
\* due before it, what epoll, poll or select was told is what is watched, and no
\* signal waits to be noticed after it.
THEOREM NothingIsMissed == Spec => []SleepMissesNothing
BY LoopInvariant, InvMissesNothing, PTL
===============================================================================
