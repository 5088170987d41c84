---------------------------- MODULE DelayQueueProofs ----------------------------
(***************************************************************************)
(* Theorems about DelayQueue for every capacity, set of delays and clock.  *)
(***************************************************************************)
EXTENDS DelayQueue, TLAPS

\* The two invariants behind the properties: a waiting or sent datagram is an
\* accepted one, and waits for the time it was accepted with.
QueueIsAccepted ==
  \A i \in DOMAIN delay_mp :
    delay_mp[i].id \in Accepted /\ added[delay_mp[i].id] = delay_mp[i].due

SentIsAccepted == \A i \in DOMAIN sent : sent[i].id \in Accepted

Entry == [due : Nat, id : Nat]

LEMMA InsertedAfterShape ==
  ASSUME delay_mp \in Seq(Entry), NEW k \in 0 .. Len(delay_mp), NEW e \in Entry
  PROVE  /\ InsertedAfter(k, e) \in Seq(Entry)
         /\ Len(InsertedAfter(k, e)) = Len(delay_mp) + 1
         /\ \A i \in 1 .. k : InsertedAfter(k, e)[i] = delay_mp[i]
         /\ InsertedAfter(k, e)[k + 1] = e
         /\ \A i \in k + 2 .. Len(delay_mp) + 1 : InsertedAfter(k, e)[i] = delay_mp[i - 1]
<1> DEFINE s == InsertedAfter(k, e)
<1>1. PICK n \in Nat : n = Len(delay_mp)
  OBVIOUS
<1>2. s = [i \in 1 .. n + 1 |->
             IF i <= k THEN delay_mp[i] ELSE IF i = k + 1 THEN e ELSE delay_mp[i - 1]]
  BY <1>1 DEF InsertedAfter
<1>3. \A i \in 1 .. n : delay_mp[i] \in Entry
  BY <1>1
<1> HIDE DEF s
<1>4. \A i \in 1 .. n + 1 : s[i] \in Entry
  <2> SUFFICES ASSUME NEW i \in 1 .. n + 1 PROVE s[i] \in Entry
    OBVIOUS
  <2>1. i <= k => i \in 1 .. n
    BY <1>1
  <2>2. i > k + 1 => i - 1 \in 1 .. n
    BY <1>1
  <2> QED
    BY <2>1, <2>2, <1>1, <1>2, <1>3
<1>5. s \in [1 .. n + 1 -> Entry]
  BY <1>2, <1>4
<1>6. s \in Seq(Entry) /\ Len(s) = n + 1
  BY <1>1, <1>5
<1>7. \A i \in 1 .. k : s[i] = delay_mp[i]
  BY <1>1, <1>2
<1>8. s[k + 1] = e
  BY <1>1, <1>2
<1>9. \A i \in k + 2 .. n + 1 : s[i] = delay_mp[i - 1]
  BY <1>1, <1>2
<1> QED
  BY <1>1, <1>6, <1>7, <1>8, <1>9 DEF s

LEMMA HeadAndTail ==
  ASSUME delay_mp \in Seq(Entry), delay_mp # << >>
  PROVE  /\ Len(delay_mp) \in Nat \ {0}
         /\ Head(delay_mp) = delay_mp[1] /\ delay_mp[1] \in Entry
         /\ Tail(delay_mp) \in Seq(Entry)
         /\ Len(Tail(delay_mp)) = Len(delay_mp) - 1
         /\ \A i \in 1 .. Len(delay_mp) - 1 : Tail(delay_mp)[i] = delay_mp[i + 1]
OBVIOUS

(* The type invariant of the delay queue. *)
THEOREM TypeCorrect == Spec => []TypeOK
<1>1. Init => TypeOK
  BY DEF Init, TypeOK
<1>2. TypeOK /\ [Next]_vars => TypeOK'
  <2> SUFFICES ASSUME TypeOK, [Next]_vars PROVE TypeOK'
    OBVIOUS
  <2> USE DelayAssumption DEF TypeOK
  <2>1. CASE AddAtOnce
    BY <2>1 DEF AddAtOnce
  <2>2. ASSUME NEW delay \in Delays, AddDelayed(delay) PROVE TypeOK'
    <3>1. now + delay \in Nat /\ Len(added) + 1 \in Nat
      BY <2>2
    <3>2. PICK k \in 0 .. Len(delay_mp) :
            delay_mp' = InsertedAfter(k, [due |-> now + delay, id |-> Len(added) + 1])
      BY <2>2 DEF AddDelayed
    <3>3. delay_mp' \in Seq(Entry)
      BY <3>1, <3>2, InsertedAfterShape DEF Entry
    <3> QED
      BY <3>1, <3>3, <2>2 DEF AddDelayed, Entry
  <2>3. CASE CheckNothing
    BY <2>3 DEF CheckNothing
  <2>4. CASE CheckStart
    BY <2>4 DEF CheckStart
  <2>5. CASE SendDue
    <3>1. delay_mp \in Seq(Entry) /\ delay_mp # << >>
      BY <2>5 DEF SendDue, IsDue, Entry
    <3>2. Tail(delay_mp) \in Seq(Entry) /\ Head(delay_mp).id \in Nat
      BY <3>1, HeadAndTail DEF Entry
    <3> QED
      BY <2>5, <3>2 DEF SendDue, Entry
  <2>6. CASE NothingDue
    BY <2>6 DEF NothingDue
  <2>7. CASE CheckDone
    <3>1. CASE delay_mp = << >>
      BY <2>7, <3>1 DEF CheckDone
    <3>2. CASE delay_mp # << >>
      <4>1. Head(delay_mp).due \in Nat
        BY <3>2, HeadAndTail DEF Entry
      <4>2. timer' \in Nat
        BY <2>7, <3>2, <4>1 DEF CheckDone, Arm
      <4> QED
        BY <2>7, <4>2 DEF CheckDone
    <3> QED
      BY <3>1, <3>2
  <2>8. CASE Wake
    BY <2>8 DEF Wake
  <2>9. CASE Tick
    BY <2>9 DEF Tick
  <2>10. CASE UNCHANGED vars
    BY <2>10 DEF vars
  <2> QED
    BY <2>1, <2>2, <2>3, <2>4, <2>5, <2>6, <2>7, <2>8, <2>9, <2>10 DEF Next, Check
<1> QED
  BY <1>1, <1>2, PTL DEF Spec

-----------------------------------------------------------------------------
(* The invariants *)

LEMMA QueueFacts ==
  ASSUME TypeOK
  PROVE  /\ Len(delay_mp) \in Nat /\ DOMAIN delay_mp = 1 .. Len(delay_mp)
         /\ \A i \in 1 .. Len(delay_mp) : delay_mp[i].due \in Nat /\ delay_mp[i].id \in Nat
         /\ Len(added) \in Nat /\ DOMAIN added = 1 .. Len(added)
         /\ delay_mp \in Seq(Entry)
         /\ now \in Nat
<1>1. delay_mp \in Seq(Entry) /\ added \in Seq(Nat) /\ now \in Nat
  BY DEF TypeOK, Entry
<1>2. \A i \in 1 .. Len(delay_mp) : delay_mp[i] \in Entry
  BY <1>1
<1>3. \A x \in Entry : x.due \in Nat /\ x.id \in Nat
  BY DEF Entry
<1> QED
  BY <1>1, <1>2, <1>3

LEMMA AddedGrows ==
  ASSUME TypeOK, NEW due \in Nat, added' = Append(added, due)
  PROVE  /\ Len(added') = Len(added) + 1
         /\ added'[Len(added) + 1] = due
         /\ \A d \in 1 .. Len(added) : added'[d] = added[d]
BY DEF TypeOK

LEMMA QueueStep ==
  ASSUME TypeOK, TypeOK', QueueIsAccepted, QueueInOrder, [Next]_vars
  PROVE  QueueIsAccepted' /\ QueueInOrder'
<1>1. /\ Len(delay_mp) \in Nat /\ DOMAIN delay_mp = 1 .. Len(delay_mp)
      /\ \A i \in 1 .. Len(delay_mp) : delay_mp[i].due \in Nat /\ delay_mp[i].id \in Nat
      /\ Len(added) \in Nat /\ delay_mp \in Seq(Entry) /\ now \in Nat
  BY QueueFacts
<1>0. DOMAIN delay_mp' = 1 .. Len(delay_mp')
  BY DEF TypeOK
<1>2. CASE AddAtOnce
  <2>1. /\ delay_mp' = delay_mp
        /\ Len(added') = Len(added) + 1
        /\ \A d \in Accepted : added'[d] = added[d]
    BY <1>1, <1>2, AddedGrows DEF AddAtOnce, Accepted
  <2> QED
    BY <1>1, <1>0, <2>1 DEF QueueIsAccepted, QueueInOrder, Accepted
<1>3. ASSUME NEW delay \in Delays, AddDelayed(delay)
      PROVE  QueueIsAccepted' /\ QueueInOrder'
  <2> DEFINE e == [due |-> now + delay, id |-> Len(added) + 1]
             q == delay_mp'
  <2>1. e \in Entry /\ e.due = now + delay /\ e.id = Len(added) + 1
    BY <1>1, DelayAssumption DEF Entry
  <2>2. /\ Len(added') = Len(added) + 1
        /\ added'[e.id] = e.due
        /\ \A d \in Accepted : added'[d] = added[d]
    BY <1>1, <1>3, <2>1, AddedGrows, DelayAssumption DEF AddDelayed, Accepted, Entry
  <2>3. PICK k \in 0 .. Len(delay_mp) :
          UpperBound(k, now + delay) /\ q = InsertedAfter(k, e)
    BY <1>3 DEF AddDelayed
  <2> HIDE DEF e, q
  <2>4. /\ q \in Seq(Entry)
        /\ Len(q) = Len(delay_mp) + 1
        /\ \A i \in 1 .. k : q[i] = delay_mp[i]
        /\ q[k + 1] = e
        /\ \A i \in k + 2 .. Len(delay_mp) + 1 : q[i] = delay_mp[i - 1]
    BY <1>1, <2>1, <2>3, InsertedAfterShape
  <2>5. \A i \in 1 .. Len(delay_mp) :
          /\ delay_mp[i].due \in Nat /\ delay_mp[i].id \in Accepted
          /\ added[delay_mp[i].id] = delay_mp[i].due
    BY <1>1 DEF QueueIsAccepted
  <2>6. \A i \in 1 .. Len(q) :
          \/ i \in 1 .. k /\ q[i] = delay_mp[i]
          \/ i = k + 1 /\ q[i] = e
          \/ /\ i \in k + 2 .. Len(q) /\ q[i] = delay_mp[i - 1]
             /\ i - 1 \in k + 1 .. Len(delay_mp)
    BY <1>1, <2>4
  <2>7. QueueIsAccepted'
    <3> SUFFICES ASSUME NEW i \in 1 .. Len(q)
                 PROVE  /\ q[i].id \in 1 .. Len(added) + 1
                        /\ added'[q[i].id] = q[i].due
      BY <1>0, <2>2, <2>4 DEF QueueIsAccepted, q, Accepted
    <3>1. CASE q[i] = e
      BY <1>1, <2>1, <2>2, <3>1
    <3>2. CASE \E x \in 1 .. Len(delay_mp) : q[i] = delay_mp[x]
      BY <1>1, <2>2, <2>5, <3>2 DEF Accepted
    <3>3. q[i] = e \/ \E x \in 1 .. Len(delay_mp) : q[i] = delay_mp[x]
      BY <1>1, <2>6
    <3> QED
      BY <3>1, <3>2, <3>3
  <2>8. QueueInOrder'
    <3> SUFFICES ASSUME NEW i \in 1 .. Len(q), NEW j \in 1 .. Len(q), i < j
                 PROVE  \/ q[i].due < q[j].due
                        \/ q[i].due = q[j].due /\ q[i].id < q[j].id
      BY <1>0, <2>4 DEF QueueInOrder, q
    <3>1. \A x \in 1 .. Len(delay_mp), y \in 1 .. Len(delay_mp) : x < y =>
            \/ delay_mp[x].due < delay_mp[y].due
            \/ delay_mp[x].due = delay_mp[y].due /\ delay_mp[x].id < delay_mp[y].id
      BY <1>1 DEF QueueInOrder
    <3>2. /\ \A x \in 1 .. k : delay_mp[x].due <= e.due /\ delay_mp[x].id < e.id
          /\ \A x \in k + 1 .. Len(delay_mp) : delay_mp[x].due > e.due
      BY <1>1, <2>1, <2>3, <2>5 DEF UpperBound, Accepted
    <3>3. CASE i \in 1 .. k /\ j \in 1 .. k
      BY <1>1, <2>4, <3>1, <3>3, SMTT(30)
    <3>4. CASE i \in 1 .. k /\ j = k + 1
      <4>1. q[i] = delay_mp[i] /\ q[j] = e /\ i \in 1 .. Len(delay_mp)
        BY <1>1, <2>4, <3>4
      <4> QED
        BY <4>1, <1>1, <2>1, <2>5, <3>2, <3>4, DelayAssumption
    <3>5. CASE i \in 1 .. k /\ j \in k + 2 .. Len(q)
      <4>1. /\ q[i] = delay_mp[i] /\ q[j] = delay_mp[j - 1]
            /\ i \in 1 .. Len(delay_mp) /\ j - 1 \in 1 .. Len(delay_mp) /\ i < j - 1
        BY <1>1, <2>4, <3>5
      <4> QED
        BY <4>1, <3>1
    <3>6. CASE i = k + 1 /\ j \in k + 2 .. Len(q)
      <4>1. q[i] = e /\ q[j] = delay_mp[j - 1] /\ j - 1 \in k + 1 .. Len(delay_mp)
        BY <1>1, <2>4, <3>6
      <4> QED
        BY <4>1, <3>2
    <3>7. CASE i \in k + 2 .. Len(q) /\ j \in k + 2 .. Len(q)
      <4>1. /\ q[i] = delay_mp[i - 1] /\ q[j] = delay_mp[j - 1]
            /\ i - 1 \in 1 .. Len(delay_mp) /\ j - 1 \in 1 .. Len(delay_mp)
            /\ i - 1 < j - 1
        BY <1>1, <2>4, <3>7
      <4> QED
        BY <4>1, <3>1
    <3> QED
      BY <1>1, <2>4, <3>3, <3>4, <3>5, <3>6, <3>7
  <2> QED
    BY <2>7, <2>8
<1>4. CASE SendDue
  <2>1. delay_mp \in Seq(Entry) /\ delay_mp # << >> /\ delay_mp' = Tail(delay_mp)
    BY <1>1, <1>4 DEF SendDue, IsDue
  <2>2. /\ Len(delay_mp') = Len(delay_mp) - 1
        /\ \A i \in 1 .. Len(delay_mp) - 1 : delay_mp'[i] = delay_mp[i + 1]
    BY <2>1, HeadAndTail
  <2>3. added' = added
    BY <1>4 DEF SendDue
  <2>4. \A i \in 1 .. Len(delay_mp') :
          i \in 1 .. Len(delay_mp) /\ i + 1 \in 1 .. Len(delay_mp)
          /\ delay_mp'[i] = delay_mp[i + 1]
    BY <1>1, <2>2
  <2>5. QueueIsAccepted'
    BY <1>0, <1>1, <2>3, <2>4, ZenonT(60) DEF QueueIsAccepted, Accepted
  <2>6. QueueInOrder'
    <3> SUFFICES ASSUME NEW i \in 1 .. Len(delay_mp'), NEW j \in 1 .. Len(delay_mp'), i < j
                 PROVE  \/ delay_mp'[i].due < delay_mp'[j].due
                        \/ /\ delay_mp'[i].due = delay_mp'[j].due
                           /\ delay_mp'[i].id < delay_mp'[j].id
      BY <1>0 DEF QueueInOrder
    <3>1. /\ i + 1 \in 1 .. Len(delay_mp) /\ j + 1 \in 1 .. Len(delay_mp)
          /\ i + 1 < j + 1
          /\ delay_mp'[i] = delay_mp[i + 1] /\ delay_mp'[j] = delay_mp[j + 1]
      BY <1>1, <2>4
    <3>2. \/ delay_mp[i + 1].due < delay_mp[j + 1].due
          \/ /\ delay_mp[i + 1].due = delay_mp[j + 1].due
             /\ delay_mp[i + 1].id < delay_mp[j + 1].id
      BY <1>1, <3>1 DEF QueueInOrder
    <3> QED
      BY <3>1, <3>2
  <2> QED
    BY <2>5, <2>6
<1>5. CASE UNCHANGED <<delay_mp, added>>
  BY <1>5 DEF QueueIsAccepted, QueueInOrder, Accepted
<1> QED
  BY <1>2, <1>3, <1>4, <1>5
  DEF Next, Check, CheckNothing, CheckStart, NothingDue, CheckDone, Wake, Tick, vars

LEMMA SentStep ==
  ASSUME TypeOK, TypeOK', QueueIsAccepted, SentIsAccepted, NotEarly, [Next]_vars
  PROVE  SentIsAccepted' /\ NotEarly'
<1> DEFINE Good(d, at) == d \in 1 .. Len(added') /\ at >= added'[d]
<1> SUFFICES \A i \in 1 .. Len(sent') : Good(sent'[i].id, sent'[i].at)
  <2>1. DOMAIN sent' = 1 .. Len(sent')
    BY DEF TypeOK
  <2> QED
    BY <2>1 DEF SentIsAccepted, NotEarly, Accepted
<1>1. /\ Len(sent) \in Nat /\ Len(added) \in Nat
      /\ \A i \in 1 .. Len(sent) : sent[i].id \in 1 .. Len(added)
                                   /\ sent[i].at >= added[sent[i].id]
  BY DEF SentIsAccepted, NotEarly, Accepted, TypeOK
<1>2. ASSUME NEW id \in Nat, NEW at \in Nat, sent' = Append(sent, [id |-> id, at |-> at]),
             /\ Len(added') >= Len(added) /\ Len(added') \in Nat
             /\ \A d \in 1 .. Len(added) : added'[d] = added[d],
             Good(id, at)
      PROVE  \A i \in 1 .. Len(sent') : Good(sent'[i].id, sent'[i].at)
  <2>1. [id |-> id, at |-> at] \in [id : Nat, at : Nat]
    BY <1>2
  <2>2. sent \in Seq([id : Nat, at : Nat])
    BY DEF TypeOK
  <2>3. /\ Len(sent') = Len(sent) + 1
        /\ sent'[Len(sent) + 1] = [id |-> id, at |-> at]
        /\ \A i \in 1 .. Len(sent) : sent'[i] = sent[i]
    BY <1>2, <2>1, <2>2
  <2>4. \A i \in 1 .. Len(sent) : Good(sent[i].id, sent[i].at)
    BY <1>1, <1>2
  <2> HIDE DEF Good
  <2> QED
    BY <1>1, <1>2, <2>3, <2>4
<1>3. CASE AddAtOnce
  <2>1. now \in Nat /\ Len(added) + 1 \in Nat
    BY <1>1, QueueFacts
  <2>2. /\ Len(added') = Len(added) + 1 /\ added'[Len(added) + 1] = now
        /\ \A d \in 1 .. Len(added) : added'[d] = added[d]
    BY <1>3, <2>1, AddedGrows DEF AddAtOnce
  <2>3. Good(Len(added) + 1, now)
    BY <1>1, <2>1, <2>2
  <2>4. sent' = Append(sent, [id |-> Len(added) + 1, at |-> now])
    BY <1>3 DEF AddAtOnce
  <2> HIDE DEF Good
  <2> QED
    BY <1>1, <1>2, <2>1, <2>2, <2>3, <2>4
<1>4. ASSUME NEW delay \in Delays, AddDelayed(delay)
      PROVE  \A i \in 1 .. Len(sent') : Good(sent'[i].id, sent'[i].at)
  <2>1. now + delay \in Nat
    BY QueueFacts, DelayAssumption
  <2>2. /\ Len(added') = Len(added) + 1
        /\ \A d \in 1 .. Len(added) : added'[d] = added[d]
        /\ sent' = sent
    BY <1>4, <2>1, AddedGrows DEF AddDelayed
  <2> QED
    BY <1>1, <2>2
<1>5. CASE SendDue
  <2> DEFINE h == delay_mp[1]
  <2>1. delay_mp \in Seq(Entry) /\ delay_mp # << >>
    BY <1>5, QueueFacts DEF SendDue, IsDue
  <2>2. h = Head(delay_mp) /\ h \in Entry /\ 1 \in DOMAIN delay_mp
    BY <2>1, HeadAndTail
  <2>3. h.id \in 1 .. Len(added) /\ added[h.id] = h.due
    BY <2>2 DEF QueueIsAccepted, Accepted
  <2>4. h.due <= now /\ added' = added
    BY <1>5, <2>2 DEF SendDue, IsDue
  <2>5. sent' = Append(sent, [id |-> h.id, at |-> now])
    BY <1>5, <2>2 DEF SendDue
  <2>6. h.id \in Nat /\ h.due \in Nat /\ now \in Nat
    BY <2>2, QueueFacts DEF Entry
  <2> HIDE DEF h
  <2>7. Good(h.id, now)
    BY <2>3, <2>4, <2>6
  <2> HIDE DEF Good
  <2> QED
    BY <1>1, <1>2, <2>4, <2>5, <2>6, <2>7
<1>6. CASE UNCHANGED <<sent, added>>
  BY <1>1, <1>6
<1> QED
  BY <1>3, <1>4, <1>5, <1>6
  DEF Next, Check, CheckNothing, CheckStart, NothingDue, CheckDone, Wake, Tick, vars

(* Datagrams leave in the order of their due times, and those of one time in *)
(* the order they were added; none leaves before its time.                   *)
THEOREM LeavesInOrderNotEarly == Spec => []InOrderNotEarly
<1> DEFINE Inv == QueueIsAccepted /\ QueueInOrder /\ SentIsAccepted /\ NotEarly
<1>1. Init => Inv
  BY DEF Init, QueueIsAccepted, QueueInOrder, SentIsAccepted, NotEarly
<1>2. TypeOK /\ TypeOK' /\ Inv /\ [Next]_vars => Inv'
  BY QueueStep, SentStep
<1>3. Inv => InOrderNotEarly
  BY DEF InOrderNotEarly
<1> QED
  BY <1>1, <1>2, <1>3, TypeCorrect, PTL DEF Spec

(* The loop's sleep ends when the first datagram is due, at the latest.      *)
THEOREM SleepEndsInTime == Spec => []WakesWhenDue
<1>1. Init => WakesWhenDue
  BY DEF Init, WakesWhenDue
<1>2. TypeOK /\ WakesWhenDue /\ [Next]_vars => WakesWhenDue'
  <2> SUFFICES ASSUME TypeOK, WakesWhenDue, [Next]_vars,
                      phase' = "asleep", delay_mp' # << >>
               PROVE  timer' # Off /\ (timer' <= now' \/ timer' <= Head(delay_mp').due)
    BY DEF WakesWhenDue
  <2> USE DEF TypeOK
  <2>1. CASE CheckDone
    <3>1. delay_mp # << >> /\ delay_mp' = delay_mp /\ now' = now
      BY <2>1 DEF CheckDone
    <3>2. Head(delay_mp).due \in Nat
      BY <3>1, HeadAndTail DEF Entry
    <3>3. timer' \in Nat /\ (timer' <= now \/ timer' <= Head(delay_mp).due)
      BY <2>1, <3>1, <3>2, DelayAssumption, SMTT(30) DEF CheckDone, Arm
    <3> QED
      BY <3>1, <3>3, DelayAssumption
  <2>2. CASE Tick
    <3>1. timer # Off /\ timer \in Nat /\ now' = now + 1
      BY <2>2 DEF Tick, WakesWhenDue
    <3> QED
      BY <2>2, <3>1 DEF Tick, WakesWhenDue
  <2>3. CASE UNCHANGED vars
    BY <2>3 DEF vars, WakesWhenDue
  <2> QED
    BY <2>1, <2>2, <2>3
    DEF Next, Check, AddAtOnce, AddDelayed, CheckNothing, CheckStart, SendDue,
        NothingDue, Wake
<1> QED
  BY <1>1, <1>2, TypeCorrect, PTL DEF Spec

(* --delay-capacity bounds the queue.                                        *)
THEOREM QueueIsBounded == Spec => []CapacityHolds
<1>1. Init => CapacityHolds
  BY DelayAssumption DEF Init, CapacityHolds
<1>2. TypeOK /\ CapacityHolds /\ [Next]_vars => CapacityHolds'
  <2> SUFFICES ASSUME TypeOK, CapacityHolds, [Next]_vars, capacity # 0
               PROVE  Len(delay_mp') <= capacity
    BY DEF CapacityHolds
  <2>1. Len(delay_mp) \in Nat /\ Len(delay_mp) <= capacity /\ capacity \in Nat
    BY DelayAssumption DEF TypeOK, CapacityHolds
  <2>2. ASSUME NEW delay \in Delays, AddDelayed(delay)
        PROVE  Len(delay_mp') <= capacity
    <3>1. [due |-> now + delay, id |-> Len(added) + 1] \in Entry
      BY DelayAssumption DEF TypeOK, Entry
    <3>2. Len(delay_mp') = Len(delay_mp) + 1
      BY <2>2, <3>1, InsertedAfterShape DEF AddDelayed, TypeOK, Entry
    <3> QED
      BY <2>1, <2>2, <3>2 DEF AddDelayed, HasRoom
  <2>3. CASE SendDue
    <3>1. delay_mp # << >> /\ delay_mp' = Tail(delay_mp)
      BY <2>3 DEF SendDue, IsDue
    <3> QED
      BY <2>1, <3>1, HeadAndTail DEF TypeOK, Entry
  <2>4. CASE UNCHANGED delay_mp
    BY <2>1, <2>4
  <2> QED
    BY <2>2, <2>3, <2>4
    DEF Next, Check, AddAtOnce, CheckNothing, CheckStart, NothingDue, CheckDone,
        Wake, Tick, vars
<1> QED
  BY <1>1, <1>2, TypeCorrect, PTL DEF Spec

-----------------------------------------------------------------------------
(* Nothing is lost and nothing sent twice *)

SentEntry == [id : Nat, at : Nat]

LEMMA AppendedIds ==
  ASSUME sent \in Seq(SentEntry), NEW e \in SentEntry
  PROVE  /\ Len(Append(sent, e)) = Len(sent) + 1
         /\ {Append(sent, e)[i].id : i \in DOMAIN Append(sent, e)}
              = {sent[i].id : i \in DOMAIN sent} \cup {e.id}
<1> DEFINE s == Append(sent, e)
<1>1. /\ Len(sent) \in Nat /\ DOMAIN sent = 1 .. Len(sent)
      /\ Len(s) = Len(sent) + 1 /\ DOMAIN s = 1 .. Len(sent) + 1
      /\ \A i \in 1 .. Len(sent) : s[i] = sent[i]
      /\ s[Len(sent) + 1] = e
  OBVIOUS
<1> HIDE DEF s
<1>2. {s[i].id : i \in 1 .. Len(sent) + 1} = {sent[i].id : i \in 1 .. Len(sent)} \cup {e.id}
  <2>1. \A i \in 1 .. Len(sent) + 1 : i \in 1 .. Len(sent) \/ i = Len(sent) + 1
    BY <1>1
  <2>2. \A i \in 1 .. Len(sent) : i \in 1 .. Len(sent) + 1
    BY <1>1
  <2>3. Len(sent) + 1 \in 1 .. Len(sent) + 1
    BY <1>1
  <2> QED
    BY <1>1, <2>1, <2>2, <2>3
<1> QED
  BY <1>1, <1>2 DEF s

LEMMA InsertedIds ==
  ASSUME delay_mp \in Seq(Entry), NEW k \in 0 .. Len(delay_mp), NEW e \in Entry
  PROVE  {InsertedAfter(k, e)[i].id : i \in DOMAIN InsertedAfter(k, e)}
           = {delay_mp[i].id : i \in DOMAIN delay_mp} \cup {e.id}
<1> DEFINE s == InsertedAfter(k, e)
<1>1. /\ Len(delay_mp) \in Nat /\ DOMAIN delay_mp = 1 .. Len(delay_mp)
      /\ DOMAIN s = 1 .. Len(delay_mp) + 1
      /\ \A i \in 1 .. k : s[i] = delay_mp[i]
      /\ s[k + 1] = e
      /\ \A i \in k + 2 .. Len(delay_mp) + 1 : s[i] = delay_mp[i - 1]
  BY InsertedAfterShape DEF InsertedAfter
<1> HIDE DEF s
<1>2. \A i \in 1 .. Len(delay_mp) + 1 :
        s[i] = e \/ \E j \in 1 .. Len(delay_mp) : s[i] = delay_mp[j]
  <2> SUFFICES ASSUME NEW i \in 1 .. Len(delay_mp) + 1, i # k + 1
               PROVE  \E j \in 1 .. Len(delay_mp) : s[i] = delay_mp[j]
    BY <1>1
  <2>1. CASE i <= k
    BY <1>1, <2>1
  <2>2. CASE i > k + 1
    <3>1. s[i] = delay_mp[i - 1] /\ i - 1 \in 1 .. Len(delay_mp)
      BY <1>1, <2>2
    <3> QED
      BY <3>1
  <2> QED
    BY <1>1, <2>1, <2>2
<1>3. \A j \in 1 .. Len(delay_mp) :
        \E i \in 1 .. Len(delay_mp) + 1 : s[i] = delay_mp[j]
  <2> SUFFICES ASSUME NEW j \in 1 .. Len(delay_mp)
               PROVE  \E i \in 1 .. Len(delay_mp) + 1 : s[i] = delay_mp[j]
    OBVIOUS
  <2>1. CASE j <= k
    BY <1>1, <2>1
  <2>2. CASE j > k
    <3>1. j + 1 \in k + 2 .. Len(delay_mp) + 1 /\ (j + 1) - 1 = j
      BY <1>1, <2>2
    <3>2. s[j + 1] = delay_mp[j] /\ j + 1 \in 1 .. Len(delay_mp) + 1
      BY <1>1, <3>1
    <3> QED
      BY <3>2
  <2> QED
    BY <1>1, <2>1, <2>2
<1>4. k + 1 \in 1 .. Len(delay_mp) + 1 /\ s[k + 1] = e
  BY <1>1
<1> DEFINE new == {s[i].id : i \in 1 .. Len(delay_mp) + 1}
           old == {delay_mp[i].id : i \in 1 .. Len(delay_mp)}
<1>5. ASSUME NEW x \in new PROVE x \in old \cup {e.id}
  <2>1. PICK i \in 1 .. Len(delay_mp) + 1 : x = s[i].id
    OBVIOUS
  <2> QED
    BY <1>2, <2>1
<1>6. ASSUME NEW x \in old PROVE x \in new
  <2>1. PICK j \in 1 .. Len(delay_mp) : x = delay_mp[j].id
    OBVIOUS
  <2> QED
    BY <1>3, <2>1
<1>7. e.id \in new
  BY <1>4
<1>8. new = old \cup {e.id}
  <2> HIDE DEF new, old
  <2> QED
    BY <1>5, <1>6, <1>7
<1> QED
  BY <1>1, <1>8 DEF s

LEMMA TailIds ==
  ASSUME delay_mp \in Seq(Entry), delay_mp # << >>
  PROVE  {delay_mp[i].id : i \in DOMAIN delay_mp}
           = {Tail(delay_mp)[i].id : i \in DOMAIN Tail(delay_mp)} \cup {Head(delay_mp).id}
<1> DEFINE s == Tail(delay_mp)
<1>1. /\ Len(delay_mp) \in Nat \ {0} /\ DOMAIN delay_mp = 1 .. Len(delay_mp)
      /\ Head(delay_mp) = delay_mp[1]
      /\ DOMAIN s = 1 .. Len(delay_mp) - 1
      /\ \A i \in 1 .. Len(delay_mp) - 1 : s[i] = delay_mp[i + 1]
  BY HeadAndTail
<1> HIDE DEF s
<1>2. \A i \in 1 .. Len(delay_mp) :
        i = 1 \/ \E j \in 1 .. Len(delay_mp) - 1 : delay_mp[i] = s[j]
  <2> SUFFICES ASSUME NEW i \in 1 .. Len(delay_mp), i # 1
               PROVE  \E j \in 1 .. Len(delay_mp) - 1 : delay_mp[i] = s[j]
    OBVIOUS
  <2>1. i - 1 \in 1 .. Len(delay_mp) - 1 /\ (i - 1) + 1 = i
    BY <1>1
  <2> QED
    BY <1>1, <2>1
<1>3. \A j \in 1 .. Len(delay_mp) - 1 : \E i \in 1 .. Len(delay_mp) : s[j] = delay_mp[i]
  BY <1>1
<1> DEFINE old == {delay_mp[i].id : i \in 1 .. Len(delay_mp)}
           new == {s[i].id : i \in 1 .. Len(delay_mp) - 1}
<1>4. ASSUME NEW x \in old PROVE x \in new \cup {delay_mp[1].id}
  <2>1. PICK i \in 1 .. Len(delay_mp) : x = delay_mp[i].id
    OBVIOUS
  <2> QED
    BY <1>2, <2>1
<1>5. ASSUME NEW x \in new PROVE x \in old
  <2>1. PICK j \in 1 .. Len(delay_mp) - 1 : x = s[j].id
    OBVIOUS
  <2> QED
    BY <1>3, <2>1
<1>6. delay_mp[1].id \in old
  BY <1>1
<1>7. old = new \cup {delay_mp[1].id}
  <2> HIDE DEF new, old
  <2> QED
    BY <1>4, <1>5, <1>6
<1> QED
  BY <1>1, <1>7 DEF s

(* Every accepted datagram is waiting or sent, and exactly once: no call of  *)
(* add, no equal due times and no full queue loses or repeats one.           *)
THEOREM EachLeavesOnce == Spec => []QueuedOrSentOnce
<1> DEFINE Queued == {delay_mp[i].id : i \in DOMAIN delay_mp}
           Gone == {sent[i].id : i \in DOMAIN sent}
<1>1. Init => QueuedOrSentOnce
  BY DEF Init, QueuedOrSentOnce, Accepted
<1>2. TypeOK /\ QueuedOrSentOnce /\ [Next]_vars => QueuedOrSentOnce'
  <2> SUFFICES ASSUME TypeOK, QueuedOrSentOnce, [Next]_vars PROVE QueuedOrSentOnce'
    OBVIOUS
  <2>1. /\ delay_mp \in Seq(Entry) /\ sent \in Seq(SentEntry) /\ now \in Nat
        /\ Len(delay_mp) \in Nat /\ Len(sent) \in Nat /\ Len(added) \in Nat
    BY DEF TypeOK, Entry, SentEntry
  <2>2. /\ Queued \cup Gone = 1 .. Len(added)
        /\ Len(delay_mp) + Len(sent) = Len(added)
    BY DEF QueuedOrSentOnce, Accepted
  <2>3. (1 .. Len(added)) \cup {Len(added) + 1} = 1 .. Len(added) + 1
    BY <2>1
  <2>4. /\ Queued' \cup Gone' = 1 .. Len(added')
        /\ Len(delay_mp') + Len(sent') = Len(added')
        => QueuedOrSentOnce'
    BY DEF QueuedOrSentOnce, Accepted
  <2> HIDE DEF Queued, Gone
  <2>5. CASE AddAtOnce
    <3>1. [id |-> Len(added) + 1, at |-> now] \in SentEntry
      BY <2>1 DEF SentEntry
    <3>2. /\ Gone' = Gone \cup {Len(added) + 1} /\ Len(sent') = Len(sent) + 1
          /\ Queued' = Queued /\ delay_mp' = delay_mp
      BY <2>1, <2>5, <3>1, AppendedIds DEF AddAtOnce, Gone, Queued
    <3>3. Len(added') = Len(added) + 1
      BY <2>1, <2>5, AddedGrows DEF AddAtOnce
    <3>4. Queued' \cup Gone' = 1 .. Len(added')
      BY <2>2, <2>3, <3>2, <3>3
    <3> QED
      BY <2>1, <2>2, <2>4, <3>2, <3>3, <3>4
  <2>6. ASSUME NEW delay \in Delays, AddDelayed(delay) PROVE QueuedOrSentOnce'
    <3> DEFINE e == [due |-> now + delay, id |-> Len(added) + 1]
    <3>1. now + delay \in Nat /\ e \in Entry /\ e.id = Len(added) + 1
      BY <2>1, DelayAssumption DEF Entry
    <3>2. PICK k \in 0 .. Len(delay_mp) : delay_mp' = InsertedAfter(k, e)
      BY <2>6 DEF AddDelayed
    <3> HIDE DEF e
    <3>3. Queued' = Queued \cup {Len(added) + 1}
      <4>1. {InsertedAfter(k, e)[i].id : i \in DOMAIN InsertedAfter(k, e)}
              = {delay_mp[i].id : i \in DOMAIN delay_mp} \cup {e.id}
        BY <2>1, <3>1, InsertedIds
      <4> QED
        BY <3>1, <3>2, <4>1 DEF Queued
    <3>4. Len(delay_mp') = Len(delay_mp) + 1
      BY <2>1, <3>1, <3>2, InsertedAfterShape
    <3>5. Len(added') = Len(added) + 1 /\ sent' = sent
      BY <2>1, <2>6, <3>1, AddedGrows DEF AddDelayed
    <3>6. Gone' = Gone
      BY <3>5 DEF Gone
    <3>7. Queued' \cup Gone' = 1 .. Len(added')
      BY <2>2, <2>3, <3>3, <3>5, <3>6
    <3> QED
      BY <2>1, <2>2, <2>4, <3>4, <3>5, <3>7
  <2>7. CASE SendDue
    <3> DEFINE h == Head(delay_mp)
    <3>1. delay_mp # << >> /\ delay_mp' = Tail(delay_mp) /\ added' = added
      BY <2>7 DEF SendDue, IsDue
    <3>2. h.id \in Nat /\ [id |-> h.id, at |-> now] \in SentEntry
      BY <2>1, <3>1, HeadAndTail DEF Entry, SentEntry
    <3>3. Len(delay_mp') = Len(delay_mp) - 1 /\ Queued = Queued' \cup {h.id}
      BY <2>1, <3>1, HeadAndTail, TailIds DEF Queued
    <3>4. Gone' = Gone \cup {h.id} /\ Len(sent') = Len(sent) + 1
      BY <2>1, <2>7, <3>2, AppendedIds DEF SendDue, Gone
    <3>5. Queued' \cup Gone' = 1 .. Len(added')
      BY <2>2, <3>1, <3>3, <3>4
    <3> QED
      BY <2>1, <2>2, <2>4, <3>1, <3>3, <3>4, <3>5
  <2>8. CASE UNCHANGED <<delay_mp, added, sent>>
    BY <2>8 DEF QueuedOrSentOnce, Accepted
  <2> QED
    BY <2>5, <2>6, <2>7, <2>8
    DEF Next, Check, CheckNothing, CheckStart, NothingDue, CheckDone, Wake, Tick, vars
<1> QED
  BY <1>1, <1>2, TypeCorrect, PTL DEF Spec

================================================================================
