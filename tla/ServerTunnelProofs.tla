---------------------------- MODULE ServerTunnelProofs ----------------------------
(***************************************************************************)
(* The server's sockets, connections and conversations belong to each      *)
(* other, for any number of clients, conversations, descriptors and        *)
(* packets.                                                                *)
(*                                                                         *)
(* A conversation and its socket are tied together by five tables, in four *)
(* objects: the two maps of the conversation manager, the two of the fd    *)
(* manager and the watcher in the loop.  Every step that writes one writes *)
(* the others, and a number that was given up is never given out again.    *)
(***************************************************************************)
EXTENDS ServerTunnel, SequenceTheorems, FunctionTheorems, FiniteSetTheorems, TLAPS

-----------------------------------------------------------------------------
(* What the operators on managers do to the two tables *)

IsRecord(m) ==
  m = [conv_to_data |-> m.conv_to_data, data_to_conv |-> m.data_to_conv,
       lru |-> m.lru, last_clear |-> m.last_clear]

\* The two tables are inverse to each other.
MutuallyInverse(m) ==
  /\ \A c \in DOMAIN m.conv_to_data :
       /\ m.conv_to_data[c] \in DOMAIN m.data_to_conv
       /\ m.data_to_conv[m.conv_to_data[c]] = c
  /\ \A d \in DOMAIN m.data_to_conv :
       /\ m.data_to_conv[d] \in DOMAIN m.conv_to_data
       /\ m.conv_to_data[m.data_to_conv[d]] = d

SameTables(m, n) ==
  /\ n.conv_to_data = m.conv_to_data
  /\ n.data_to_conv = m.data_to_conv

LEMMA UpdateKeepsTables ==
  ASSUME NEW m, NEW c, IsRecord(m)
  PROVE  IsRecord(UpdateActiveTime(m, c)) /\ SameTables(m, UpdateActiveTime(m, c))
<1> DEFINE q == LruPushFront(LruErase(m.lru, c), c)
<1> HIDE DEF q
<1>1. UpdateActiveTime(m, c) = [m EXCEPT !.lru = q]
  BY DEF UpdateActiveTime, q
<1>2. [m EXCEPT !.lru = q] =
        [conv_to_data |-> m.conv_to_data, data_to_conv |-> m.data_to_conv,
         lru |-> q, last_clear |-> m.last_clear]
  BY DEF IsRecord
<1> QED  BY <1>1, <1>2 DEF IsRecord, SameTables

LEMMA AgedKeepsTables ==
  ASSUME NEW m, IsRecord(m)
  PROVE  IsRecord(Aged(m)) /\ SameTables(m, Aged(m))
<1> DEFINE q == [i \in DOMAIN m.lru |-> AgedEntry(m.lru[i])]
           t == Older(m.last_clear)
<1> HIDE DEF q, t
<1>1. Aged(m) = [m EXCEPT !.lru = q, !.last_clear = t]
  BY DEF Aged, q, t
<1>2. Aged(m) =
        [conv_to_data |-> m.conv_to_data, data_to_conv |-> m.data_to_conv,
         lru |-> q, last_clear |-> t]
  BY <1>1 DEF IsRecord
<1> QED  BY <1>1, <1>2 DEF IsRecord, SameTables

\* A new conversation enters both tables.
LEMMA InsertTables ==
  ASSUME NEW m, NEW c, NEW d, IsRecord(m)
  PROVE  LET n == UpdateActiveTime(InsertConv(m, c, d), c)
         IN  /\ IsRecord(n)
             /\ n.conv_to_data = With(m.conv_to_data, c, d)
             /\ n.data_to_conv = With(m.data_to_conv, d, c)
<1> DEFINE q == LruPushFront(m.lru, c)
           f == With(m.conv_to_data, c, d)
           g == With(m.data_to_conv, d, c)
<1>1. InsertConv(m, c, d) = [m EXCEPT !.data_to_conv = g, !.conv_to_data = f, !.lru = q]
  BY DEF InsertConv
<1> HIDE DEF q, f, g
<1>2. InsertConv(m, c, d) =
        [conv_to_data |-> f, data_to_conv |-> g, lru |-> q, last_clear |-> m.last_clear]
  BY <1>1 DEF IsRecord
<1>3. /\ IsRecord(InsertConv(m, c, d))
      /\ InsertConv(m, c, d).conv_to_data = f
      /\ InsertConv(m, c, d).data_to_conv = g
  BY <1>2 DEF IsRecord
<1>4. f = With(m.conv_to_data, c, d) /\ g = With(m.data_to_conv, d, c)
  BY DEF f, g
<1> QED  BY <1>3, <1>4, UpdateKeepsTables DEF SameTables

LEMMA InsertInverse ==
  ASSUME NEW m, NEW n, NEW c, NEW d, MutuallyInverse(m),
         c \notin DOMAIN m.conv_to_data, d \notin DOMAIN m.data_to_conv,
         n.conv_to_data = With(m.conv_to_data, c, d),
         n.data_to_conv = With(m.data_to_conv, d, c)
  PROVE  MutuallyInverse(n)
BY DEF MutuallyInverse, With

LEMMA NewManagerTables ==
  ASSUME NEW t
  PROVE  /\ IsRecord(NewManager(t)) /\ MutuallyInverse(NewManager(t))
         /\ DOMAIN NewManager(t).conv_to_data = {}
         /\ DOMAIN NewManager(t).data_to_conv = {}
BY DEF IsRecord, NewManager, MutuallyInverse

-----------------------------------------------------------------------------
(* Sequences *)

LEMMA FunctionIsSeq ==
  ASSUME NEW T, NEW n \in Nat, NEW s \in [1 .. n -> T]
  PROVE  s \in Seq(T) /\ Len(s) = n /\ DOMAIN s = 1 .. n
OBVIOUS

LEMMA SeqOver ==
  ASSUME NEW S, NEW T, NEW s \in Seq(S), \A i \in DOMAIN s : s[i] \in T
  PROVE  s \in Seq(T)
<1>1. s \in [1 .. Len(s) -> T] /\ Len(s) \in Nat
  OBVIOUS
<1> QED  BY <1>1

LEMMA RemoveAtShape ==
  ASSUME NEW S, NEW q \in Seq(S), NEW k \in DOMAIN q
  PROVE  /\ RemoveAt(q, k) \in Seq(S)
         /\ Len(RemoveAt(q, k)) = Len(q) - 1
         /\ \A i \in 1 .. Len(q) - 1 :
              RemoveAt(q, k)[i] = IF i < k THEN q[i] ELSE q[i + 1]
<1> DEFINE n == Len(q)
           front == SubSeq(q, 1, k - 1)
           back == SubSeq(q, k + 1, n)
<1>1. n \in Nat /\ k \in 1 .. n /\ \A i \in 1 .. n : q[i] \in S
  OBVIOUS
<1> HIDE DEF n
<1>2. /\ front \in Seq(S) /\ Len(front) = k - 1
      /\ \A i \in 1 .. k - 1 : front[i] = q[i]
  BY <1>1, SubSeqProperties
<1>3. /\ back \in Seq(S) /\ Len(back) = n - k
      /\ \A i \in 1 .. n - k : back[i] = q[k + i]
  BY <1>1, SubSeqProperties
<1>4. RemoveAt(q, k) = front \o back
  BY DEF RemoveAt, n
<1> HIDE DEF front, back
<1>5. /\ front \o back \in Seq(S) /\ Len(front \o back) = n - 1
      /\ \A i \in 1 .. n - 1 :
           (front \o back)[i] = IF i <= k - 1 THEN front[i] ELSE back[i - (k - 1)]
  <2>1. Len(front) + Len(back) = n - 1
    BY <1>1, <1>2, <1>3
  <2>2. /\ front \o back \in Seq(S) /\ Len(front \o back) = Len(front) + Len(back)
        /\ \A i \in 1 .. Len(front) + Len(back) :
             (front \o back)[i] = IF i <= Len(front) THEN front[i] ELSE back[i - Len(front)]
    BY <1>2, <1>3, ConcatProperties
  <2>3. Len(front) = k - 1
    BY <1>2
  <2> QED  BY <2>1, <2>2, <2>3
<1>6. \A i \in 1 .. n - 1 :
        (front \o back)[i] = IF i < k THEN q[i] ELSE q[i + 1]
  <2> SUFFICES ASSUME NEW i \in 1 .. n - 1
               PROVE  (front \o back)[i] = IF i < k THEN q[i] ELSE q[i + 1]
    OBVIOUS
  <2>1. CASE i < k
    BY <1>1, <1>2, <1>5, <2>1
  <2>2. CASE i >= k
    <3>1. /\ i - (k - 1) \in 1 .. n - k
          /\ k + (i - (k - 1)) = i + 1
      BY <1>1, <2>2
    <3>2. back[i - (k - 1)] = q[i + 1]
      BY <1>3, <3>1
    <3> QED  BY <1>1, <1>5, <2>2, <3>2
  <2>3. i < k \/ i >= k
    BY <1>1
  <2> QED  BY <2>1, <2>2, <2>3
<1> QED  BY <1>4, <1>5, <1>6 DEF n

LEMMA InsertAtShape ==
  ASSUME NEW S, NEW q \in Seq(S), NEW k \in 1 .. Len(q) + 1, NEW e \in S
  PROVE  /\ InsertAt(q, k, e) \in Seq(S)
         /\ Len(InsertAt(q, k, e)) = Len(q) + 1
         /\ \A i \in 1 .. Len(q) + 1 :
              InsertAt(q, k, e)[i] = IF i < k THEN q[i] ELSE IF i = k THEN e ELSE q[i - 1]
<1> DEFINE n == Len(q)
           front == SubSeq(q, 1, k - 1)
           back == SubSeq(q, k, n)
           half == front \o << e >>
<1>1. n \in Nat /\ k \in 1 .. n + 1 /\ \A i \in 1 .. n : q[i] \in S
  OBVIOUS
<1> HIDE DEF n
<1>2. /\ front \in Seq(S) /\ Len(front) = k - 1
      /\ \A i \in 1 .. k - 1 : front[i] = q[i]
  BY <1>1, SubSeqProperties
<1>3. /\ back \in Seq(S) /\ Len(back) = n - k + 1
      /\ \A i \in 1 .. n - k + 1 : back[i] = q[k + i - 1]
  BY <1>1, SubSeqProperties
<1>4. InsertAt(q, k, e) = half \o back
  BY DEF InsertAt, n
<1> HIDE DEF front, back
<1>5. << e >> \in Seq(S) /\ Len(<< e >>) = 1 /\ << e >>[1] = e
  OBVIOUS
<1>6. /\ half \in Seq(S) /\ Len(half) = k
      /\ \A i \in 1 .. k : half[i] = IF i < k THEN q[i] ELSE e
  <2>1. /\ half \in Seq(S) /\ Len(half) = k
        /\ \A i \in 1 .. k :
             half[i] = IF i <= k - 1 THEN front[i] ELSE << e >>[i - (k - 1)]
    BY <1>1, <1>2, <1>5, ConcatProperties
  <2> QED  BY <1>1, <1>2, <1>5, <2>1
<1> HIDE DEF half
<1>7. /\ half \o back \in Seq(S) /\ Len(half \o back) = n + 1
      /\ \A i \in 1 .. n + 1 :
           (half \o back)[i] = IF i <= k THEN half[i] ELSE back[i - k]
  <2>1. Len(half) + Len(back) = n + 1
    BY <1>1, <1>3, <1>6
  <2>2. /\ half \o back \in Seq(S) /\ Len(half \o back) = Len(half) + Len(back)
        /\ \A i \in 1 .. Len(half) + Len(back) :
             (half \o back)[i] = IF i <= Len(half) THEN half[i] ELSE back[i - Len(half)]
    BY <1>3, <1>6, ConcatProperties
  <2>3. Len(half) = k
    BY <1>6
  <2> QED  BY <2>1, <2>2, <2>3
<1>8. \A i \in 1 .. n + 1 :
        (half \o back)[i] = IF i < k THEN q[i] ELSE IF i = k THEN e ELSE q[i - 1]
  <2> SUFFICES ASSUME NEW i \in 1 .. n + 1
               PROVE  (half \o back)[i] =
                        IF i < k THEN q[i] ELSE IF i = k THEN e ELSE q[i - 1]
    OBVIOUS
  <2>1. CASE i <= k
    BY <1>1, <1>6, <1>7, <2>1
  <2>2. CASE i > k
    <3>1. i - k \in 1 .. n - k + 1 /\ k + (i - k) - 1 = i - 1
      BY <1>1, <2>2
    <3>2. back[i - k] = q[i - 1]
      BY <1>3, <3>1
    <3> QED  BY <1>1, <1>7, <2>2, <3>2, SMTT(30)
  <2>3. i <= k \/ i > k
    BY <1>1
  <2> QED  BY <2>1, <2>2, <2>3
<1> QED  BY <1>4, <1>7, <1>8 DEF n

-----------------------------------------------------------------------------
(* The list: every key once, the longest idle last, and the ages it keeps  *)
(* are those of idle, a history of the conversations                       *)

Entries(K) == [key : K, age : Ages]

\* q lists the members of K in the order of their idleness.
IsLru(q, K, idle) ==
  /\ q \in Seq(Entries(K))
  /\ \A c \in K : \E i \in DOMAIN q : q[i].key = c
  /\ \A i, j \in DOMAIN q : i < j => q[i].key # q[j].key /\ q[i].age <= q[j].age
  /\ \A i \in DOMAIN q : q[i].age = idle[q[i].key]

LEMMA LruFacts ==
  ASSUME NEW q, NEW K, NEW idle, IsLru(q, K, idle)
  PROVE  /\ Len(q) \in Nat /\ DOMAIN q = 1 .. Len(q)
         /\ \A i \in DOMAIN q : q[i].key \in K /\ q[i].age \in Ages
                                 /\ q[i].age \in Int
                                 /\ q[i] = [key |-> q[i].key, age |-> q[i].age]
<1>1. \A e \in Entries(K) : /\ e.key \in K /\ e.age \in Ages
                            /\ e = [key |-> e.key, age |-> e.age]
  BY DEF Entries
<1>2. Ages \subseteq Int
  BY ConvAssumption DEF Ages
<1>3. \A i \in DOMAIN q : q[i] \in Entries(K)
  BY DEF IsLru
<1> QED  BY <1>1, <1>2, <1>3 DEF IsLru

\* Erasing a key takes its entry out and leaves the others as they were.
LEMMA EraseLru ==
  ASSUME NEW q, NEW K, NEW idle, IsLru(q, K, idle), NEW c \in K
  PROVE  IsLru(LruErase(q, c), K \ {c}, idle)
<1> DEFINE places == {i \in DOMAIN q : q[i].key = c}
           k == CHOOSE i \in places : TRUE
           s == LruErase(q, c)
           n == Len(q)
           old(i) == IF i < k THEN i ELSE i + 1
<1>1. places # {} /\ k \in DOMAIN q /\ q[k].key = c
  BY DEF IsLru
<1>2. s = RemoveAt(q, k)
  BY <1>1 DEF LruErase
<1> HIDE DEF k, places
<1>3. /\ n \in Nat /\ DOMAIN q = 1 .. n
      /\ \A i \in DOMAIN q : q[i].key \in K /\ q[i].age \in Ages
                              /\ q[i] = [key |-> q[i].key, age |-> q[i].age]
  BY LruFacts
<1>4. q \in Seq(Entries(K))
  BY DEF IsLru
<1>5. /\ s \in Seq(Entries(K)) /\ Len(s) = n - 1
      /\ \A i \in 1 .. n - 1 : s[i] = IF i < k THEN q[i] ELSE q[i + 1]
  BY <1>1, <1>2, <1>4, RemoveAtShape
<1> HIDE DEF s, n
<1>6. DOMAIN s = 1 .. n - 1
  BY <1>5
<1>7. \A i \in 1 .. n - 1 : old(i) \in DOMAIN q /\ old(i) # k /\ s[i] = q[old(i)]
  BY <1>1, <1>3, <1>5
<1>8. \A i, j \in 1 .. n - 1 : i < j => old(i) < old(j)
  BY <1>1, <1>3
<1>9. \A j \in DOMAIN q : j # k => \E i \in 1 .. n - 1 : old(i) = j
  <2> SUFFICES ASSUME NEW j \in DOMAIN q, j # k
               PROVE  \E i \in 1 .. n - 1 : old(i) = j
    OBVIOUS
  <2>1. CASE j < k
    BY <1>1, <1>3, <2>1
  <2>2. CASE j > k
    <3>1. j - 1 \in 1 .. n - 1 /\ old(j - 1) = j
      BY <1>1, <1>3, <2>2
    <3> QED  BY <3>1
  <2> QED  BY <1>1, <1>3, <2>1, <2>2
<1> HIDE DEF old
<1>10. \A i \in 1 .. n - 1 : s[i].key # c
  <2> SUFFICES ASSUME NEW i \in 1 .. n - 1 PROVE s[i].key # c
    OBVIOUS
  <2>1. old(i) < k \/ k < old(i)
    BY <1>1, <1>3, <1>7
  <2> QED  BY <1>1, <1>7, <2>1 DEF IsLru
<1>11. \A i \in 1 .. n - 1 : s[i] \in Entries(K \ {c})
  BY <1>3, <1>7, <1>10 DEF Entries
<1>12. s \in Seq(Entries(K \ {c}))
  BY <1>5, <1>6, <1>11, SeqOver
<1>13. \A d \in K \ {c} : \E i \in DOMAIN s : s[i].key = d
  <2> SUFFICES ASSUME NEW d \in K \ {c} PROVE \E i \in 1 .. n - 1 : s[i].key = d
    BY <1>6
  <2>1. PICK j \in DOMAIN q : q[j].key = d
    BY DEF IsLru
  <2>2. PICK i \in 1 .. n - 1 : old(i) = j
    BY <1>1, <1>9, <2>1
  <2> QED  BY <1>7, <2>1, <2>2
<1>14. \A i, j \in DOMAIN s : i < j => s[i].key # s[j].key /\ s[i].age <= s[j].age
  BY <1>6, <1>7, <1>8 DEF IsLru
<1>15. \A i \in DOMAIN s : s[i].age = idle[s[i].key]
  BY <1>6, <1>7 DEF IsLru
<1> QED  BY <1>12, <1>13, <1>14, <1>15 DEF IsLru, s

\* A key used now goes to the front; the history says that it was.
LEMMA PushLru ==
  ASSUME NEW q, NEW K, NEW idle, IsLru(q, K, idle),
         NEW c, c \notin K, NEW now_idle, now_idle[c] = 0,
         \A d \in K : now_idle[d] = idle[d]
  PROVE  IsLru(LruPushFront(q, c), K \cup {c}, now_idle)
<1> DEFINE e == [key |-> c, age |-> 0]
           s == LruPushFront(q, c)
           n == Len(q)
<1>1. /\ n \in Nat /\ DOMAIN q = 1 .. n
      /\ \A i \in DOMAIN q : q[i].key \in K /\ q[i].age \in Ages /\ q[i].age \in Int
                              /\ q[i] = [key |-> q[i].key, age |-> q[i].age]
  BY LruFacts
<1>2. 0 \in Ages /\ \A age \in Ages : age \in Int /\ 0 <= age
  BY ConvAssumption DEF Ages
<1>3. /\ e \in Entries(K \cup {c}) /\ e.key = c /\ e.age = 0
      /\ \A i \in 1 .. n : q[i] \in Entries(K \cup {c})
  BY <1>1, <1>2 DEF Entries
<1>4. q \in Seq(Entries(K))
  BY DEF IsLru
<1>5. s = << e >> \o q
  BY DEF LruPushFront
<1> HIDE DEF e, s, n
<1>6. s = [i \in 1 .. n + 1 |-> IF i = 1 THEN e ELSE q[i - 1]]
  BY <1>1, <1>4, <1>5 DEF n
<1>7. \A i \in 1 .. n + 1 : i # 1 => i - 1 \in 1 .. n
  BY <1>1
<1>8. s \in Seq(Entries(K \cup {c})) /\ DOMAIN s = 1 .. n + 1
  <2>1. \A i \in 1 .. n + 1 : s[i] \in Entries(K \cup {c})
    BY <1>3, <1>6, <1>7
  <2>2. s \in [1 .. n + 1 -> Entries(K \cup {c})]
    BY <1>6, <2>1
  <2>3. n + 1 \in Nat
    BY <1>1
  <2> QED  BY <2>2, <2>3, FunctionIsSeq
<1>9. \A d \in K \cup {c} : \E i \in DOMAIN s : s[i].key = d
  <2> SUFFICES ASSUME NEW d \in K \cup {c} PROVE \E i \in 1 .. n + 1 : s[i].key = d
    BY <1>8
  <2>1. CASE d = c
    BY <1>1, <1>3, <1>6, <2>1
  <2>2. CASE d \in K
    <3>1. PICK j \in 1 .. n : q[j].key = d
      BY <1>1, <2>2 DEF IsLru
    <3>2. j + 1 \in 1 .. n + 1 /\ s[j + 1] = q[j]
      BY <1>1, <1>6
    <3> QED  BY <3>1, <3>2
  <2> QED  BY <2>1, <2>2
<1>10. \A i, j \in DOMAIN s : i < j => s[i].key # s[j].key /\ s[i].age <= s[j].age
  <2> SUFFICES ASSUME NEW i \in 1 .. n + 1, NEW j \in 1 .. n + 1, i < j
               PROVE  s[i].key # s[j].key /\ s[i].age <= s[j].age
    BY <1>8
  <2>1. j - 1 \in DOMAIN q /\ s[j] = q[j - 1]
    BY <1>1, <1>6
  <2>2. CASE i = 1
    BY <1>1, <1>2, <1>3, <1>6, <2>1, <2>2
  <2>3. CASE i # 1
    <3>1. i - 1 \in DOMAIN q /\ s[i] = q[i - 1] /\ i - 1 < j - 1
      BY <1>1, <1>6, <2>3
    <3> QED  BY <2>1, <3>1 DEF IsLru
  <2> QED  BY <2>2, <2>3
<1>11. \A i \in DOMAIN s : s[i].age = now_idle[s[i].key]
  <2> SUFFICES ASSUME NEW i \in 1 .. n + 1 PROVE s[i].age = now_idle[s[i].key]
    BY <1>8
  <2>1. CASE i = 1
    BY <1>1, <1>3, <1>6, <2>1
  <2>2. CASE i # 1
    <3>1. i - 1 \in DOMAIN q /\ s[i] = q[i - 1]
      BY <1>1, <1>6, <2>2
    <3> QED  BY <1>1, <3>1 DEF IsLru
  <2> QED  BY <2>1, <2>2
<1> QED  BY <1>8, <1>9, <1>10, <1>11 DEF IsLru, s

\* Every stamp is a tick older.
LEMMA AgedLru ==
  ASSUME NEW q, NEW K, NEW idle, IsLru(q, K, idle), NEW now_idle,
         \A c \in K : now_idle[c] = Older(idle[c])
  PROVE  IsLru([i \in DOMAIN q |-> AgedEntry(q[i])], K, now_idle)
<1> DEFINE s == [i \in DOMAIN q |-> AgedEntry(q[i])]
<1>1. /\ Len(q) \in Nat /\ DOMAIN q = 1 .. Len(q)
      /\ \A i \in DOMAIN q : q[i].key \in K /\ q[i].age \in Ages
                              /\ q[i] = [key |-> q[i].key, age |-> q[i].age]
  BY LruFacts
<1>2. \A x, y \in Ages : Older(x) \in Ages /\ (x <= y => Older(x) <= Older(y))
  BY ConvAssumption DEF Ages, Older
<1>3. \A i \in DOMAIN q : s[i] = [key |-> q[i].key, age |-> Older(q[i].age)]
  <2> SUFFICES ASSUME NEW i \in DOMAIN q
               PROVE  AgedEntry(q[i]) = [key |-> q[i].key, age |-> Older(q[i].age)]
    OBVIOUS
  <2> DEFINE e == q[i]
             t == Older(q[i].age)
  <2>1. e = [key |-> e.key, age |-> e.age]
    BY <1>1
  <2>2. AgedEntry(e) = [e EXCEPT !.age = t]
    BY DEF AgedEntry
  <2> HIDE DEF e, t
  <2>3. [e EXCEPT !.age = t] = [key |-> e.key, age |-> t]
    BY <2>1
  <2> QED  BY <2>2, <2>3 DEF e, t
<1>4. DOMAIN s = 1 .. Len(q) /\ s \in [1 .. Len(q) -> Entries(K)]
  BY <1>1, <1>2, <1>3 DEF Entries
<1> HIDE DEF s
<1>5. s \in Seq(Entries(K))
  BY <1>1, <1>4
<1>6. \A c \in K : \E i \in DOMAIN s : s[i].key = c
  BY <1>1, <1>3, <1>4 DEF IsLru
<1>7. \A i, j \in DOMAIN s : i < j => s[i].key # s[j].key /\ s[i].age <= s[j].age
  BY <1>1, <1>2, <1>3, <1>4 DEF IsLru
<1>8. \A i \in DOMAIN s : s[i].age = now_idle[s[i].key]
  BY <1>1, <1>3, <1>4 DEF IsLru
<1> QED  BY <1>5, <1>6, <1>7, <1>8 DEF IsLru, s

-----------------------------------------------------------------------------
(* The managers *)

\* The tables are inverse to each other and the list is about their conversations.
WellFormed(m, idle) ==
  /\ IsRecord(m)
  /\ MutuallyInverse(m)
  /\ m.last_clear \in Stamps
  /\ IsLru(m.lru, Convs(m), idle)

LEMMA NewWellFormed ==
  ASSUME NEW t \in Stamps, NEW idle
  PROVE  WellFormed(NewManager(t), idle)
<1>1. IsRecord(NewManager(t)) /\ MutuallyInverse(NewManager(t)) /\ Convs(NewManager(t)) = {}
  BY NewManagerTables DEF Convs
<1>2. NewManager(t).lru = << >> /\ NewManager(t).last_clear = t
  BY DEF NewManager
<1>3. IsLru(<< >>, {}, idle)
  BY DEF IsLru
<1> QED  BY <1>1, <1>2, <1>3 DEF WellFormed

LEMMA UpdateWellFormed ==
  ASSUME NEW m, NEW idle, WellFormed(m, idle), NEW c \in Convs(m),
         NEW now_idle, now_idle[c] = 0, \A d \in Convs(m) \ {c} : now_idle[d] = idle[d]
  PROVE  WellFormed(UpdateActiveTime(m, c), now_idle)
<1> DEFINE n == UpdateActiveTime(m, c)
           q == LruPushFront(LruErase(m.lru, c), c)
           K == Convs(m)
<1>1. n = [m EXCEPT !.lru = q]
  BY DEF UpdateActiveTime
<1>2. IsLru(q, (K \ {c}) \cup {c}, now_idle)
  BY EraseLru, PushLru DEF WellFormed
<1>3. (K \ {c}) \cup {c} = K
  OBVIOUS
<1> HIDE DEF q
<1>4. n.lru = q /\ n.last_clear = m.last_clear
  BY <1>1 DEF WellFormed, IsRecord
<1>5. IsRecord(n) /\ SameTables(m, n)
  BY UpdateKeepsTables DEF WellFormed
<1> HIDE DEF n
<1>6. MutuallyInverse(n) /\ Convs(n) = K
  BY <1>5 DEF WellFormed, SameTables, MutuallyInverse, Convs
<1> QED  BY <1>2, <1>3, <1>4, <1>5, <1>6 DEF WellFormed, n

LEMMA InsertWellFormed ==
  ASSUME NEW m, NEW idle, WellFormed(m, idle),
         NEW c, c \notin Convs(m), NEW d, d \notin DOMAIN m.data_to_conv,
         NEW now_idle, now_idle[c] = 0, \A e \in Convs(m) : now_idle[e] = idle[e]
  PROVE  WellFormed(UpdateActiveTime(InsertConv(m, c, d), c), now_idle)
<1> DEFINE n == InsertConv(m, c, d)
           q == LruPushFront(m.lru, c)
           f == With(m.conv_to_data, c, d)
           g == With(m.data_to_conv, d, c)
<1>1. n = [m EXCEPT !.data_to_conv = g, !.conv_to_data = f, !.lru = q]
  BY DEF InsertConv
<1>2. IsLru(q, Convs(m) \cup {c}, now_idle)
  BY PushLru DEF WellFormed
<1> HIDE DEF q, f, g
<1>3. n = [conv_to_data |-> f, data_to_conv |-> g, lru |-> q, last_clear |-> m.last_clear]
  BY <1>1 DEF WellFormed, IsRecord
<1> HIDE DEF n
<1>4. IsRecord(n) /\ n.lru = q /\ n.last_clear = m.last_clear
  BY <1>3 DEF IsRecord
<1>5. n.conv_to_data = With(m.conv_to_data, c, d) /\ n.data_to_conv = With(m.data_to_conv, d, c)
  BY <1>3 DEF f, g
<1>6. MutuallyInverse(n)
  BY <1>5, InsertInverse DEF WellFormed, Convs
<1>7. Convs(n) = Convs(m) \cup {c}
  BY <1>5 DEF Convs, With
<1>8. WellFormed(n, now_idle)
  BY <1>2, <1>4, <1>6, <1>7 DEF WellFormed
<1>9. WellFormed(UpdateActiveTime(n, c), now_idle)
  BY <1>7, <1>8, UpdateWellFormed
<1> QED  BY <1>9 DEF n

\* Erasing a conversation takes it out of both tables and the list.
LEMMA EraseTables ==
  ASSUME NEW m, IsRecord(m), NEW c
  PROVE  /\ IsRecord(EraseConv(m, c))
         /\ EraseConv(m, c).conv_to_data = Without(m.conv_to_data, c)
         /\ EraseConv(m, c).data_to_conv = Without(m.data_to_conv, m.conv_to_data[c])
         /\ EraseConv(m, c).lru = LruErase(m.lru, c)
         /\ EraseConv(m, c).last_clear = m.last_clear
<1> DEFINE n == EraseConv(m, c)
           q == LruErase(m.lru, c)
           f == Without(m.conv_to_data, c)
           g == Without(m.data_to_conv, m.conv_to_data[c])
<1>1. n = [m EXCEPT !.conv_to_data = f, !.data_to_conv = g, !.lru = q]
  BY DEF EraseConv
<1> HIDE DEF q, f, g
<1>2. n = [conv_to_data |-> f, data_to_conv |-> g, lru |-> q, last_clear |-> m.last_clear]
  BY <1>1 DEF IsRecord
<1> HIDE DEF n
<1> QED  BY <1>2 DEF n, q, f, g, IsRecord

LEMMA EraseWellFormed ==
  ASSUME NEW m, NEW idle, WellFormed(m, idle), NEW c \in Convs(m)
  PROVE  WellFormed(EraseConv(m, c), idle)
<1> DEFINE n == EraseConv(m, c)
<1>1. /\ IsRecord(n)
      /\ n.conv_to_data = Without(m.conv_to_data, c)
      /\ n.data_to_conv = Without(m.data_to_conv, m.conv_to_data[c])
      /\ n.lru = LruErase(m.lru, c)
      /\ n.last_clear = m.last_clear
  BY EraseTables DEF WellFormed
<1> HIDE DEF n
<1>2. Convs(n) = Convs(m) \ {c}
  BY <1>1 DEF Convs, Without
<1>3. MutuallyInverse(n)
  BY <1>1 DEF WellFormed, MutuallyInverse, Without, Convs
<1>4. IsLru(n.lru, Convs(n), idle)
  BY <1>1, <1>2, EraseLru DEF WellFormed
<1> QED  BY <1>1, <1>3, <1>4 DEF WellFormed, n

LEMMA AgedWellFormed ==
  ASSUME NEW m, NEW idle, WellFormed(m, idle),
         NEW now_idle, \A c \in Convs(m) : now_idle[c] = Older(idle[c])
  PROVE  WellFormed(Aged(m), now_idle)
<1> DEFINE n == Aged(m)
           q == [i \in DOMAIN m.lru |-> AgedEntry(m.lru[i])]
           t == Older(m.last_clear)
<1>1. n = [m EXCEPT !.lru = q, !.last_clear = t]
  BY DEF Aged
<1>2. IsLru(q, Convs(m), now_idle)
  BY AgedLru DEF WellFormed
<1>3. t \in Stamps
  BY ConvAssumption DEF WellFormed, Older, Stamps
<1>4. IsRecord(n) /\ SameTables(m, n)
  BY AgedKeepsTables DEF WellFormed
<1> HIDE DEF q, t
<1>5. n.lru = q /\ n.last_clear = t
  BY <1>1 DEF WellFormed, IsRecord
<1> HIDE DEF n
<1>6. MutuallyInverse(n) /\ Convs(n) = Convs(m)
  BY <1>4 DEF WellFormed, SameTables, MutuallyInverse, Convs
<1> QED  BY <1>2, <1>3, <1>4, <1>5, <1>6 DEF WellFormed, n

\* A clearing that begins changes only the time of the last one.
LEMMA ClearingWellFormed ==
  ASSUME NEW m, NEW idle, WellFormed(m, idle)
  PROVE  /\ WellFormed([m EXCEPT !.last_clear = 0], idle)
         /\ SameTables(m, [m EXCEPT !.last_clear = 0])
<1> DEFINE n == [m EXCEPT !.last_clear = 0]
<1>1. n = [conv_to_data |-> m.conv_to_data, data_to_conv |-> m.data_to_conv,
           lru |-> m.lru, last_clear |-> 0]
  BY DEF WellFormed, IsRecord
<1>2. 0 \in Stamps
  BY ConvAssumption DEF Stamps
<1> HIDE DEF n
<1>3. SameTables(m, n)
  BY <1>1 DEF SameTables
<1>4. WellFormed(n, idle)
  <2>1. IsRecord(n) /\ n.lru = m.lru /\ n.last_clear = 0
    BY <1>1 DEF IsRecord
  <2>2. MutuallyInverse(n) /\ Convs(n) = Convs(m)
    BY <1>3 DEF WellFormed, SameTables, MutuallyInverse, Convs
  <2> QED  BY <1>2, <2>1, <2>2 DEF WellFormed
<1> QED  BY <1>3, <1>4 DEF n

\* The entry at the end of the list is a conversation, with its true idleness.
LEMMA OldestIsKnown ==
  ASSUME NEW m, NEW idle, WellFormed(m, idle), m.lru # << >>
  PROVE  Oldest(m).key \in Convs(m) /\ Oldest(m).age = idle[Oldest(m).key]
<1>1. m.lru \in Seq(Entries(Convs(m)))
  BY DEF WellFormed, IsLru
<1>2. Len(m.lru) \in DOMAIN m.lru
  BY <1>1
<1>3. IsLru(m.lru, Convs(m), idle)
  BY DEF WellFormed
<1>4. m.lru[Len(m.lru)].key \in Convs(m)
  BY <1>2, <1>3, LruFacts
<1>5. m.lru[Len(m.lru)].age = idle[m.lru[Len(m.lru)].key]
  BY <1>2, <1>3 DEF IsLru
<1> QED  BY <1>4, <1>5 DEF Oldest, Last

LEMMA WellFormedIsConsistent ==
  ASSUME NEW m, NEW idle, WellFormed(m, idle)
  PROVE  /\ Consistent(m)
         /\ \A i \in DOMAIN m.lru : m.lru[i].age = idle[m.lru[i].key]
<1>1. {m.lru[i].key : i \in DOMAIN m.lru} = Convs(m)
  <2>1. IsLru(m.lru, Convs(m), idle)
    BY DEF WellFormed
  <2>2. \A i \in DOMAIN m.lru : m.lru[i].key \in Convs(m)
    BY <2>1, LruFacts
  <2>3. \A c \in Convs(m) : \E i \in DOMAIN m.lru : m.lru[i].key = c
    BY <2>1 DEF IsLru
  <2> QED  BY <2>2, <2>3
<1> QED  BY <1>1 DEF WellFormed, Consistent, MutuallyInverse, IsLru, Convs

-----------------------------------------------------------------------------
(* The inductive invariant *)

\* How long each conversation of a connection has been silent.
Silence(a) == [c \in Conv |-> conv_idle[<<a, c>>]]

TablesTyped(m) ==
  /\ DOMAIN m.conv_to_data \subseteq Conv
  /\ m.conv_to_data \in [DOMAIN m.conv_to_data -> Fd64]
  /\ DOMAIN m.data_to_conv \subseteq Fd64
  /\ m.data_to_conv \in [DOMAIN m.data_to_conv -> Conv]

\* The managers say what has happened.
ManagersOK ==
  /\ Live \subseteq Addr
  /\ \A a \in Live : TablesTyped(conv_manager[a]) /\ WellFormed(conv_manager[a], Silence(a))

AgesOK ==
  /\ last_clear \in Ages
  /\ DOMAIN last_active = Live
  /\ \A a \in Live : last_active[a] = conn_idle[a]
  /\ conn_idle \in [Addr -> Ages]
  /\ conv_idle \in [Addr \X Conv -> Ages]

FdsTyped ==
  /\ DOMAIN fd64_to_fd \subseteq Fd64
  /\ \A x \in DOMAIN fd64_to_fd : fd64_to_fd[x] \in Fd
  /\ DOMAIN fd_to_fd64 \subseteq Fd
  /\ \A fd \in DOMAIN fd_to_fd64 : fd_to_fd64[fd] \in Fd64
  /\ counter \in 0 .. MaxFd64

\* The maps of fd_manager are inverse to each other and hold the open sockets.
FdsOK ==
  /\ sockets = DOMAIN fd_to_fd64
  /\ DOMAIN fd_info = DOMAIN fd64_to_fd
  /\ \A fd \in DOMAIN fd_to_fd64 :
       fd_to_fd64[fd] \in DOMAIN fd64_to_fd /\ fd64_to_fd[fd_to_fd64[fd]] = fd
  /\ \A x \in DOMAIN fd64_to_fd :
       fd64_to_fd[x] \in DOMAIN fd_to_fd64 /\ fd_to_fd64[fd64_to_fd[x]] = x
  /\ \A x \in DOMAIN fd64_to_fd : x < counter

\* A number in use is in the tables of the connection its info names, and of no other.
UsersOK ==
  /\ \A x \in DOMAIN fd64_to_fd :
       fd_info[x] \in Live /\ x \in DOMAIN conv_manager[fd_info[x]].data_to_conv
  /\ \A a \in Live : \A x \in DOMAIN conv_manager[a].data_to_conv :
       x \in DOMAIN fd64_to_fd /\ fd_info[x] = a

WatchersOK ==
  io = {[fd |-> fd64_to_fd[x], fd64 |-> x, conn |-> fd_info[x]] : x \in DOMAIN fd64_to_fd}

TimersOK ==
  /\ timers \subseteq [kind : {"conn", "fec"}, conn : Live]
  /\ \A a \in Live : ConnTimer(a) \in timers

\* mp lists every live connection once.
TableOK ==
  /\ mp \in Seq(Live)
  /\ \A a \in Live : \E i \in DOMAIN mp : mp[i] = a
  /\ \A i, j \in DOMAIN mp : mp[i] = mp[j] => i = j

\* The iterator in use is good; the one kept is stale only while one is in use.
IteratorsOK ==
  /\ clear_it \in Addr \cup {End}
  /\ \/ work = Idle
     \/ \E a \in Live, left \in Seq(Conv) \ {<< >>} :
          work = [job |-> "deliver", conn |-> a, left |-> left]
     \/ \E a \in Live, left \in Nat : work = ConvClearing(a, left)
     \/ \E it \in Live \cup {End}, left \in Nat : work = ConnClearing(it, left)
  /\ work.job # "conns" => clear_it \in Live \cup {End}

IInv ==
  /\ ManagersOK /\ AgesOK
  /\ FdsTyped /\ FdsOK /\ UsersOK /\ WatchersOK
  /\ TimersOK /\ TableOK /\ IteratorsOK

-----------------------------------------------------------------------------
(* What several actions share *)

LEMMA TypedManager ==
  ASSUME NEW m, NEW idle, WellFormed(m, idle), TablesTyped(m)
  PROVE  IsManager(m, Conv, Fd64)
<1>1. DOMAIN m = {"conv_to_data", "data_to_conv", "lru", "last_clear"}
  <2> DEFINE f == m.conv_to_data
             g == m.data_to_conv
             q == m.lru
             t == m.last_clear
  <2>1. m = [conv_to_data |-> f, data_to_conv |-> g, lru |-> q, last_clear |-> t]
    BY DEF WellFormed, IsRecord
  <2> HIDE DEF f, g, q, t
  <2> QED  BY <2>1
<1>2. m.lru \in Seq([key : Conv, age : Ages])
  <2>1. m.lru \in Seq(Entries(Convs(m)))
    BY DEF WellFormed, IsLru
  <2>2. \A i \in DOMAIN m.lru : m.lru[i] \in Entries(Convs(m))
    BY <2>1
  <2>3. Entries(Convs(m)) \subseteq Entries(Conv)
    BY DEF Entries, TablesTyped, Convs
  <2>4. m.lru \in Seq(Entries(Conv))
    BY <2>1, <2>2, <2>3, SeqOver
  <2>5. Entries(Conv) = [key : Conv, age : Ages]
    BY DEF Entries
  <2> QED  BY <2>4, <2>5
<1> QED  BY <1>1, <1>2 DEF TablesTyped, WellFormed, IsManager

\* The invariant is strong enough for the type invariant.
LEMMA IInvTypes == IInv => TypeOK
<1> SUFFICES ASSUME IInv PROVE TypeOK
  OBVIOUS
<1>1. Live \subseteq Addr /\ \A a \in Live : IsManager(conv_manager[a], Conv, Fd64)
  BY TypedManager DEF IInv, ManagersOK
<1>2. mp \in Seq(Addr)
  <2>1. mp \in Seq(Live)
    BY DEF IInv, TableOK
  <2> QED  BY <1>1, <2>1, SeqOver
<1>3. \A a \in Live : last_active[a] \in Ages
  BY <1>1 DEF IInv, AgesOK
<1>4. /\ DOMAIN fd_info \subseteq Fd64 /\ sockets \subseteq Fd
      /\ \A x \in DOMAIN fd_info : fd_info[x] \in Addr
  BY <1>1 DEF IInv, FdsTyped, FdsOK, UsersOK
<1>5. io \subseteq [fd : Fd, fd64 : Fd64, conn : Addr]
  BY <1>4 DEF IInv, WatchersOK, FdsTyped, FdsOK
<1>6. timers \subseteq [kind : {"conn", "fec"}, conn : Addr]
  BY <1>1 DEF IInv, TimersOK
<1> QED  BY <1>1, <1>2, <1>3, <1>4, <1>5, <1>6 DEF IInv, TypeOK, AgesOK, FdsTyped, IteratorsOK

\* Most steps leave the tables of every manager as they are.
TablesStay ==
  Live' = Live /\ \A a \in Live : SameTables(conv_manager[a], conv_manager'[a])

LEMMA AgesTyped == 0 \in Ages /\ \A t \in Ages : Older(t) \in Ages
BY ConvAssumption DEF Ages, Older

\* Managers with the tables they had leave the sockets their owners.
LEMMA SameUsers ==
  ASSUME UsersOK, UNCHANGED fds, Live' = Live,
         \A a \in Live : SameTables(conv_manager[a], conv_manager'[a])
  PROVE  UsersOK'
BY DEF UsersOK, fds, SameTables

LEMMA SameFds ==
  ASSUME FdsTyped, FdsOK, WatchersOK, UNCHANGED <<fds, io>>
  PROVE  FdsTyped' /\ FdsOK' /\ WatchersOK'
BY DEF FdsTyped, FdsOK, WatchersOK, fds

LEMMA SameManagers ==
  ASSUME ManagersOK, UNCHANGED <<conv_manager, conv_idle>>
  PROVE  ManagersOK' /\ Live' = Live /\ \A a \in Live : SameTables(conv_manager[a], conv_manager'[a])
BY DEF ManagersOK, Live, Silence, SameTables

LEMMA SameTable ==
  ASSUME TableOK, TimersOK, UNCHANGED <<mp, timers>>, Live' = Live
  PROVE  TableOK' /\ TimersOK'
BY DEF TableOK, TimersOK, ConnTimer

LEMMA SilenceBroken ==
  ASSUME conv_idle \in [Addr \X Conv -> Ages], NEW a \in Addr, NEW c \in Conv,
         conv_idle' = [conv_idle EXCEPT ![<<a, c>>] = 0]
  PROVE  /\ (Silence(a)')[c] = 0
         /\ \A d \in Conv \ {c} : (Silence(a)')[d] = Silence(a)[d]
         /\ \A b \in Addr \ {a} : Silence(b)' = Silence(b)
         /\ conv_idle' \in [Addr \X Conv -> Ages]
BY AgesTyped DEF Silence

LEMMA NumToCleanIsNat ==
  ASSUME NEW size \in Nat, NEW ratio \in Nat \ {0}, NEW least \in Nat
  PROVE  NumToClean(size, ratio, least) \in Nat
<1>1. size \div ratio \in Nat
  OBVIOUS
<1>2. \A n \in Nat : (IF n < size THEN n ELSE size) \in Nat
  OBVIOUS
<1> QED  BY <1>1, <1>2 DEF NumToClean

\* A packet of conversation c of connection a, in either direction.
LEMMA ConvUsed ==
  ASSUME IInv, NEW a \in Live, NEW c \in Convs(conv_manager[a]),
         conv_manager' = [conv_manager EXCEPT ![a] = UpdateActiveTime(conv_manager[a], c)],
         conv_idle' = [conv_idle EXCEPT ![<<a, c>>] = 0]
  PROVE  /\ ManagersOK' /\ Live' = Live
         /\ \A b \in Live : SameTables(conv_manager[b], conv_manager'[b])
         /\ conv_idle' \in [Addr \X Conv -> Ages]
<1> DEFINE n == UpdateActiveTime(conv_manager[a], c)
<1>1. /\ WellFormed(conv_manager[a], Silence(a)) /\ TablesTyped(conv_manager[a])
      /\ a \in Addr /\ c \in Conv
  BY DEF IInv, ManagersOK, TablesTyped, Convs
<1>2. conv_idle \in [Addr \X Conv -> Ages]
  BY DEF IInv, AgesOK
<1>3. /\ (Silence(a)')[c] = 0
      /\ \A d \in Conv \ {c} : (Silence(a)')[d] = Silence(a)[d]
      /\ \A b \in Addr \ {a} : Silence(b)' = Silence(b)
  BY <1>1, <1>2, SilenceBroken
<1>4. conv_idle' \in [Addr \X Conv -> Ages]
  BY <1>1, <1>2, SilenceBroken
<1>5. Convs(conv_manager[a]) \subseteq Conv
  BY <1>1 DEF TablesTyped, Convs
<1>6. WellFormed(n, Silence(a)')
  BY <1>1, <1>3, <1>5, UpdateWellFormed
<1>7. SameTables(conv_manager[a], n)
  BY <1>1, UpdateKeepsTables DEF WellFormed
<1> HIDE DEF n
<1>8. Live' = Live /\ conv_manager'[a] = n /\ \A b \in Live \ {a} : conv_manager'[b] = conv_manager[b]
  BY DEF Live, n
<1>9. \A b \in Live : SameTables(conv_manager[b], conv_manager'[b])
  BY <1>7, <1>8 DEF SameTables
<1>10. ManagersOK'
  BY <1>1, <1>3, <1>6, <1>8, <1>9 DEF IInv, ManagersOK, SameTables, TablesTyped
<1> QED  BY <1>4, <1>8, <1>9, <1>10

-----------------------------------------------------------------------------
(* A datagram from a client *)

LEMMA InitIInv == Init => IInv
<1> SUFFICES ASSUME Init PROVE IInv
  OBVIOUS
<1>1. Live = {} /\ Ancient \in Ages /\ counter \in 0 .. MaxFd64
  BY ConvAssumption, ServerAssumption DEF Init, Live, Ages
<1>2. ManagersOK /\ AgesOK
  BY <1>1 DEF Init, ManagersOK, AgesOK
<1>3. FdsTyped /\ FdsOK /\ UsersOK /\ WatchersOK
  BY <1>1 DEF Init, FdsTyped, FdsOK, UsersOK, WatchersOK
<1>4. TimersOK /\ TableOK /\ IteratorsOK
  BY <1>1 DEF Init, TimersOK, TableOK, IteratorsOK
<1> QED  BY <1>2, <1>3, <1>4 DEF IInv

\* Delivering the rest of a batch is good work for a live connection.
LEMMA DeliveringOK ==
  ASSUME NEW a, NEW left \in Seq(Conv), work' = Delivering(a, left), a \in Live',
         clear_it' \in Live' \cup {End}, Live' \subseteq Addr
  PROVE  IteratorsOK'
BY DEF Delivering, Idle, IteratorsOK

LEMMA BatchesAreSeqs == \A batch \in Batches : batch \in Seq(Conv)
<1> SUFFICES ASSUME NEW n \in 0 .. MaxBatch, NEW batch \in [1 .. n -> Conv]
             PROVE  batch \in Seq(Conv)
  BY DEF Batches
<1>1. n \in Nat
  OBVIOUS
<1> QED  BY <1>1, FunctionIsSeq

\* The iterator that is kept is good while the clearing is not running.
LEMMA IdleIterator == ASSUME IInv, work.job # "conns" PROVE clear_it \in Live \cup {End}
BY DEF IInv, IteratorsOK

LEMMA PacketOfConnectionStep ==
  ASSUME IInv, NEW a \in Addr, NEW batch \in Batches, PacketOfConnection(a, batch)
  PROVE  IInv' /\ TablesStay
<1>1. ManagersOK' /\ Live' = Live /\ \A b \in Live : SameTables(conv_manager[b], conv_manager'[b])
  BY SameManagers DEF IInv, PacketOfConnection
<1>2. FdsTyped' /\ FdsOK' /\ WatchersOK' /\ UsersOK' /\ TimersOK' /\ TableOK'
  BY <1>1, SameFds, SameUsers, SameTable DEF IInv, PacketOfConnection
<1>3. AgesOK'
  BY <1>1, AgesTyped DEF PacketOfConnection, IInv, AgesOK
<1>4. IteratorsOK'
  <2>1. work.job # "conns"
    BY DEF PacketOfConnection, Idle
  <2>2. clear_it' \in Live' \cup {End} /\ Live' \subseteq Addr /\ a \in Live'
    BY <1>1, <2>1, IdleIterator DEF PacketOfConnection, IInv, ManagersOK
  <2> QED  BY <2>2, DeliveringOK, BatchesAreSeqs DEF PacketOfConnection
<1> QED  BY <1>1, <1>2, <1>3, <1>4 DEF IInv, TablesStay

LEMMA PacketOfNewConnectionStep ==
  ASSUME IInv, NEW a \in Addr, NEW batch \in Batches, PacketOfNewConnection(a, batch)
  PROVE  IInv'
<1>1. PICK t \in HeapStamps : conv_manager' = With(conv_manager, a, NewManager(t))
  BY DEF PacketOfNewConnection, find_insert, conn_info_t
<1>2. /\ a \notin Live /\ Live' = Live \cup {a} /\ conv_manager'[a] = NewManager(t)
      /\ \A b \in Live : conv_manager'[b] = conv_manager[b]
  BY <1>1 DEF PacketOfNewConnection, With, Live
<1>3. /\ WellFormed(NewManager(t), Silence(a)) /\ TablesTyped(NewManager(t))
      /\ DOMAIN NewManager(t).data_to_conv = {}
  <2>1. t \in Stamps
    BY ServerAssumption
  <2>2. NewManager(t).conv_to_data = << >> /\ NewManager(t).data_to_conv = << >>
    BY DEF NewManager
  <2> QED  BY <2>1, <2>2, NewWellFormed DEF TablesTyped
<1>4. ManagersOK'
  BY <1>2, <1>3 DEF PacketOfNewConnection, IInv, ManagersOK, Silence
<1>5. AgesOK'
  BY <1>2, AgesTyped DEF PacketOfNewConnection, With, IInv, AgesOK
<1>6. FdsTyped' /\ FdsOK' /\ WatchersOK'
  BY SameFds DEF IInv, PacketOfNewConnection
<1>7. UsersOK'
  BY <1>2, <1>3 DEF PacketOfNewConnection, fds, IInv, UsersOK
<1>8. TimersOK'
  BY <1>2 DEF PacketOfNewConnection, IInv, TimersOK, ConnTimer
<1>9. TableOK'
  <2>1. PICK k \in 1 .. Len(mp) + 1 : mp' = InsertAt(mp, k, a)
    BY DEF PacketOfNewConnection, find_insert
  <2> DEFINE n == Len(mp)
  <2>2. mp \in Seq(Live) /\ mp \in Seq(Live')
    BY <1>2, SeqOver DEF IInv, TableOK
  <2>3. n \in Nat /\ DOMAIN mp = 1 .. n /\ \A i \in 1 .. n : mp[i] \in Live
    BY <2>2
  <2>4. /\ mp' \in Seq(Live') /\ Len(mp') = n + 1
        /\ \A i \in 1 .. n + 1 :
             mp'[i] = IF i < k THEN mp[i] ELSE IF i = k THEN a ELSE mp[i - 1]
    <3>1. a \in Live' /\ k \in 1 .. Len(mp) + 1
      BY <1>2
    <3> DEFINE q == InsertAt(mp, k, a)
               S == Live'
    <3> HIDE DEF S
    <3>2. mp \in Seq(S) /\ a \in S
      BY <2>2, <3>1 DEF S
    <3>3. /\ q \in Seq(S) /\ Len(q) = n + 1
          /\ \A i \in 1 .. n + 1 :
               q[i] = IF i < k THEN mp[i] ELSE IF i = k THEN a ELSE mp[i - 1]
      BY <3>1, <3>2, InsertAtShape
    <3> QED  BY <2>1, <3>3 DEF S
  <2>5. DOMAIN mp' = 1 .. n + 1
    BY <2>4
  <2> HIDE DEF n
  <2>6. \A b \in Live' : \E i \in 1 .. n + 1 : mp'[i] = b
    <3> SUFFICES ASSUME NEW b \in Live' PROVE \E i \in 1 .. n + 1 : mp'[i] = b
      OBVIOUS
    <3>1. CASE b = a
      BY <2>1, <2>3, <2>4, <3>1 DEF n
    <3>2. CASE b \in Live
      <4>1. PICK j \in 1 .. n : mp[j] = b
        BY <2>3, <3>2 DEF IInv, TableOK
      <4>2. CASE j < k
        BY <2>3, <2>4, <4>1, <4>2
      <4>3. CASE j >= k
        <5>1. j + 1 \in 1 .. n + 1 /\ ~(j + 1 < k) /\ j + 1 # k /\ (j + 1) - 1 = j
          BY <2>3, <4>3
        <5>2. mp'[j + 1] = mp[j]
          BY <2>4, <5>1
        <5> QED  BY <4>1, <5>1, <5>2
      <4> QED  BY <2>3, <4>2, <4>3
    <3> QED  BY <1>2, <3>1, <3>2
  <2>7. \A i, j \in 1 .. n + 1 : mp'[i] = mp'[j] => i = j
    <3>1. \A i \in 1 .. n + 1 : i # k => mp'[i] = mp[IF i < k THEN i ELSE i - 1]
      BY <2>4
    <3>2. \A i \in 1 .. n + 1 : i # k => (IF i < k THEN i ELSE i - 1) \in 1 .. n
      BY <2>1, <2>3 DEF n
    <3>3. \A i, j \in 1 .. n + 1 :
            i # k /\ j # k /\ (IF i < k THEN i ELSE i - 1) = (IF j < k THEN j ELSE j - 1) => i = j
      BY <2>1, <2>3
    <3>4. \A i \in 1 .. n + 1 : i # k => mp'[i] \in Live
      BY <2>3, <3>1, <3>2
    <3>5. mp'[k] = a
      BY <2>1, <2>3, <2>4 DEF n
    <3>6. \A i, j \in 1 .. n : mp[i] = mp[j] => i = j
      BY <2>3 DEF IInv, TableOK
    <3> QED  BY <1>2, <3>1, <3>2, <3>3, <3>4, <3>5, <3>6
  <2> QED  BY <2>4, <2>5, <2>6, <2>7 DEF TableOK
<1>10. IteratorsOK'
  <2>1. work.job # "conns"
    BY DEF PacketOfNewConnection, Idle
  <2>2. clear_it' \in Live' \cup {End} /\ Live' \subseteq Addr /\ a \in Live'
    BY <1>2, <2>1, IdleIterator DEF PacketOfNewConnection, IInv, ManagersOK
  <2> QED  BY <2>2, DeliveringOK, BatchesAreSeqs DEF PacketOfNewConnection
<1> QED  BY <1>4, <1>5, <1>6, <1>7, <1>8, <1>9, <1>10 DEF IInv

\* What the loop over the recovered packets knows.
LEMMA DeliverFacts ==
  ASSUME IInv, work.job = "deliver"
  PROVE  /\ work.conn \in Live /\ work.conn \in Addr
         /\ Head(work.left) \in Conv /\ Tail(work.left) \in Seq(Conv)
         /\ clear_it \in Live \cup {End}
<1>1. PICK a \in Live, left \in Seq(Conv) \ {<< >>} :
        work = [job |-> "deliver", conn |-> a, left |-> left]
  BY DEF IInv, IteratorsOK, Idle, ConvClearing, ConnClearing
<1>2. Head(left) \in Conv /\ Tail(left) \in Seq(Conv)
  BY <1>1
<1>3. work.conn = a /\ work.left = left
  BY <1>1
<1> QED  BY <1>1, <1>2, <1>3, IdleIterator DEF IInv, ManagersOK

LEMMA DeliverToKnownStep == ASSUME IInv, DeliverToKnown PROVE IInv' /\ TablesStay
<1> DEFINE a == work.conn
           c == Head(work.left)
<1>1. /\ a \in Live /\ a \in Addr /\ Tail(work.left) \in Seq(Conv)
      /\ clear_it \in Live \cup {End}
  BY DeliverFacts DEF DeliverToKnown
<1>2. /\ c \in Convs(conv_manager[a])
      /\ conv_manager' = [conv_manager EXCEPT ![a] = UpdateActiveTime(conv_manager[a], c)]
      /\ conv_idle' = [conv_idle EXCEPT ![<<a, c>>] = 0]
  BY DEF DeliverToKnown, IsConvUsed
<1> HIDE DEF a, c
<1>3. /\ ManagersOK' /\ Live' = Live
      /\ \A b \in Live : SameTables(conv_manager[b], conv_manager'[b])
      /\ conv_idle' \in [Addr \X Conv -> Ages]
  BY <1>1, <1>2, ConvUsed
<1>4. FdsTyped' /\ FdsOK' /\ WatchersOK' /\ UsersOK' /\ TimersOK' /\ TableOK'
  BY <1>3, SameFds, SameUsers, SameTable DEF IInv, DeliverToKnown
<1>5. AgesOK'
  BY <1>3 DEF DeliverToKnown, IInv, AgesOK
<1>6. IteratorsOK'
  <2>1. clear_it' \in Live' \cup {End} /\ Live' \subseteq Addr /\ a \in Live'
    BY <1>1, <1>3 DEF DeliverToKnown, IInv, ManagersOK
  <2>2. work' = Delivering(a, Tail(work.left))
    BY DEF DeliverToKnown, NextPacket, a
  <2> QED  BY <1>1, <2>1, <2>2, DeliveringOK
<1> QED  BY <1>3, <1>4, <1>5, <1>6 DEF IInv, TablesStay

LEMMA DropUndeliverableStep == ASSUME IInv, DropUndeliverable PROVE IInv' /\ TablesStay
<1>1. /\ work.conn \in Live /\ Tail(work.left) \in Seq(Conv) /\ clear_it \in Live \cup {End}
  BY DeliverFacts DEF DropUndeliverable
<1>2. ManagersOK' /\ Live' = Live /\ \A b \in Live : SameTables(conv_manager[b], conv_manager'[b])
  BY SameManagers DEF IInv, DropUndeliverable, conns, history
<1>3. FdsTyped' /\ FdsOK' /\ WatchersOK' /\ UsersOK' /\ TimersOK' /\ TableOK'
  BY <1>2, SameFds, SameUsers, SameTable DEF IInv, DropUndeliverable, conns
<1>4. AgesOK'
  BY <1>2 DEF DropUndeliverable, conns, history, IInv, AgesOK
<1>5. IteratorsOK'
  <2>1. clear_it' \in Live' \cup {End} /\ Live' \subseteq Addr /\ work.conn \in Live'
    BY <1>1, <1>2 DEF DropUndeliverable, conns, IInv, ManagersOK
  <2> QED  BY <1>1, <2>1, DeliveringOK DEF DropUndeliverable, NextPacket
<1> QED  BY <1>2, <1>3, <1>4, <1>5 DEF IInv, TablesStay

LEMMA DeliverToNewStep == ASSUME IInv, DeliverToNew PROVE IInv'
<1>0. PICK a \in Live, c \in Conv : work.conn = a /\ Head(work.left) = c
  BY DeliverFacts DEF DeliverToNew
<1> DEFINE m == conv_manager[a]
           n == UpdateActiveTime(InsertConv(m, c, counter), c)
<1>1. /\ a \in Live /\ a \in Addr /\ c \in Conv /\ Tail(work.left) \in Seq(Conv)
      /\ clear_it \in Live \cup {End}
  BY <1>0, DeliverFacts DEF DeliverToNew
<1>2. PICK fd \in Fd :
        /\ new_connected_socket2(fd) /\ create(fd, a)
        /\ io' = io \cup {[fd |-> fd, fd64 |-> counter, conn |-> a]}
  BY <1>0 DEF DeliverToNew
<1>3. /\ c \notin Convs(m)
      /\ conv_manager' = [conv_manager EXCEPT ![a] = n]
      /\ conv_idle' = [conv_idle EXCEPT ![<<a, c>>] = 0]
      /\ work' = Delivering(a, Tail(work.left))
      /\ UNCHANGED <<mp, clear_it, last_clear, last_active, timers, conn_idle>>
  BY <1>0 DEF DeliverToNew, IsConvUsed, NextPacket
<1>4. /\ fd \notin DOMAIN fd_to_fd64 /\ counter \notin DOMAIN fd64_to_fd
      /\ counter \in Fd64 /\ counter' = counter + 1
      /\ counter \in Nat
  BY <1>2, ServerAssumption DEF new_connected_socket2, create, IInv, FdsOK, FdsTyped, Fd64
<1>5. /\ WellFormed(m, Silence(a)) /\ TablesTyped(m)
      /\ \A b \in Live : b \in Addr
  BY <1>1 DEF IInv, ManagersOK
<1>6. counter \notin DOMAIN m.data_to_conv
  BY <1>1, <1>4 DEF IInv, UsersOK
<1>7. conv_idle \in [Addr \X Conv -> Ages]
  BY DEF IInv, AgesOK
<1>8. /\ (Silence(a)')[c] = 0
      /\ \A d \in Conv \ {c} : (Silence(a)')[d] = Silence(a)[d]
      /\ \A b \in Addr \ {a} : Silence(b)' = Silence(b)
  BY <1>1, <1>3, <1>7, SilenceBroken
<1>9. WellFormed(n, Silence(a)')
  <2>1. \A d \in Convs(m) : (Silence(a)')[d] = Silence(a)[d]
    BY <1>3, <1>5, <1>8 DEF TablesTyped, Convs
  <2> QED  BY <1>3, <1>5, <1>6, <1>8, <2>1, InsertWellFormed
<1>10. /\ n.conv_to_data = With(m.conv_to_data, c, counter)
       /\ n.data_to_conv = With(m.data_to_conv, counter, c)
  BY <1>5, InsertTables DEF WellFormed
<1>11. TablesTyped(n)
  BY <1>1, <1>4, <1>5, <1>10 DEF TablesTyped, With
<1> HIDE DEF n, m
<1>12. Live' = Live /\ conv_manager'[a] = n /\ \A b \in Live \ {a} : conv_manager'[b] = conv_manager[b]
  BY <1>1, <1>3 DEF Live
<1>13. ManagersOK'
  <2> SUFFICES ASSUME NEW b \in Live
               PROVE  /\ TablesTyped(conv_manager'[b])
                      /\ WellFormed(conv_manager'[b], Silence(b)')
    BY <1>5, <1>12 DEF ManagersOK
  <2>1. CASE b = a
    BY <1>9, <1>11, <1>12, <2>1
  <2>2. CASE b # a
    <3>1. conv_manager'[b] = conv_manager[b] /\ Silence(b)' = Silence(b)
      BY <1>5, <1>8, <1>12, <2>2
    <3> QED  BY <3>1 DEF IInv, ManagersOK
  <2> QED  BY <2>1, <2>2
<1>14. FdsTyped'
  BY <1>2, <1>4, ServerAssumption DEF create, With, IInv, FdsTyped, Fd64
<1>15. FdsOK'
  <2>1. \A x \in DOMAIN fd64_to_fd : x < counter /\ x \in Nat
    BY DEF IInv, FdsOK, FdsTyped, Fd64
  <2>2. \A x \in DOMAIN fd64_to_fd' : x < counter'
    BY <1>2, <1>4, <2>1 DEF create, With
  <2>3. /\ sockets' = DOMAIN fd_to_fd64' /\ DOMAIN fd_info' = DOMAIN fd64_to_fd'
    BY <1>2 DEF create, new_connected_socket2, With, IInv, FdsOK
  <2>4. /\ \A f \in DOMAIN fd_to_fd64' :
             fd_to_fd64'[f] \in DOMAIN fd64_to_fd' /\ fd64_to_fd'[fd_to_fd64'[f]] = f
        /\ \A x \in DOMAIN fd64_to_fd' :
             fd64_to_fd'[x] \in DOMAIN fd_to_fd64' /\ fd_to_fd64'[fd64_to_fd'[x]] = x
    BY <1>2, <1>4 DEF create, With, IInv, FdsOK
  <2> QED  BY <2>2, <2>3, <2>4 DEF FdsOK
<1>16. /\ DOMAIN fd64_to_fd' = DOMAIN fd64_to_fd \cup {counter}
       /\ fd_info'[counter] = a /\ fd64_to_fd'[counter] = fd
       /\ \A x \in DOMAIN fd64_to_fd : fd_info'[x] = fd_info[x] /\ fd64_to_fd'[x] = fd64_to_fd[x]
  BY <1>2, <1>4 DEF create, With, IInv, FdsOK
<1>17. UsersOK'
  <2>1. DOMAIN n.data_to_conv = DOMAIN m.data_to_conv \cup {counter}
    BY <1>10 DEF With
  <2>2. m = conv_manager[a]
    BY DEF m
  <2>3. \A x \in DOMAIN fd64_to_fd' :
          fd_info'[x] \in Live' /\ x \in DOMAIN conv_manager'[fd_info'[x]].data_to_conv
    BY <1>1, <1>12, <1>16, <2>1, <2>2 DEF IInv, UsersOK
  <2>4. \A b \in Live' : \A x \in DOMAIN conv_manager'[b].data_to_conv :
          x \in DOMAIN fd64_to_fd' /\ fd_info'[x] = b
    BY <1>1, <1>12, <1>16, <2>1, <2>2 DEF IInv, UsersOK
  <2> QED  BY <2>3, <2>4 DEF UsersOK
<1>18. WatchersOK'
  BY <1>2, <1>4, <1>16 DEF IInv, WatchersOK
<1>19. TimersOK' /\ TableOK'
  BY <1>3, <1>12, SameTable DEF IInv
<1>20. AgesOK'
  <2>1. conv_idle' \in [Addr \X Conv -> Ages]
    BY <1>1, <1>3, <1>7, SilenceBroken
  <2> QED  BY <1>3, <1>12, <2>1 DEF IInv, AgesOK
<1>21. IteratorsOK'
  BY <1>1, <1>3, <1>5, <1>12, DeliveringOK
<1> QED  BY <1>13, <1>14, <1>15, <1>17, <1>18, <1>19, <1>20, <1>21 DEF IInv

-----------------------------------------------------------------------------
(* A packet from the remote service, and the encoder's timer *)

LEMMA RemotePacketStep == ASSUME IInv, NEW w \in io, RemotePacket(w) PROVE IInv' /\ TablesStay
<1> DEFINE a == w.conn
           c == conv_manager[a].data_to_conv[w.fd64]
<1>1. PICK x \in DOMAIN fd64_to_fd :
        w = [fd |-> fd64_to_fd[x], fd64 |-> x, conn |-> fd_info[x]]
  BY DEF IInv, WatchersOK
<1>2. a \in Live /\ c \in Convs(conv_manager[a]) /\ a \in Addr
  <2>1. a \in Live /\ w.fd64 \in DOMAIN conv_manager[a].data_to_conv
    BY <1>1 DEF IInv, UsersOK
  <2>2. MutuallyInverse(conv_manager[a]) /\ a \in Addr
    BY <2>1 DEF IInv, ManagersOK, WellFormed
  <2> QED  BY <2>1, <2>2 DEF MutuallyInverse, Convs
<1>3. /\ conv_manager' = [conv_manager EXCEPT ![a] = UpdateActiveTime(conv_manager[a], c)]
      /\ conv_idle' = [conv_idle EXCEPT ![<<a, c>>] = 0]
      /\ last_active' = [last_active EXCEPT ![a] = 0]
      /\ conn_idle' = [conn_idle EXCEPT ![a] = 0]
      /\ \/ timers' = timers \cup {FecTimer(a)}
         \/ timers' = timers \ {FecTimer(a)}
  BY DEF RemotePacket
<1> HIDE DEF a, c
<1>4. /\ ManagersOK' /\ Live' = Live
      /\ \A b \in Live : SameTables(conv_manager[b], conv_manager'[b])
      /\ conv_idle' \in [Addr \X Conv -> Ages]
  BY <1>2, <1>3, ConvUsed
<1>5. FdsTyped' /\ FdsOK' /\ WatchersOK' /\ UsersOK'
  BY <1>4, SameFds, SameUsers DEF IInv, RemotePacket
<1>6. TimersOK'
  BY <1>2, <1>3, <1>4 DEF IInv, TimersOK, ConnTimer, FecTimer
<1>7. TableOK'
  BY <1>4 DEF RemotePacket, IInv, TableOK
<1>8. AgesOK'
  BY <1>2, <1>3, <1>4, AgesTyped DEF RemotePacket, IInv, AgesOK
<1>9. IteratorsOK'
  BY <1>4 DEF RemotePacket, IInv, IteratorsOK, Idle
<1> QED  BY <1>4, <1>5, <1>6, <1>7, <1>8, <1>9 DEF IInv, TablesStay

LEMMA FecTimeoutStep == ASSUME IInv, NEW a \in Addr, FecTimeout(a) PROVE IInv' /\ TablesStay
<1>1. ManagersOK' /\ Live' = Live /\ \A b \in Live : SameTables(conv_manager[b], conv_manager'[b])
  BY SameManagers DEF IInv, FecTimeout, conns, history
<1>2. FdsTyped' /\ FdsOK' /\ WatchersOK' /\ UsersOK'
  BY <1>1, SameFds, SameUsers DEF IInv, FecTimeout
<1>3. TimersOK' /\ TableOK'
  BY <1>1 DEF FecTimeout, conns, IInv, TimersOK, TableOK, ConnTimer, FecTimer
<1>4. AgesOK' /\ IteratorsOK'
  BY <1>1 DEF FecTimeout, conns, history, IInv, AgesOK, IteratorsOK
<1> QED  BY <1>1, <1>2, <1>3, <1>4 DEF IInv, TablesStay

-----------------------------------------------------------------------------
(* The timer of a connection *)

LEMMA ConnTimerFiresStep == ASSUME IInv, NEW a \in Addr, ConnTimerFires(a) PROVE IInv' /\ TablesStay
<1> DEFINE n == [conv_manager[a] EXCEPT !.last_clear = 0]
           left == NumToClean(Len(conv_manager[a].lru), ConvClearRatio, ConvClearMin)
<1>1. a \in Live
  BY DEF ConnTimerFires, ConnTimer, IInv, TimersOK
<1>2. /\ conv_manager' = [conv_manager EXCEPT ![a] = n]
      /\ work' = ConvClearing(a, left)
      /\ UNCHANGED <<mp, clear_it, last_clear, last_active, fds, io, timers, history>>
      /\ work = Idle
  BY DEF ConnTimerFires
<1>3. /\ WellFormed(conv_manager[a], Silence(a)) /\ TablesTyped(conv_manager[a])
      /\ Live \subseteq Addr
  BY <1>1 DEF IInv, ManagersOK
<1>4. WellFormed(n, Silence(a)) /\ SameTables(conv_manager[a], n)
  BY <1>3, ClearingWellFormed
<1> HIDE DEF n
<1>5. Live' = Live /\ conv_manager'[a] = n /\ \A b \in Live \ {a} : conv_manager'[b] = conv_manager[b]
  BY <1>1, <1>2 DEF Live
<1>6. \A b \in Live : SameTables(conv_manager[b], conv_manager'[b])
  BY <1>4, <1>5 DEF SameTables
<1>7. ManagersOK'
  <2>1. \A b \in Live : Silence(b)' = Silence(b)
    BY <1>2 DEF Silence, history
  <2>2. TablesTyped(n)
    BY <1>3, <1>4 DEF TablesTyped, SameTables
  <2> QED  BY <1>3, <1>4, <1>5, <2>1, <2>2 DEF IInv, ManagersOK
<1>8. FdsTyped' /\ FdsOK' /\ WatchersOK' /\ UsersOK' /\ TimersOK' /\ TableOK'
  BY <1>2, <1>5, <1>6, SameFds, SameUsers, SameTable DEF IInv
<1>9. AgesOK'
  BY <1>2, <1>5 DEF history, IInv, AgesOK
<1>10. IteratorsOK'
  <2>1. left \in Nat
    <3>1. Len(conv_manager[a].lru) \in Nat
      BY <1>3, LruFacts DEF WellFormed
    <3> QED  BY <3>1, ConvAssumption, NumToCleanIsNat
  <2>2. clear_it \in Live \cup {End} /\ clear_it \in Addr \cup {End}
    BY <1>2, IdleIterator DEF Idle, IInv, IteratorsOK
  <2> HIDE DEF left
  <2> QED  BY <1>1, <1>2, <1>5, <2>1, <2>2 DEF IteratorsOK, ConvClearing
<1> QED  BY <1>7, <1>8, <1>9, <1>10, <1>5, <1>6 DEF IInv, TablesStay

\* Closing sockets takes them out of every table, and their watchers out of the loop.
LEMMA ClosedFds ==
  ASSUME FdsTyped, FdsOK, WatchersOK, NEW F \in SUBSET DOMAIN fd64_to_fd, Close(F)
  PROVE  /\ FdsTyped' /\ FdsOK' /\ WatchersOK'
         /\ DOMAIN fd64_to_fd' = DOMAIN fd64_to_fd \ F
         /\ \A x \in DOMAIN fd64_to_fd' : fd_info'[x] = fd_info[x]
<1> DEFINE closed == {fd64_to_fd[x] : x \in F}
<1>1. /\ fd64_to_fd' = [x \in DOMAIN fd64_to_fd \ F |-> fd64_to_fd[x]]
      /\ fd_to_fd64' = [fd \in DOMAIN fd_to_fd64 \ closed |-> fd_to_fd64[fd]]
      /\ fd_info' = [x \in DOMAIN fd_info \ F |-> fd_info[x]]
      /\ sockets' = sockets \ closed
      /\ counter' = counter
      /\ io' = {w \in io : w.fd64 \notin F}
  BY DEF Close, fd64_close
<1>2. \A fd \in DOMAIN fd_to_fd64 : fd \in closed <=> fd_to_fd64[fd] \in F
  BY DEF FdsOK
<1> HIDE DEF closed
<1>3. FdsTyped'
  BY <1>1 DEF FdsTyped
<1>4. FdsOK'
  <2>1. sockets' = DOMAIN fd_to_fd64' /\ DOMAIN fd_info' = DOMAIN fd64_to_fd'
    BY <1>1 DEF FdsOK
  <2>2. \A fd \in DOMAIN fd_to_fd64' :
          fd_to_fd64'[fd] \in DOMAIN fd64_to_fd' /\ fd64_to_fd'[fd_to_fd64'[fd]] = fd
    BY <1>1, <1>2 DEF FdsOK
  <2>3. \A x \in DOMAIN fd64_to_fd' :
          fd64_to_fd'[x] \in DOMAIN fd_to_fd64' /\ fd_to_fd64'[fd64_to_fd'[x]] = x
    BY <1>1, <1>2 DEF FdsOK
  <2>4. \A x \in DOMAIN fd64_to_fd' : x < counter'
    BY <1>1 DEF FdsOK
  <2> QED  BY <2>1, <2>2, <2>3, <2>4 DEF FdsOK
<1>5. /\ DOMAIN fd64_to_fd' = DOMAIN fd64_to_fd \ F
      /\ \A x \in DOMAIN fd64_to_fd' : fd_info'[x] = fd_info[x] /\ fd64_to_fd'[x] = fd64_to_fd[x]
  BY <1>1 DEF FdsOK
<1>6. WatchersOK'
  <2> DEFINE W(x) == [fd |-> fd64_to_fd[x], fd64 |-> x, conn |-> fd_info[x]]
  <2>1. \A x : W(x).fd64 = x
    OBVIOUS
  <2>2. io' = {W(x) : x \in DOMAIN fd64_to_fd'}
    <3> HIDE DEF W
    <3>1. io = {W(x) : x \in DOMAIN fd64_to_fd}
      BY DEF WatchersOK, W
    <3> QED  BY <1>1, <1>5, <2>1, <3>1
  <2>3. \A x \in DOMAIN fd64_to_fd' :
          W(x) = [fd |-> fd64_to_fd'[x], fd64 |-> x, conn |-> fd_info'[x]]
    BY <1>5
  <2> HIDE DEF W
  <2> QED  BY <2>2, <2>3 DEF WatchersOK
<1> QED  BY <1>3, <1>4, <1>5, <1>6

LEMMA ConvsFacts ==
  ASSUME IInv, work.job = "convs"
  PROVE  work.conn \in Live /\ work.left \in Nat /\ clear_it \in Live \cup {End}
<1>1. PICK a \in Live, left \in Nat : work = ConvClearing(a, left)
  BY DEF IInv, IteratorsOK, Idle, ConvClearing, ConnClearing
<1> QED  BY <1>1, IdleIterator DEF ConvClearing

LEMMA ClearConvStep == ASSUME IInv, ClearConv PROVE IInv'
<1>1. PICK a \in Live : work.conn = a
  BY ConvsFacts DEF ClearConv
<1>2. work.left \in Nat /\ work.left > 0 /\ clear_it \in Live \cup {End}
  BY ConvsFacts DEF ClearConv
<1> DEFINE m == conv_manager[a]
           c == Oldest(m).key
           x == m.conv_to_data[c]
           n == EraseConv(m, c)
<1>3. /\ m.lru # << >>
      /\ Close({x})
      /\ conv_manager' = [conv_manager EXCEPT ![a] = n]
      /\ work' = ConvClearing(a, work.left - 1)
      /\ UNCHANGED <<mp, clear_it, last_clear, last_active, timers, history>>
  BY <1>1 DEF ClearConv, OldestExpired
<1>4. WellFormed(m, Silence(a)) /\ TablesTyped(m) /\ Live \subseteq Addr
  BY DEF IInv, ManagersOK
<1>5. c \in Convs(m)
  BY <1>3, <1>4, OldestIsKnown
<1>6. WellFormed(n, Silence(a))
  BY <1>4, <1>5, EraseWellFormed
<1>7. /\ n.conv_to_data = Without(m.conv_to_data, c)
      /\ n.data_to_conv = Without(m.data_to_conv, x)
  BY <1>4, EraseTables DEF WellFormed
<1>8. TablesTyped(n)
  BY <1>4, <1>7 DEF TablesTyped, Without
<1>9. x \in DOMAIN m.data_to_conv
  BY <1>4, <1>5 DEF WellFormed, MutuallyInverse, Convs
<1>10. DOMAIN n.data_to_conv = DOMAIN m.data_to_conv \ {x}
  BY <1>7 DEF Without
<1>11. Live' = Live /\ conv_manager'[a] = n /\ \A b \in Live \ {a} : conv_manager'[b] = conv_manager[b]
  BY <1>3 DEF Live
<1>12. m = conv_manager[a]
  OBVIOUS
<1>13. PICK y : y = x
  OBVIOUS
<1> HIDE DEF m, n, x
<1>14. ManagersOK'
  <2>1. \A b \in Live : Silence(b)' = Silence(b)
    BY <1>3 DEF Silence, history
  <2> QED  BY <1>4, <1>6, <1>8, <1>11, <2>1 DEF IInv, ManagersOK
<1>15. y \in DOMAIN fd64_to_fd /\ fd_info[y] = a
  BY <1>9, <1>12, <1>13 DEF IInv, UsersOK
<1>16. /\ FdsTyped' /\ FdsOK' /\ WatchersOK'
       /\ DOMAIN fd64_to_fd' = DOMAIN fd64_to_fd \ {y}
       /\ \A z \in DOMAIN fd64_to_fd' : fd_info'[z] = fd_info[z]
  BY <1>3, <1>13, <1>15, ClosedFds DEF IInv
<1>17. UsersOK'
  <2>1. \A z \in DOMAIN fd64_to_fd' :
          fd_info'[z] \in Live' /\ z \in DOMAIN conv_manager'[fd_info'[z]].data_to_conv
    BY <1>10, <1>11, <1>12, <1>13, <1>16 DEF IInv, UsersOK
  <2>2. \A b \in Live' : \A z \in DOMAIN conv_manager'[b].data_to_conv :
          z \in DOMAIN fd64_to_fd' /\ fd_info'[z] = b
    BY <1>10, <1>11, <1>12, <1>13, <1>15, <1>16 DEF IInv, UsersOK
  <2> QED  BY <2>1, <2>2 DEF UsersOK
<1>18. TimersOK' /\ TableOK'
  BY <1>3, <1>11, SameTable DEF IInv
<1>19. AgesOK'
  BY <1>3, <1>11 DEF history, IInv, AgesOK
<1>20. IteratorsOK'
  <2>1. work.left - 1 \in Nat
    BY <1>2
  <2> QED  BY <1>2, <1>3, <1>4, <1>11, <2>1 DEF IteratorsOK
<1> QED  BY <1>14, <1>16, <1>17, <1>18, <1>19, <1>20 DEF IInv

\* Steps that change nothing but the loop.
LEMMA LoopStep ==
  ASSUME IInv, UNCHANGED <<mp, last_clear, conv_manager, last_active, fds, io, timers, history>>,
         IteratorsOK'
  PROVE  IInv' /\ TablesStay
<1>1. ManagersOK' /\ Live' = Live /\ \A b \in Live : SameTables(conv_manager[b], conv_manager'[b])
  BY SameManagers DEF IInv, history
<1>2. FdsTyped' /\ FdsOK' /\ WatchersOK' /\ UsersOK' /\ TimersOK' /\ TableOK'
  BY <1>1, SameFds, SameUsers, SameTable DEF IInv
<1>3. AgesOK'
  BY <1>1 DEF history, IInv, AgesOK
<1> QED  BY <1>1, <1>2, <1>3 DEF IInv, TablesStay

LEMMA SameLive == ASSUME UNCHANGED conv_manager PROVE Live' = Live
BY DEF Live

LEMMA ClearConvDoneStep == ASSUME IInv, ClearConvDone PROVE IInv' /\ TablesStay
<1>1. clear_it \in Live \cup {End} /\ Live \subseteq Addr
  BY ConvsFacts DEF ClearConvDone, IInv, ManagersOK
<1>2. IteratorsOK'
  BY <1>1, SameLive DEF ClearConvDone, conns, IteratorsOK
<1> QED  BY <1>2, LoopStep DEF ClearConvDone, conns

-----------------------------------------------------------------------------
(* The global timer *)

LEMMA TableFacts ==
  ASSUME IInv
  PROVE  /\ mp \in Seq(Live) /\ Len(mp) \in Nat /\ DOMAIN mp = 1 .. Len(mp)
         /\ \A i \in 1 .. Len(mp) : mp[i] \in Live
         /\ \A a \in Live : Position(a) \in 1 .. Len(mp) /\ mp[Position(a)] = a
<1>1. mp \in Seq(Live)
  BY DEF IInv, TableOK
<1>2. Len(mp) \in Nat /\ DOMAIN mp = 1 .. Len(mp) /\ \A i \in 1 .. Len(mp) : mp[i] \in Live
  BY <1>1
<1>3. \A a \in Live : Position(a) \in DOMAIN mp /\ mp[Position(a)] = a
  BY DEF Position, IInv, TableOK
<1> QED  BY <1>1, <1>2, <1>3

LEMMA ConnsFacts ==
  ASSUME IInv, work.job = "conns"
  PROVE  work.it \in Live \cup {End} /\ work.left \in Nat
<1>1. PICK it \in Live \cup {End}, left \in Nat : work = ConnClearing(it, left)
  BY DEF IInv, IteratorsOK, Idle, ConvClearing, ConnClearing
<1> QED  BY <1>1 DEF ConnClearing

\* The iterator is good, and so is the next one, also if the connection is erased.
LEMMA VisitedIsLive ==
  ASSUME IInv, MayVisit
  PROVE  Visited \in Live /\ After(Visited) \in (Live \ {Visited}) \cup {End}
<1>1. work.it \in Live \cup {End} /\ mp # << >>
  BY ConnsFacts DEF MayVisit
<1>2. Visited \in Live
  <2>1. Head(mp) = mp[1] /\ 1 \in 1 .. Len(mp)
    BY <1>1, TableFacts
  <2> QED  BY <1>1, <2>1, TableFacts DEF Visited
<1> DEFINE p == Position(Visited)
<1>3. p \in 1 .. Len(mp) /\ mp[p] = Visited
  BY <1>2, TableFacts
<1>4. After(Visited) = IF p = Len(mp) THEN End ELSE mp[p + 1]
  BY DEF After
<1> HIDE DEF p
<1>5. CASE p = Len(mp)
  BY <1>2, <1>4, <1>5
<1>6. CASE p # Len(mp)
  <2>1. p + 1 \in 1 .. Len(mp) /\ p + 1 # p
    <3>1. Len(mp) \in Nat
      BY TableFacts
    <3> QED  BY <1>3, <1>6, <3>1
  <2>2. mp[p + 1] \in Live /\ mp[p + 1] # mp[p]
    BY <1>3, <2>1, TableFacts DEF IInv, TableOK
  <2> QED  BY <1>2, <1>3, <1>4, <1>6, <2>2
<1> QED  BY <1>5, <1>6

LEMMA GlobalTimerFiresStep == ASSUME IInv, GlobalTimerFires PROVE IInv' /\ TablesStay
<1>1. clear_it \in Live \cup {End} /\ Live \subseteq Addr
  BY IdleIterator DEF GlobalTimerFires, Idle, IInv, ManagersOK
<1>2. NumToClean(Len(mp), ConnClearRatio, ConnClearMin) \in Nat
  BY TableFacts, NumToCleanIsNat, ServerAssumption
<1>3. IteratorsOK'
  BY <1>1, <1>2, SameLive DEF GlobalTimerFires, IteratorsOK, ConnClearing
<1>4. ManagersOK' /\ Live' = Live /\ \A b \in Live : SameTables(conv_manager[b], conv_manager'[b])
  BY SameManagers DEF GlobalTimerFires, IInv, history
<1>5. FdsTyped' /\ FdsOK' /\ WatchersOK' /\ UsersOK' /\ TimersOK' /\ TableOK'
  BY <1>4, SameFds, SameUsers, SameTable DEF GlobalTimerFires, IInv
<1>6. AgesOK'
  BY <1>4, AgesTyped DEF GlobalTimerFires, history, IInv, AgesOK
<1> QED  BY <1>3, <1>4, <1>5, <1>6 DEF IInv, TablesStay

LEMMA KeepConnStep == ASSUME IInv, KeepConn PROVE IInv' /\ TablesStay
<1>1. After(Visited) \in Live \cup {End} /\ work.left - 1 \in Nat
  BY VisitedIsLive, ConnsFacts DEF KeepConn, MayVisit
<1>2. IteratorsOK'
  <2>1. work' = ConnClearing(After(Visited), work.left - 1) /\ clear_it' = clear_it /\ Live' = Live
    BY SameLive DEF KeepConn, conns
  <2>2. work'.job = "conns" /\ clear_it \in Addr \cup {End}
    BY <2>1 DEF ConnClearing, IInv, IteratorsOK
  <2> QED  BY <1>1, <2>1, <2>2 DEF IteratorsOK
<1> QED  BY <1>2, LoopStep DEF KeepConn, conns

LEMMA ClearConnDoneStep == ASSUME IInv, ClearConnDone PROVE IInv' /\ TablesStay
<1>1. work.it \in Live \cup {End} /\ Live \subseteq Addr
  BY ConnsFacts DEF ClearConnDone, IInv, ManagersOK
<1>2. IteratorsOK'
  BY <1>1, SameLive DEF ClearConnDone, IteratorsOK
<1> QED  BY <1>2, LoopStep DEF ClearConnDone

LEMMA EraseConnStep == ASSUME IInv, EraseConn PROVE IInv'
<1>1. PICK a \in Live : Visited = a
  BY VisitedIsLive DEF EraseConn
<1> DEFINE m == conv_manager[a]
           F == {m.conv_to_data[c] : c \in Convs(m)}
           p == Position(a)
           n == Len(mp)
<1>2. /\ Convs(m) = {}
      /\ mp' = RemoveAt(mp, p)
      /\ Close(F)
      /\ conv_manager' = Without(conv_manager, a)
      /\ last_active' = Without(last_active, a)
      /\ timers' = (timers \ {ConnTimer(a)}) \ {FecTimer(a)}
      /\ work' = ConnClearing(After(a), work.left - 1)
      /\ UNCHANGED <<clear_it, last_clear, history>>
      /\ MayVisit
  BY <1>1 DEF EraseConn, Abandoned, clear, TimersWithout, clear_all
<1>3. WellFormed(m, Silence(a)) /\ Live \subseteq Addr
  BY DEF IInv, ManagersOK
<1>4. F = {} /\ DOMAIN m.data_to_conv = {}
  BY <1>2, <1>3 DEF WellFormed, MutuallyInverse, Convs
<1>5. Live' = Live \ {a} /\ \A b \in Live' : conv_manager'[b] = conv_manager[b]
  BY <1>2 DEF Without, Live
<1>6. /\ FdsTyped' /\ FdsOK' /\ WatchersOK'
      /\ DOMAIN fd64_to_fd' = DOMAIN fd64_to_fd
      /\ \A x \in DOMAIN fd64_to_fd' : fd_info'[x] = fd_info[x]
  BY <1>2, <1>4, ClosedFds DEF IInv
<1>7. UsersOK'
  <2>1. \A x \in DOMAIN fd64_to_fd : fd_info[x] # a
    BY <1>4 DEF IInv, UsersOK
  <2> QED  BY <1>5, <1>6, <2>1 DEF IInv, UsersOK
<1>8. ManagersOK'
  <2>1. \A b \in Live : Silence(b)' = Silence(b)
    BY <1>2 DEF Silence, history
  <2> QED  BY <1>5, <2>1 DEF IInv, ManagersOK
<1>9. AgesOK'
  BY <1>2, <1>5 DEF Without, history, IInv, AgesOK
<1>10. TimersOK'
  <2>1. \A t \in timers' : t \in [kind : {"conn", "fec"}, conn : Live']
    <3> SUFFICES ASSUME NEW t \in timers, t # ConnTimer(a), t # FecTimer(a)
                 PROVE  t \in [kind : {"conn", "fec"}, conn : Live']
      BY <1>2
    <3>1. t \in [kind : {"conn", "fec"}, conn : Live]
      BY DEF IInv, TimersOK
    <3>2. t = [kind |-> t.kind, conn |-> t.conn] /\ t.kind \in {"conn", "fec"} /\ t.conn \in Live
      BY <3>1
    <3>3. t.conn # a
      BY <3>2 DEF ConnTimer, FecTimer
    <3> QED  BY <1>5, <3>2, <3>3
  <2>2. \A b \in Live' : ConnTimer(b) \in timers'
    <3> SUFFICES ASSUME NEW b \in Live, b # a PROVE ConnTimer(b) \in timers'
      BY <1>5
    <3>1. ConnTimer(b) \in timers /\ ConnTimer(b) # ConnTimer(a) /\ ConnTimer(b) # FecTimer(a)
      BY DEF IInv, TimersOK, ConnTimer, FecTimer
    <3> QED  BY <1>2, <3>1
  <2> QED  BY <2>1, <2>2 DEF TimersOK
<1>11. TableOK'
  <2>1. /\ mp \in Seq(Live) /\ n \in Nat /\ DOMAIN mp = 1 .. n
        /\ p \in 1 .. n /\ mp[p] = a
        /\ \A i \in 1 .. n : mp[i] \in Live
    BY TableFacts
  <2>2. /\ \A b \in Live : \E i \in 1 .. n : mp[i] = b
        /\ \A i, j \in 1 .. n : mp[i] = mp[j] => i = j
    BY <2>1, SMTT(30) DEF IInv, TableOK
  <2>3. /\ mp' \in Seq(Live) /\ Len(mp') = n - 1
        /\ \A i \in 1 .. n - 1 : mp'[i] = IF i < p THEN mp[i] ELSE mp[i + 1]
    BY <1>2, <2>1, RemoveAtShape
  <2> HIDE DEF n, p
  <2> DEFINE old(i) == IF i < p THEN i ELSE i + 1
  <2>4. DOMAIN mp' = 1 .. n - 1
    BY <2>3
  <2>5. \A i \in 1 .. n - 1 : old(i) \in 1 .. n /\ old(i) # p /\ mp'[i] = mp[old(i)]
    BY <2>1, <2>3
  <2>6. \A i, j \in 1 .. n - 1 : old(i) = old(j) => i = j
    BY <2>1
  <2>7. \A j \in 1 .. n : j # p => \E i \in 1 .. n - 1 : old(i) = j
    <3> SUFFICES ASSUME NEW j \in 1 .. n, j # p PROVE \E i \in 1 .. n - 1 : old(i) = j
      OBVIOUS
    <3>1. CASE j < p
      BY <2>1, <3>1
    <3>2. CASE j > p
      <4>1. j - 1 \in 1 .. n - 1 /\ old(j - 1) = j
        BY <2>1, <3>2
      <4> QED  BY <4>1
    <3> QED  BY <2>1, <3>1, <3>2
  <2> HIDE DEF old
  <2>8. \A i \in 1 .. n - 1 : mp'[i] \in Live'
    BY <1>5, <2>1, <2>2, <2>5
  <2>9. mp' \in Seq(Live')
    BY <2>3, <2>4, <2>8, SeqOver
  <2>10. \A b \in Live' : \E i \in 1 .. n - 1 : mp'[i] = b
    <3> SUFFICES ASSUME NEW b \in Live, b # a PROVE \E i \in 1 .. n - 1 : mp'[i] = b
      BY <1>5
    <3>1. PICK j \in 1 .. n : mp[j] = b
      BY <2>2
    <3>2. PICK i \in 1 .. n - 1 : old(i) = j
      BY <2>1, <2>7, <3>1
    <3> QED  BY <2>5, <3>1, <3>2
  <2>11. \A i, j \in 1 .. n - 1 : mp'[i] = mp'[j] => i = j
    BY <2>2, <2>5, <2>6
  <2> QED  BY <2>4, <2>9, <2>10, <2>11 DEF TableOK
<1>12. IteratorsOK'
  <2>1. After(a) \in Live' \cup {End}
    BY <1>1, <1>2, <1>5, VisitedIsLive
  <2>2. work.left - 1 \in Nat
    BY <1>2, ConnsFacts DEF MayVisit
  <2>3. clear_it' \in Addr \cup {End}
    BY <1>2 DEF IInv, IteratorsOK
  <2>4. work'.job = "conns"
    BY <1>2 DEF ConnClearing
  <2> QED  BY <1>2, <2>1, <2>2, <2>3, <2>4 DEF IteratorsOK
<1> QED  BY <1>6, <1>7, <1>8, <1>9, <1>10, <1>11, <1>12 DEF IInv

-----------------------------------------------------------------------------
(* Time *)

LEMMA TickStep == ASSUME IInv, Tick PROVE IInv' /\ TablesStay
<1>1. Live' = Live /\ \A a \in Live : conv_manager'[a] = Aged(conv_manager[a])
  BY DEF Tick, Live
<1>2. \A a \in Live : /\ a \in Addr
                      /\ WellFormed(conv_manager[a], Silence(a))
                      /\ TablesTyped(conv_manager[a])
  BY DEF IInv, ManagersOK
<1>3. \A a \in Live : SameTables(conv_manager[a], conv_manager'[a])
  BY <1>1, <1>2, AgedKeepsTables DEF WellFormed
<1>4. conn_idle \in [Addr -> Ages] /\ conv_idle \in [Addr \X Conv -> Ages]
  BY DEF IInv, AgesOK
<1>5. \A a \in Addr : \A c \in Conv : (Silence(a)')[c] = Older(Silence(a)[c])
  <2> SUFFICES ASSUME NEW a \in Addr, NEW c \in Conv
               PROVE  conv_idle'[<<a, c>>] = Older(conv_idle[<<a, c>>])
    BY DEF Silence
  <2>1. conv_idle' = [x \in Addr \X Conv |-> Older(conv_idle[x])] /\ <<a, c>> \in Addr \X Conv
    BY DEF Tick
  <2> QED  BY <2>1
<1>6. ManagersOK'
  <2> SUFFICES ASSUME NEW a \in Live
               PROVE  /\ TablesTyped(conv_manager'[a])
                      /\ WellFormed(conv_manager'[a], Silence(a)')
    BY <1>1, <1>2 DEF ManagersOK
  <2>1. TablesTyped(conv_manager'[a])
    BY <1>2, <1>3 DEF TablesTyped, SameTables
  <2>2. \A c \in Convs(conv_manager[a]) : (Silence(a)')[c] = Older(Silence(a)[c])
    BY <1>2, <1>5 DEF TablesTyped, Convs
  <2>3. WellFormed(Aged(conv_manager[a]), Silence(a)')
    BY <1>2, <2>2, AgedWellFormed
  <2> QED  BY <1>1, <2>1, <2>3
<1>7. FdsTyped' /\ FdsOK' /\ WatchersOK' /\ UsersOK' /\ TimersOK' /\ TableOK'
  BY <1>1, <1>3, SameFds, SameUsers, SameTable DEF Tick, IInv
<1>8. AgesOK'
  <2>1. conn_idle' \in [Addr -> Ages]
    BY <1>4, AgesTyped DEF Tick
  <2>2. conv_idle' \in [Addr \X Conv -> Ages]
    <3>1. \A x \in Addr \X Conv : Older(conv_idle[x]) \in Ages
      BY <1>4, AgesTyped
    <3> QED  BY <3>1 DEF Tick
  <2>3. DOMAIN last_active' = Live' /\ \A a \in Live' : last_active'[a] = conn_idle'[a]
    BY <1>1, <1>2 DEF Tick, IInv, AgesOK
  <2>4. last_clear' \in Ages
    BY AgesTyped DEF Tick, IInv, AgesOK
  <2> QED  BY <2>1, <2>2, <2>3, <2>4 DEF AgesOK
<1>9. IteratorsOK'
  BY <1>1 DEF Tick, IInv, IteratorsOK
<1> QED  BY <1>6, <1>7, <1>8, <1>9, <1>1, <1>3 DEF IInv, TablesStay

LEMMA Stutters == ASSUME IInv, UNCHANGED vars PROVE IInv' /\ TablesStay
<1>1. IteratorsOK'
  BY SameLive DEF vars, conns, IInv, IteratorsOK
<1> QED  BY <1>1, LoopStep DEF vars, conns

-----------------------------------------------------------------------------
(* The theorems *)

LEMMA Inductive == IInv /\ [Next]_vars => IInv'
<1> SUFFICES ASSUME IInv, [Next]_vars PROVE IInv'
  OBVIOUS
<1>1. CASE local_listen_cb
  BY <1>1, PacketOfConnectionStep, PacketOfNewConnectionStep DEF local_listen_cb
<1>2. CASE remote_cb
  BY <1>2, RemotePacketStep DEF remote_cb
<1>3. CASE fec_encode_cb
  BY <1>3, FecTimeoutStep DEF fec_encode_cb
<1>4. CASE conn_timer_cb
  BY <1>4, ConnTimerFiresStep DEF conn_timer_cb
<1>5. CASE global_timer_cb
  BY <1>5, GlobalTimerFiresStep DEF global_timer_cb
<1>6. CASE Iterate
  BY <1>6, DeliverToKnownStep, DeliverToNewStep, DropUndeliverableStep, ClearConvStep,
     ClearConvDoneStep, KeepConnStep, EraseConnStep, ClearConnDoneStep DEF Iterate
<1>7. CASE Tick
  BY <1>7, TickStep
<1>8. CASE UNCHANGED vars
  BY <1>8, Stutters
<1> QED  BY <1>1, <1>2, <1>3, <1>4, <1>5, <1>6, <1>7, <1>8 DEF Next

LEMMA Invariant == Spec => []IInv
BY InitIInv, Inductive, PTL DEF Spec

\* The type invariant of the server.
THEOREM TypeCorrect == Spec => []TypeOK
BY Invariant, IInvTypes, PTL

LEMMA IInvSockets == IInv => SocketsHaveOneOwner
<1> SUFFICES ASSUME IInv PROVE SocketsHaveOneOwner
  OBVIOUS
<1>1. \A a \in Live : MutuallyInverse(conv_manager[a])
  BY DEF IInv, ManagersOK, WellFormed
<1>2. \A x \in DOMAIN fd64_to_fd :
        /\ fd64_to_fd[x] \in sockets /\ x \in DOMAIN fd_info
        /\ Cardinality(Owners(x)) = 1
        /\ \A y \in Owners(x) : y[1] = fd_info[x]
  <2> SUFFICES ASSUME NEW x \in DOMAIN fd64_to_fd
               PROVE  /\ fd64_to_fd[x] \in sockets /\ x \in DOMAIN fd_info
                      /\ Cardinality(Owners(x)) = 1
                      /\ \A y \in Owners(x) : y[1] = fd_info[x]
    OBVIOUS
  <2> DEFINE a == fd_info[x]
             c == conv_manager[a].data_to_conv[x]
  <2>1. a \in Live /\ x \in DOMAIN conv_manager[a].data_to_conv
    BY DEF IInv, UsersOK
  <2>2. TablesTyped(conv_manager[a])
    BY <2>1 DEF IInv, ManagersOK
  <2>3. /\ c \in Conv /\ IsConvUsed(conv_manager[a], c)
        /\ conv_manager[a].conv_to_data[c] = x
    BY <1>1, <2>1, <2>2 DEF MutuallyInverse, TablesTyped, IsConvUsed, Convs
  <2>4. \A b \in Live, d \in Conv :
          IsConvUsed(conv_manager[b], d) /\ conv_manager[b].conv_to_data[d] = x
            => b = a /\ d = c
    BY <1>1 DEF MutuallyInverse, IsConvUsed, Convs, IInv, UsersOK
  <2> HIDE DEF a, c
  <2>5. Owners(x) = {<<a, c>>}
    BY <2>1, <2>3, <2>4 DEF Owners
  <2>6. Cardinality(Owners(x)) = 1
    BY <2>5, FS_Singleton
  <2>7. \A y \in Owners(x) : y[1] = a
    BY <2>5
  <2> QED  BY <2>6, <2>7 DEF a, IInv, FdsOK
<1>3. \A a \in Live : \A c \in Convs(conv_manager[a]) :
        conv_manager[a].conv_to_data[c] \in DOMAIN fd64_to_fd
  BY <1>1 DEF MutuallyInverse, Convs, IInv, UsersOK
<1> QED  BY <1>2, <1>3 DEF IInv, FdsOK, WatchersOK, SocketsHaveOneOwner

\* No socket leaks and none is shared: every open socket is that of one conversation
\* of one live connection, and every conversation has one.
THEOREM SocketOwnership == Spec => []SocketsHaveOneOwner
BY Invariant, IInvSockets, PTL

LEMMA IInvPointers == IInv => PointersAreLive
<1> SUFFICES ASSUME IInv PROVE PointersAreLive
  OBVIOUS
<1>1. \A w \in io : w.conn \in Live
  BY DEF IInv, WatchersOK, UsersOK
<1>2. (\A t \in timers : t.conn \in Live) /\ \A a \in Live : ConnTimer(a) \in timers
  BY DEF IInv, TimersOK
<1>3. Live = {mp[i] : i \in DOMAIN mp} /\ Cardinality(Live) = Len(mp)
  <2>1. /\ Len(mp) \in Nat /\ DOMAIN mp = 1 .. Len(mp)
        /\ \A i \in 1 .. Len(mp) : mp[i] \in Live
        /\ mp \in Seq(Live)
    BY TableFacts
  <2>2. /\ \A a \in Live : \E i \in 1 .. Len(mp) : mp[i] = a
        /\ \A i, j \in 1 .. Len(mp) : mp[i] = mp[j] => i = j
    BY <2>1 DEF IInv, TableOK
  <2>3. Live = {mp[i] : i \in DOMAIN mp}
    BY <2>1, <2>2
  <2>4. mp \in [1 .. Len(mp) -> Live]
    BY <2>1
  <2>5. mp \in Bijection(1 .. Len(mp), Live)
    BY <2>2, <2>4, Fun_IsBij
  <2>6. Cardinality(Live) = Len(mp)
    BY <2>1, <2>5, FS_CountingElements DEF ExistsBijection
  <2> QED  BY <2>3, <2>6
<1>4. work.job = "conns" => work.it \in Live \cup {End}
  BY ConnsFacts
<1>5. work.job # "conns" => clear_it \in Live \cup {End}
  BY IdleIterator
<1> QED  BY <1>1, <1>2, <1>3, <1>4, <1>5 DEF PointersAreLive

\* No callback and no iterator refers to a connection that is gone.
THEOREM PointerSafety == Spec => []PointersAreLive
BY Invariant, IInvPointers, PTL

LEMMA IInvTraffic == IInv => ManagersMatchTraffic
<1> SUFFICES ASSUME IInv, NEW a \in Live
             PROVE  /\ Consistent(conv_manager[a])
                    /\ last_active[a] = conn_idle[a]
                    /\ \A i \in DOMAIN conv_manager[a].lru :
                         conv_manager[a].lru[i].age =
                           conv_idle[<<a, conv_manager[a].lru[i].key>>]
  BY DEF ManagersMatchTraffic
<1> DEFINE m == conv_manager[a]
<1>1. WellFormed(m, Silence(a)) /\ TablesTyped(m)
  BY DEF IInv, ManagersOK
<1>2. Consistent(m) /\ \A i \in DOMAIN m.lru : m.lru[i].age = Silence(a)[m.lru[i].key]
  BY <1>1, WellFormedIsConsistent
<1>3. \A i \in DOMAIN m.lru : m.lru[i].key \in Conv
  BY <1>1, LruFacts DEF WellFormed, TablesTyped, Convs
<1>4. \A i \in DOMAIN m.lru : m.lru[i].age = conv_idle[<<a, m.lru[i].key>>]
  BY <1>2, <1>3 DEF Silence
<1> QED  BY <1>2, <1>4 DEF IInv, AgesOK

\* The managers keep their conversations in the order of their last use, with the ages
\* a clock would show.
THEOREM TrafficIsRecorded == Spec => []ManagersMatchTraffic
BY Invariant, IInvTraffic, PTL

-----------------------------------------------------------------------------
(* What a step may not do *)

\* The two action properties, of one step.
SocketsKept ==
  \A a \in Live \cap Live' :
    \A c \in Convs(conv_manager[a]) \cap Convs(conv_manager'[a]) :
      conv_manager'[a].conv_to_data[c] = conv_manager[a].conv_to_data[c]

IdleCleared ==
  \A a \in Live :
    /\ a \notin Live' => conn_idle[a] >= ConnTimeout /\ Convs(conv_manager[a]) = {}
    /\ a \in Live' => \A c \in Convs(conv_manager[a]) :
         ~IsConvUsed(conv_manager'[a], c) => conv_idle[<<a, c>>] >= ConvTimeout

LEMMA TablesStayKeep == TablesStay => SocketsKept /\ IdleCleared
BY DEF TablesStay, SameTables, SocketsKept, IdleCleared, Convs, IsConvUsed

LEMMA NewConnectionKeeps ==
  ASSUME IInv, NEW a \in Addr, NEW batch \in Batches, PacketOfNewConnection(a, batch)
  PROVE  SocketsKept /\ IdleCleared
<1>1. PICK t \in HeapStamps : conv_manager' = With(conv_manager, a, NewManager(t))
  BY DEF PacketOfNewConnection, find_insert, conn_info_t
<1>2. /\ Live' = Live \cup {a}
      /\ \A b \in Live : conv_manager'[b] = conv_manager[b]
  BY <1>1 DEF PacketOfNewConnection, With, Live
<1> QED  BY <1>2 DEF SocketsKept, IdleCleared, IsConvUsed

LEMMA DeliverToNewKeeps == ASSUME IInv, DeliverToNew PROVE SocketsKept /\ IdleCleared
<1>1. PICK a \in Live, c \in Conv : work.conn = a /\ Head(work.left) = c
  BY DeliverFacts DEF DeliverToNew
<1> DEFINE m == conv_manager[a]
           n == UpdateActiveTime(InsertConv(m, c, counter), c)
<1>2. c \notin Convs(m) /\ conv_manager' = [conv_manager EXCEPT ![a] = n]
  BY <1>1 DEF DeliverToNew, IsConvUsed
<1>3. n.conv_to_data = With(m.conv_to_data, c, counter)
  BY InsertTables DEF IInv, ManagersOK, WellFormed
<1> HIDE DEF n
<1>4. Live' = Live /\ conv_manager'[a] = n /\ \A b \in Live \ {a} : conv_manager'[b] = conv_manager[b]
  BY <1>2 DEF Live
<1>5. /\ Convs(m) \subseteq Convs(n)
      /\ \A d \in Convs(m) : n.conv_to_data[d] = m.conv_to_data[d]
  BY <1>2, <1>3 DEF Convs, With
<1> QED  BY <1>4, <1>5 DEF SocketsKept, IdleCleared, IsConvUsed

\* The conversation at the end of the list is as idle as its entry says.
LEMMA ClearConvKeeps == ASSUME IInv, ClearConv PROVE SocketsKept /\ IdleCleared
<1>1. PICK a \in Live : work.conn = a
  BY ConvsFacts DEF ClearConv
<1> DEFINE m == conv_manager[a]
           c == Oldest(m).key
           n == EraseConv(m, c)
<1>2. m.lru # << >> /\ Oldest(m).age >= ConvTimeout /\ conv_manager' = [conv_manager EXCEPT ![a] = n]
  BY <1>1 DEF ClearConv, OldestExpired
<1>3. WellFormed(m, Silence(a)) /\ TablesTyped(m)
  BY DEF IInv, ManagersOK
<1>4. c \in Convs(m) /\ c \in Conv /\ conv_idle[<<a, c>>] >= ConvTimeout
  <2>1. c \in Convs(m) /\ Oldest(m).age = Silence(a)[c]
    BY <1>2, <1>3, OldestIsKnown
  <2>2. c \in Conv
    BY <1>3, <2>1 DEF TablesTyped, Convs
  <2> QED  BY <1>2, <2>1, <2>2 DEF Silence
<1>5. n.conv_to_data = Without(m.conv_to_data, c)
  BY <1>3, EraseTables DEF WellFormed
<1>6. PICK x : x = c
  OBVIOUS
<1> HIDE DEF n, c
<1>7. Live' = Live /\ conv_manager'[a] = n /\ \A b \in Live \ {a} : conv_manager'[b] = conv_manager[b]
  BY <1>2 DEF Live
<1>8. /\ Convs(n) = Convs(m) \ {x}
      /\ \A d \in Convs(n) : n.conv_to_data[d] = m.conv_to_data[d]
  BY <1>5, <1>6 DEF Convs, Without
<1> QED  BY <1>4, <1>6, <1>7, <1>8 DEF SocketsKept, IdleCleared, IsConvUsed

LEMMA EraseConnKeeps == ASSUME IInv, EraseConn PROVE SocketsKept /\ IdleCleared
<1>1. PICK a \in Live : Visited = a
  BY VisitedIsLive DEF EraseConn
<1>2. /\ Convs(conv_manager[a]) = {} /\ last_active[a] >= ConnTimeout
      /\ conv_manager' = Without(conv_manager, a)
  BY <1>1 DEF EraseConn, Abandoned
<1>3. Live' = Live \ {a} /\ \A b \in Live' : conv_manager'[b] = conv_manager[b]
  BY <1>2 DEF Without, Live
<1>4. last_active[a] = conn_idle[a]
  BY DEF IInv, AgesOK
<1> QED  BY <1>2, <1>3, <1>4 DEF SocketsKept, IdleCleared, IsConvUsed

LEMMA StepKeeps == IInv /\ [Next]_vars => SocketsKept /\ IdleCleared
<1> SUFFICES ASSUME IInv, [Next]_vars PROVE SocketsKept /\ IdleCleared
  OBVIOUS
<1>1. CASE local_listen_cb
  BY <1>1, PacketOfConnectionStep, TablesStayKeep, NewConnectionKeeps DEF local_listen_cb
<1>2. CASE remote_cb
  BY <1>2, RemotePacketStep, TablesStayKeep DEF remote_cb
<1>3. CASE fec_encode_cb
  BY <1>3, FecTimeoutStep, TablesStayKeep DEF fec_encode_cb
<1>4. CASE conn_timer_cb
  BY <1>4, ConnTimerFiresStep, TablesStayKeep DEF conn_timer_cb
<1>5. CASE global_timer_cb
  BY <1>5, GlobalTimerFiresStep, TablesStayKeep DEF global_timer_cb
<1>6. CASE Iterate
  BY <1>6, DeliverToKnownStep, DeliverToNewKeeps, DropUndeliverableStep, ClearConvKeeps,
     ClearConvDoneStep, KeepConnStep, EraseConnKeeps, ClearConnDoneStep, TablesStayKeep
     DEF Iterate
<1>7. CASE Tick
  BY <1>7, TickStep, TablesStayKeep
<1>8. CASE UNCHANGED vars
  BY <1>8, Stutters, TablesStayKeep
<1> QED  BY <1>1, <1>2, <1>3, <1>4, <1>5, <1>6, <1>7, <1>8 DEF Next

\* While a conversation lives it keeps its socket.
THEOREM SocketStability == Spec => ConversationKeepsSocket
<1>1. IInv /\ [Next]_vars => SocketsKept
  BY StepKeeps
<1>2. Spec => [][SocketsKept]_vars
  BY <1>1, Invariant, PTL DEF Spec
<1> QED  BY <1>2 DEF ConversationKeepsSocket, SocketsKept

\* Nothing is cleared that was in use: a conversation goes after conv_timeout without a
\* packet in either direction, a connection after server_conn_timeout and without
\* conversations.
THEOREM ClearingIsPatient == Spec => OnlyIdleIsCleared
<1>1. IInv /\ [Next]_vars => IdleCleared
  BY StepKeeps
<1>2. Spec => [][IdleCleared]_vars
  BY <1>1, Invariant, PTL DEF Spec
<1> QED  BY <1>2 DEF OnlyIdleIsCleared, IdleCleared

===================================================================================
