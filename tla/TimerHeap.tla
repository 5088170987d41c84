------------------------------ MODULE TimerHeap -------------------------------
(***************************************************************************)
(* libev's heap of timers, four-ary or binary (libev/ev.c:2240-2369).  A   *)
(* heap is a record of the array, counted from 1 instead of HEAP0, whose   *)
(* entries hold a watcher and the cached time, and of the index that every *)
(* watcher keeps in its field active.                                      *)
(***************************************************************************)
EXTENDS Integers, Sequences

CONSTANT DHEAP     \* 4 if EV_USE_4HEAP is on, 2 otherwise

ASSUME DheapAssumption == DHEAP \in {2, 4}

HPARENT(k) == (k - 2) \div DHEAP + 1

\* Every entry of array, moved to one of the places touched, tells its watcher.
Placed(h, array, touched) ==
  [timers |-> array,
   active |-> [w \in DOMAIN h.active |->
                 IF \E i \in touched : array[i].w = w
                 THEN CHOOSE i \in touched : array[i].w = w
                 ELSE h.active[w]]]

\* The entry at k rises above every ancestor that is later than it.
upheap(h, k) ==
  LET he   == h.timers[k]
      done(j) == j = 1 \/ h.timers[HPARENT(j)].at <= he.at
      path[j \in 1 .. k] == IF done(j) THEN {j} ELSE {j} \cup path[HPARENT(j)]
      array == [i \in DOMAIN h.timers |->
                  IF i \notin path[k] THEN h.timers[i]
                  ELSE IF done(i) THEN he ELSE h.timers[HPARENT(i)]]
  IN  Placed(h, array, path[k])

\* The first of the children of j, among n entries, that is due earliest.
MinChild(h, n, j) ==
  LET children == {c \in 2 .. n : HPARENT(c) = j}
  IN  CHOOSE c \in children : \A d \in children :
        \/ h.timers[c].at < h.timers[d].at
        \/ h.timers[c].at = h.timers[d].at /\ c <= d

\* The entry at k sinks below every earliest child that is earlier than it.
downheap(h, n, k) ==
  LET he == h.timers[k]
      done(j) == \/ DHEAP * (j - 1) + 2 > n
                 \/ he.at <= h.timers[MinChild(h, n, j)].at
      path[j \in k .. n] == IF done(j) THEN {j} ELSE {j} \cup path[MinChild(h, n, j)]
      array == [i \in DOMAIN h.timers |->
                  IF i \notin path[k] THEN h.timers[i]
                  ELSE IF done(i) THEN he ELSE h.timers[MinChild(h, n, i)]]
  IN  Placed(h, array, path[k])

adjustheap(h, n, k) ==
  IF k > 1 /\ h.timers[k].at <= h.timers[HPARENT(k)].at
  THEN upheap(h, k) ELSE downheap(h, n, k)

\* Mutant of HeapInsert: the new entry stays at the end.
HeapInsertAtEnd(h, w, at) ==
  [timers |-> Append(h.timers, [w |-> w, at |-> at]),
   active |-> [h.active EXCEPT ![w] = Len(h.timers) + 1]]

\* ev_timer_start: the new entry rises from the end.
HeapInsert(h, w, at) ==
  LET n == Len(h.timers) + 1
  IN  upheap([timers |-> Append(h.timers, [w |-> w, at |-> at]),
              active |-> [h.active EXCEPT ![w] = n]], n)

\* Mutant of HeapRemove: the entry moved into the hole can only sink.
HeapRemoveSinking(h, w) ==
  LET k == h.active[w]
      n == Len(h.timers) - 1
      moved == [h.timers EXCEPT ![k] = h.timers[n + 1]]
      left  == IF k <= n THEN downheap([h EXCEPT !.timers = moved], n, k) ELSE h
  IN  [timers |-> SubSeq(left.timers, 1, n), active |-> [left.active EXCEPT ![w] = 0]]

\* ev_timer_stop: the last entry moves into the hole and then to its place.
HeapRemove(h, w) ==
  LET k == h.active[w]
      n == Len(h.timers) - 1
      moved == [h.timers EXCEPT ![k] = h.timers[n + 1]]
      left  == IF k <= n THEN adjustheap([h EXCEPT !.timers = moved], n, k) ELSE h
  IN  [timers |-> SubSeq(left.timers, 1, n), active |-> [left.active EXCEPT ![w] = 0]]

\* timers_reify: the first entry gets a later time.
HeapPostpone(h, at) ==
  downheap([h EXCEPT !.timers[1].at = at], Len(h.timers), 1)

\* The assertions of verify_heap.
verify_heap(h) ==
  \A i \in DOMAIN h.timers :
    /\ h.active[h.timers[i].w] = i
    /\ i > 1 => h.timers[HPARENT(i)].at <= h.timers[i].at
===============================================================================
