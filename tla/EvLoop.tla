-------------------------------- MODULE EvLoop --------------------------------
(***************************************************************************)
(* The event loop of libev/ev.c with its epoll, poll and select backends,  *)
(* as this program drives it: timers, sockets that callbacks open and      *)
(* close, one prepare watcher and signals.  One action is what ev_run does *)
(* between two places where the handler of a signal makes a difference.    *)
(* Times are relative to mn_now, the loop's own time, which time_update    *)
(* sets to the clock.                                                      *)
(***************************************************************************)
EXTENDS TimerHeap, FiniteSets

CONSTANTS Timers,     \* ev_timer watchers
          Ios,        \* ev_io watchers of sockets
          Signals,    \* signals, each with its watcher, the highest number first
          Prepare,    \* the ev_prepare watcher
          pipe_w,     \* the loop's own watcher, through which signals wake it
          pending_w,  \* replaces a stopped watcher in the queue
          Fds,        \* per backend the numbers of the descriptors a socket can get
          evpipe,     \* the descriptor of the eventfd
          Flags,      \* what the variable LIBEV_FLAGS can say, sets of backends
          None,       \* no descriptor, no watcher
          Settings,   \* per backend and timer what ev_timer_set is called with
          EgenMod,    \* where the generation counters wrap (2^32)
          MaxLag,     \* how far the clock gets ahead of the loop's time at most
          MaxCalls    \* bound on the library calls of one callback

SignalSet == {Signals[i] : i \in DOMAIN Signals}
Watchers == Timers \cup Ios \cup SignalSet \cup {Prepare, pipe_w}
AllFds   == (UNION {Fds[b] : b \in DOMAIN Fds}) \cup {evpipe}
Backends == {"epoll", "poll", "select"}
Read     == {"READ"}

\* Watchers are different structures.
ASSUME WatchersAssumption ==
  /\ Signals \in Seq(SignalSet)
  /\ Timers \cap Ios = {}
  /\ SignalSet \cap (Timers \cup Ios) = {}
  /\ Prepare \notin Timers \cup Ios \cup SignalSet
  /\ pipe_w \notin Timers \cup Ios \cup SignalSet \cup {Prepare}
  /\ pending_w \notin Watchers

\* Descriptors are numbers, and the eventfd is open all the time.
ASSUME DescriptorsAssumption ==
  /\ IsFiniteSet(AllFds) /\ AllFds \subseteq Nat
  /\ \A b \in Backends : b \in DOMAIN Fds /\ evpipe \notin Fds[b]
  /\ None \notin AllFds

\* ev_timer_start asserts that repeat is not negative.
ASSUME SettingsAssumption ==
  \A b \in Backends, t \in Timers : \A s \in Settings[b][t] :
    s.after \in Int /\ s.repeat \in Nat

ASSUME BoundsAssumption == EgenMod \in Nat \ {0} /\ MaxLag \in Nat /\ MaxCalls \in Nat

MAX_BLOCKTIME   == MaxLag + 1    \* one minute, longer than any timer here

\* pipe_w has priority EV_MAXPRI, everything else 0.
ABSPRI(w)  == IF w = pipe_w THEN 2 ELSE 0
Priorities == {0, 2}

VARIABLES
  backend,     \* "epoll", "poll" or "select"
  heap,       \* the timers, and the field active of their watchers
  repeat,     \* the field repeat of every timer
  fd,         \* the field fd of every ev_io that is active, or None
  anfds,      \* per descriptor its watchers, events, reify, emask and egen
  fdchanges,  \* descriptors whose watchers have changed
  polls,      \* what poll is called with, a sequence of descriptors
  pollidxs,   \* per descriptor its place in polls, or 0
  vec_ri,     \* what select is called with
  pendings,   \* per priority the queue of pending events
  pending,    \* the field pending of every watcher
  handled,    \* the signals whose watchers are started
  signals,    \* the signals whose field pending is set
  sig_pending, pipe_write_wanted, pipe_write_skipped,
  phase,      \* where ev_run is, "program" in a callback or before it starts
  next,       \* what follows when no event is pending
  running,    \* the watcher whose callback runs, or None
  calls,      \* library calls this callback has made
  rfeeds,     \* timers found due
  wake,       \* until when epoll_wait sleeps
  \* The kernel:
  clock,      \* the monotonic clock, how far it is ahead of mn_now
  open,       \* descriptors of sockets
  epoll,      \* per descriptor the events and the generation registered, or None
  ready,      \* descriptors with something to read
  interrupted,\* a signal arrived during epoll_wait
  \* A record of what callbacks asked for:
  stopped     \* watchers stopped and not started since

queueVars  == <<pendings, pending>>
pollVars   == <<polls, pollidxs, vec_ri>>
ioVars     == <<fd, anfds, fdchanges, pollVars>>
signalVars == <<handled, signals, sig_pending, pipe_write_wanted, pipe_write_skipped>>
loopVars   == <<backend, phase, next, running, calls, rfeeds, wake>>
kernelVars == <<clock, open, epoll, ready, interrupted>>
vars == <<heap, repeat, queueVars, ioVars, signalVars, loopVars, kernelVars, stopped>>

\* 1 ms is the unit of time; with select it is 1 us.
backend_mintime == IF backend = "select" THEN 0 ELSE 1

-----------------------------------------------------------------------------
(* Pending events *)

Queue == [pendings |-> pendings, pending |-> pending]

SetQueue(q) == pendings' = q.pendings /\ pending' = q.pending

\* ev_feed_event: events of a watcher that is pending are merged.
Feed(q, w, events) ==
  IF q.pending[w] # 0
  THEN [q EXCEPT !.pendings[ABSPRI(w)][q.pending[w]].events = @ \cup events]
  ELSE [pendings |-> [q.pendings EXCEPT ![ABSPRI(w)] = Append(@, [w |-> w, events |-> events])],
        pending |-> [q.pending EXCEPT ![w] = Len(q.pendings[ABSPRI(w)]) + 1]]

FeedAll(q, ws, events) ==
  LET fed[i \in 0 .. Len(ws)] == IF i = 0 THEN q ELSE Feed(fed[i - 1], ws[i], events)
  IN  fed[Len(ws)]

\* Mutant of ClearPending: what is pending stays pending.
ClearNothing(q, w) == q

\* clear_pending: the place in the queue goes to a watcher that does nothing.
ClearPending(q, w) ==
  IF q.pending[w] = 0 THEN q
  ELSE [pendings |-> [q.pendings EXCEPT ![ABSPRI(w)][q.pending[w]].w = pending_w],
        pending |-> [q.pending EXCEPT ![w] = 0]]

-----------------------------------------------------------------------------
(* What the program does in a callback and before it calls ev_run *)

\* main starts the watchers of the signals before anything else.
Call == phase = "program" /\ handled = SignalSet /\ calls < MaxCalls /\ calls' = calls + 1

Returned == UNCHANGED <<backend, phase, next, running, rfeeds, wake, pollVars>>

StoppedTimer(t) == IF heap.active[t] = 0 THEN heap ELSE HeapRemove(heap, t)

\* ev_timer_stop, ev_timer_set and ev_timer_start (fec_manager.cpp:180-182).
RestartTimer(t, s) ==
  /\ Call
  /\ heap' = HeapInsert(StoppedTimer(t), t, s.after)
  /\ repeat' = [repeat EXCEPT ![t] = s.repeat]
  /\ SetQueue(ClearPending(Queue, t))
  /\ stopped' = stopped \ {t}
  /\ Returned
  /\ UNCHANGED <<fd, anfds, fdchanges, signalVars, kernelVars>>

StopTimer(t) ==
  /\ Call
  /\ heap' = StoppedTimer(t)
  /\ SetQueue(ClearPending(Queue, t))
  /\ stopped' = stopped \cup {t}
  /\ Returned
  /\ UNCHANGED <<repeat, fd, anfds, fdchanges, signalVars, kernelVars>>

wlist_add(head, w) == <<w>> \o head

\* The list holds w, and once (Verified).
wlist_del(head, w) ==
  LET i == CHOOSE i \in DOMAIN head : head[i] = w
  IN  SubSeq(head, 1, i - 1) \o SubSeq(head, i + 1, Len(head))

fd_change(changed, f, flags) ==
  /\ anfds' = [changed EXCEPT ![f].reify = @ \cup flags]
  /\ fdchanges' = IF changed[f].reify = {} THEN Append(fdchanges, f) ELSE fdchanges

\* evpipe_init starts the loop's own watcher with the first signal.
PipeStarted ==
  IF anfds[evpipe].head # << >> THEN UNCHANGED <<anfds, fdchanges>>
  ELSE fd_change([anfds EXCEPT ![evpipe].head = <<pipe_w>>], evpipe, {"IOFDSET", "REIFY"})

StartSignal(s) ==
  /\ s \notin handled
  /\ handled' = handled \cup {s}
  /\ PipeStarted
  /\ UNCHANGED <<heap, repeat, queueVars, fd, pollVars, signals, sig_pending,
                 pipe_write_wanted, pipe_write_skipped, loopVars, kernelVars, stopped>>

\* A new socket gets the lowest free descriptor; ev_io_init or ev_io_set sets the
\* flag EV__IOFDSET, which ev_io_start hands to fd_change (tunnel_server.cpp:210-242).
OpenSocket(w) ==
  /\ Call
  /\ fd[w] = None
  /\ \E f \in Fds[backend] \ open :
       /\ \A g \in Fds[backend] \ open : f <= g
       /\ open' = open \cup {f}
       /\ fd' = [fd EXCEPT ![w] = f]
       /\ fd_change([anfds EXCEPT ![f].head = wlist_add(@, w)], f, {"IOFDSET", "REIFY"})
  /\ stopped' = stopped \ {w}
  /\ Returned
  /\ UNCHANGED <<heap, repeat, queueVars, signalVars, clock, epoll, ready, interrupted>>

\* ev_io_stop, then close, which also ends the registration (connection.cpp:36-37).
CloseSocket(w) ==
  /\ Call
  /\ fd[w] # None
  /\ SetQueue(ClearPending(Queue, w))
  /\ LET f == fd[w]
     IN  /\ fd_change([anfds EXCEPT ![f].head = wlist_del(@, w)], f, {"REIFY"})
         /\ open' = open \ {f}
         /\ epoll' = [epoll EXCEPT ![f] = None]
         /\ ready' = ready \ {f}
  /\ fd' = [fd EXCEPT ![w] = None]
  /\ stopped' = stopped \cup {w}
  /\ Returned
  /\ UNCHANGED <<heap, repeat, signalVars, clock, interrupted>>

\* The callback returns to ev_invoke_pending, or the program calls ev_run.
Return ==
  /\ phase = "program" /\ handled = SignalSet
  /\ phase' = "invoke"
  /\ calls' = 0
  /\ running' = None
  /\ UNCHANGED <<backend, heap, repeat, queueVars, ioVars, signalVars, next, rfeeds, wake,
                 kernelVars, stopped>>

-----------------------------------------------------------------------------
(* ev_invoke_pending *)

\* The last event of the highest priority.
Invoke ==
  /\ phase = "invoke"
  /\ \E p \in Priorities :
       /\ pendings[p] # << >>
       /\ \A r \in Priorities : pendings[r] # << >> => r <= p
       /\ LET e == pendings[p][Len(pendings[p])]
          IN  /\ pendings' = [pendings EXCEPT ![p] = SubSeq(@, 1, Len(@) - 1)]
              /\ pending' = IF e.w = pending_w THEN pending ELSE [pending EXCEPT ![e.w] = 0]
              /\ running' = IF e.w \in {pending_w, pipe_w} THEN None ELSE e.w
              /\ phase' = IF e.w = pending_w THEN "invoke"
                          ELSE IF e.w = pipe_w THEN "pipecb" ELSE "program"
              \* The callback of a socket, and pipecb if told so, reads.
              /\ ready' = IF e.w \in Ios THEN ready \ {fd[e.w]}
                          ELSE IF e.w = pipe_w /\ "READ" \in e.events THEN ready \ {evpipe}
                          ELSE ready
              /\ pipe_write_skipped' = (pipe_write_skipped /\ e.w # pipe_w)
  /\ UNCHANGED <<backend, heap, repeat, ioVars, handled, signals, sig_pending,
                 pipe_write_wanted, next, calls, rfeeds, wake, clock, open, epoll,
                 interrupted, stopped>>

\* pipecb after pipe_write_skipped has been cleared.
LookForSignals ==
  /\ phase = "pipecb"
  /\ sig_pending' = FALSE
  /\ phase' = IF sig_pending THEN "signals" ELSE "invoke"
  /\ UNCHANGED <<backend, heap, repeat, queueVars, ioVars, handled, signals,
                 pipe_write_wanted, pipe_write_skipped, next, running, calls, rfeeds,
                 wake, kernelVars, stopped>>

\* ev_feed_signal_event for each that has arrived.
FeedSignals ==
  /\ phase = "signals"
  /\ LET fed[i \in 0 .. Len(Signals)] ==
           IF i = 0 THEN Queue
           ELSE IF Signals[i] \in signals THEN Feed(fed[i - 1], Signals[i], {"SIGNAL"})
           ELSE fed[i - 1]
     IN  SetQueue(fed[Len(Signals)])
  /\ signals' = {}
  /\ phase' = "invoke"
  /\ UNCHANGED <<backend, heap, repeat, ioVars, handled, sig_pending, pipe_write_wanted,
                 pipe_write_skipped, next, running, calls, rfeeds, wake, kernelVars,
                 stopped>>

-----------------------------------------------------------------------------
(* ev_run *)

\* mn_now becomes the clock.
time_update ==
  /\ heap' = [heap EXCEPT !.timers = [i \in DOMAIN @ |-> [w |-> @[i].w, at |-> @[i].at - clock]]]
  /\ clock' = 0

NonePending == phase = "invoke" /\ \A p \in Priorities : pendings[p] = << >>

QueuePrepare ==
  /\ NonePending /\ next = "prepare"
  /\ SetQueue(Feed(Queue, Prepare, {"PREPARE"}))
  /\ next' = "reify"
  /\ UNCHANGED <<backend, heap, repeat, ioVars, signalVars, phase, running, calls, rfeeds,
                 wake, kernelVars, stopped>>

\* epoll_modify: nothing is unregistered here; an ADD of what is registered with the
\* same events is taken for nothing new, and the generation is not counted.  With
\* every other answer of the kernel the second attempt sets events and generation.
epoll_modify(s, f, oev, nev) ==
  LET oldmask == s.anfds[f].emask
      egen    == (s.anfds[f].egen + 1) % EgenMod
      add     == oev = {} \/ oldmask = nev
      same    == add /\ s.epoll[f] # None /\ oldmask = nev
  IN  IF nev = {} THEN s
      ELSE [s EXCEPT !.anfds[f].emask = nev,
                     !.anfds[f].egen = IF same THEN @ ELSE egen,
                     !.epoll[f] = IF same THEN @ ELSE [events |-> nev, egen |-> egen]]

\* The last descriptor moves to the place of the one that is removed.
PollRemove(s, f) ==
  LET idx  == s.pollidxs[f]
      last == s.polls[Len(s.polls)]
      gone == [s EXCEPT !.pollidxs[f] = 0, !.polls = SubSeq(@, 1, Len(@) - 1)]
  IN  IF idx = Len(s.polls) THEN gone
      ELSE [gone EXCEPT !.polls[idx] = last, !.pollidxs[last] = idx]

\* A descriptor only ever has the events Read here, so its entry needs no others.
poll_modify(s, f, oev, nev) ==
  IF oev = nev THEN s
  ELSE IF nev = {} THEN PollRemove(s, f)
  ELSE IF s.pollidxs[f] # 0 THEN s
  ELSE [s EXCEPT !.polls = Append(@, f), !.pollidxs[f] = Len(s.polls) + 1]

select_modify(s, f, oev, nev) ==
  IF oev = nev THEN s
  ELSE [s EXCEPT !.vec_ri = IF nev = {} THEN @ \ {f} ELSE @ \cup {f}]

backend_modify(s, f, oev, nev) ==
  CASE backend = "epoll"  -> epoll_modify(s, f, oev, nev)
    [] backend = "poll"   -> poll_modify(s, f, oev, nev)
    [] backend = "select" -> select_modify(s, f, oev, nev)

\* Mutant of Reified: only a change of the events is told to the kernel.
ReifiedIfChanged(s, f) ==
  LET a == s.anfds[f]
      events == IF a.head = << >> THEN {} ELSE Read
      clean == [s EXCEPT !.anfds[f].events = events, !.anfds[f].reify = {}]
  IN  IF a.events # events THEN backend_modify(clean, f, a.events, events) ELSE clean

\* One round of fd_reify.
Reified(s, f) ==
  LET a == s.anfds[f]
      events == IF a.head = << >> THEN {} ELSE Read
      clean == [s EXCEPT !.anfds[f].events = events, !.anfds[f].reify = {}]
  IN  IF a.events # events \/ "IOFDSET" \in a.reify
      THEN backend_modify(clean, f, a.events, events) ELSE clean

\* fd_reify, time_update, and pipe_write_wanted is set.
Reify ==
  /\ NonePending /\ next = "reify"
  /\ LET reified[i \in 0 .. Len(fdchanges)] ==
           IF i = 0 THEN [anfds |-> anfds, epoll |-> epoll, polls |-> polls,
                          pollidxs |-> pollidxs, vec_ri |-> vec_ri]
           ELSE Reified(reified[i - 1], fdchanges[i])
         s == reified[Len(fdchanges)]
     IN  /\ anfds' = s.anfds /\ epoll' = s.epoll
         /\ polls' = s.polls /\ pollidxs' = s.pollidxs /\ vec_ri' = s.vec_ri
  /\ fdchanges' = << >>
  /\ time_update
  /\ pipe_write_wanted' = TRUE
  /\ phase' = "decide"
  /\ UNCHANGED <<backend, repeat, queueVars, fd, handled, signals, sig_pending,
                 pipe_write_skipped, next, running, calls, rfeeds, wake, open, ready,
                 interrupted, stopped>>

waittime ==
  IF pipe_write_skipped THEN 0
  ELSE IF heap.timers = << >> THEN MAX_BLOCKTIME
  ELSE LET to == heap.timers[1].at
       IN  IF to < backend_mintime THEN backend_mintime
           ELSE IF to < MAX_BLOCKTIME THEN to ELSE MAX_BLOCKTIME

\* The time that passes before the backend is called lengthens the sleep; here it
\* counts as time that passes before the backend returns.
StartPolling ==
  /\ phase = "decide"
  /\ wake' = waittime
  /\ phase' = "poll"
  /\ UNCHANGED <<backend, heap, repeat, queueVars, ioVars, signalVars, next, running,
                 calls, rfeeds, kernelVars, stopped>>

Orders(S) == {order \in [1 .. Cardinality(S) -> S] : \A i, j \in DOMAIN order :
                                                       order[i] = order[j] => i = j}

\* The descriptors that are ready, in the orders in which they can be reported.
EpollReports == Orders({f \in ready : epoll[f] # None})

\* In the order of the entries of polls.
PollReports ==
  {order \in Orders({polls[i] : i \in DOMAIN polls} \cap ready) :
     \A i \in 2 .. Len(order) : \E j, k \in DOMAIN polls :
       polls[j] = order[i - 1] /\ polls[k] = order[i] /\ j < k}

\* From the highest bit of the highest word down.
SelectReports == {order \in Orders(ready \cap vec_ri) :
                    \A i \in 2 .. Len(order) : order[i] < order[i - 1]}

Reported == CASE backend = "epoll"  -> EpollReports
              [] backend = "poll"   -> PollReports
              [] backend = "select" -> SelectReports

\* The backend returns what is ready or, when nothing is, after the time it was
\* given or with EINTR; fd_event feeds the watchers.
\* That no event is of an older generation is part of SleepMissesNothing.
PollReturns ==
  /\ phase = "poll"
  /\ \E order \in Reported :
       /\ order = << >> => clock >= wake \/ interrupted
       /\ LET fed[i \in 0 .. Len(order)] ==
                IF i = 0 THEN Queue ELSE FeedAll(fed[i - 1], anfds[order[i]].head, Read)
          IN  SetQueue(fed[Len(order)])
  /\ wake' = 0
  /\ interrupted' = FALSE
  /\ phase' = "polled"
  /\ UNCHANGED <<backend, heap, repeat, ioVars, signalVars, next, running, calls, rfeeds,
                 clock, open, epoll, ready, stopped>>

StopWanting ==
  /\ phase = "polled"
  /\ pipe_write_wanted' = FALSE
  /\ phase' = "woken"
  /\ UNCHANGED <<backend, heap, repeat, queueVars, ioVars, handled, signals, sig_pending,
                 pipe_write_skipped, next, running, calls, rfeeds, wake, kernelVars,
                 stopped>>

\* Mutant of Wake: a wake-up that was not written is forgotten.
WakeUnnoticed ==
  /\ phase = "woken"
  /\ time_update
  /\ phase' = "timers"
  /\ UNCHANGED <<backend, repeat, queueVars, ioVars, signalVars, next, running, calls,
                 rfeeds, wake, open, epoll, ready, interrupted, stopped>>

\* A wake-up that was not written is made up for; time_update.
Wake ==
  /\ phase = "woken"
  /\ SetQueue(IF pipe_write_skipped THEN Feed(Queue, pipe_w, {"CUSTOM"}) ELSE Queue)
  /\ time_update
  /\ phase' = "timers"
  /\ UNCHANGED <<backend, repeat, ioVars, signalVars, next, running, calls, rfeeds, wake,
                 open, epoll, ready, interrupted, stopped>>

FirstIsDue == heap.timers # << >> /\ heap.timers[1].at < 0

\* timers_reify: a repeating timer is postponed, another one stopped.
TimerExpires ==
  /\ phase = "timers" /\ FirstIsDue
  /\ LET t == heap.timers[1].w
         later == heap.timers[1].at + repeat[t]
     IN  /\ heap' = IF repeat[t] # 0
                    THEN HeapPostpone(heap, IF later < 0 THEN 0 ELSE later)
                    ELSE HeapRemove(heap, t)
         /\ SetQueue(IF repeat[t] # 0 THEN Queue ELSE ClearPending(Queue, t))
         /\ rfeeds' = <<t>> \o rfeeds
  /\ UNCHANGED <<backend, repeat, ioVars, signalVars, phase, next, running, calls, wake,
                 kernelVars, stopped>>

\* feed_reverse_done
TimersDone ==
  /\ phase = "timers" /\ ~FirstIsDue
  /\ SetQueue(FeedAll(Queue, rfeeds, {"TIMER"}))
  /\ rfeeds' = << >>
  /\ phase' = "invoke"
  /\ next' = "prepare"
  /\ UNCHANGED <<backend, heap, repeat, ioVars, signalVars, running, calls, wake,
                 kernelVars, stopped>>

-----------------------------------------------------------------------------
(* Around the loop *)

evpipe_write ==
  /\ sig_pending' = TRUE
  /\ pipe_write_skipped' = IF sig_pending THEN pipe_write_skipped ELSE ~pipe_write_wanted
  /\ ready' = IF ~sig_pending /\ pipe_write_wanted THEN ready \cup {evpipe} ELSE ready

\* ev_sighandler and ev_feed_signal, between any two steps.
Raise(s) ==
  /\ s \in handled
  /\ signals' = signals \cup {s}
  /\ evpipe_write
  /\ interrupted' = (interrupted \/ phase = "poll")
  /\ UNCHANGED <<heap, repeat, queueVars, ioVars, handled, pipe_write_wanted, loopVars,
                 clock, open, epoll, stopped>>

Arrive(f) ==
  /\ f \in open
  /\ ready' = ready \cup {f}
  /\ UNCHANGED <<heap, repeat, queueVars, ioVars, signalVars, loopVars, clock, open,
                 epoll, interrupted, stopped>>

Tick ==
  /\ clock < MaxLag
  /\ clock' = clock + 1
  /\ UNCHANGED <<heap, repeat, queueVars, ioVars, signalVars, loopVars, open, epoll,
                 ready, interrupted, stopped>>

Loop == \/ Return \/ Invoke \/ LookForSignals \/ FeedSignals \/ QueuePrepare \/ Reify
        \/ StartPolling \/ PollReturns \/ StopWanting \/ Wake \/ TimerExpires \/ TimersDone

\* On Linux every backend that is compiled in.
ev_recommended_backends == {"epoll", "poll", "select"}

\* LIBEV_FLAGS may choose among the backends; epoll may not work, poll and select do.
BackendInit ==
  \E flags \in Flags, epollWorks \in BOOLEAN :
    LET allowed == IF flags = {} THEN ev_recommended_backends ELSE flags
    IN  \/ epollWorks /\ "epoll" \in allowed /\ backend = "epoll"
        \/ ~(epollWorks /\ "epoll" \in allowed) /\ "poll" \in allowed /\ backend = "poll"
        \/ allowed \ {"epoll"} = {"select"} /\ ~(epollWorks /\ "epoll" \in allowed)
           /\ backend = "select"

\* The kernel's table of a new epoll descriptor.
EpollInit == epoll = [f \in AllFds |-> None]

PollInit == polls = << >> /\ pollidxs = [f \in AllFds |-> 0]

SelectInit == vec_ri = {}

\* The rest of loop_init, and before it calloc.
LoopInit ==
  /\ BackendInit
  /\ EpollInit /\ PollInit /\ SelectInit
  /\ heap = [timers |-> << >>, active |-> [t \in Timers |-> 0]]
  /\ repeat = [t \in Timers |-> 0]
  /\ fd = [w \in Ios |-> None]
  /\ pendings = [p \in Priorities |-> << >>]
  /\ pending = [w \in Watchers |-> 0]
  /\ anfds = [f \in AllFds |->
                [head |-> << >>, events |-> {}, reify |-> {}, emask |-> {}, egen |-> 0]]
  /\ fdchanges = << >>
  /\ handled = {} /\ signals = {} /\ sig_pending = FALSE
  /\ pipe_write_wanted = FALSE /\ pipe_write_skipped = FALSE
  /\ phase = "program" /\ next = "prepare" /\ running = None /\ calls = 0
  /\ rfeeds = << >> /\ wake = 0
  /\ stopped = Timers \cup Ios

Kernel == clock = 0 /\ open = {} /\ ready = {} /\ interrupted = FALSE

Init == LoopInit /\ Kernel

Next == \/ \E t \in Timers : \E s \in Settings[backend][t] : RestartTimer(t, s)
        \/ \E t \in Timers : StopTimer(t)
        \/ \E w \in Ios : OpenSocket(w) \/ CloseSocket(w)
        \/ \E s \in SignalSet : StartSignal(s)
        \/ Loop
        \/ \E s \in SignalSet : Raise(s)
        \/ \E f \in AllFds : Arrive(f)
        \/ Tick

Spec == Init /\ [][Next]_vars

\* The loop and the clock go on, and callbacks return.
FairSpec == Spec /\ WF_vars(Loop) /\ WF_vars(Tick)

-----------------------------------------------------------------------------
(* Properties *)

verify_watcher(w) == pending[w] # 0 => pendings[ABSPRI(w)][pending[w]].w = w

\* The assertions of ev_verify, which is compiled in and called by nobody.
ev_verify ==
  /\ \A f \in AllFds : \A i \in DOMAIN anfds[f].head :
       LET w == anfds[f].head[i]
       IN  verify_watcher(w) /\ (w \in Ios => fd[w] = f)
  /\ verify_heap(heap)
  /\ \A i \in DOMAIN heap.timers : verify_watcher(heap.timers[i].w)
  /\ verify_watcher(Prepare)

\* What ev_verify asserts holds between any two steps (ev.c:3105-3223): every entry
\* of the heap knows its place and is no earlier than its parent, and a pending
\* watcher is where it says in the queue; and no watcher is forgotten: one that is
\* active is in the heap or, once, in the list of its descriptor.
Verified ==
  /\ ev_verify
  /\ \A t \in Timers : heap.active[t] # 0 => heap.timers[heap.active[t]].w = t
  /\ \A w \in Ios, f \in AllFds \ {evpipe} :
       Cardinality({i \in DOMAIN anfds[f].head : anfds[f].head[i] = w})
         = IF fd[w] = f THEN 1 ELSE 0

\* A callback never runs for a watcher that was stopped and not started since,
\* whatever was pending when it was stopped; a timer that was restarted does not
\* answer for the deadline it had before.
NoCallbackAfterStop ==
  \A p \in Priorities : \A i \in DOMAIN pendings[p] :
    LET w == pendings[p][i].w
    IN  /\ w \notin stopped
        /\ w \in Timers /\ repeat[w] = 0 => heap.active[w] = 0

\* When the backend sleeps, everything the loop must serve ends the sleep: no timer
\* is due before it, every socket that is watched is registered in its current
\* generation, also one that got the descriptor of a socket closed before, nothing
\* else is, and no signal is left to be noticed later.
SleepMissesNothing ==
  phase = "poll" =>
    /\ \A i \in DOMAIN heap.timers :
         wake <= heap.timers[i].at \/ wake <= backend_mintime
    /\ \A f \in AllFds : anfds[f].reify = {}
    /\ LET watched == {f \in AllFds : anfds[f].head # << >>}
       IN  /\ backend = "epoll" => \A f \in AllFds :
                epoll[f] = IF f \in watched
                           THEN [events |-> Read, egen |-> anfds[f].egen] ELSE None
           /\ backend = "poll" => /\ {polls[i] : i \in DOMAIN polls} = watched
                                  /\ \A i \in DOMAIN polls : pollidxs[polls[i]] = i
           /\ backend = "select" => vec_ri = watched
    /\ sig_pending => evpipe \in ready \/ wake = 0

Overdue(t) == heap.active[t] # 0 /\ heap.timers[heap.active[t]].at < clock

\* A signal reaches its callback, a socket with something to read reaches the
\* callback that reads it, and a timer that has run out is found and made pending,
\* unless they are stopped or restarted; none is starved by the others.
EverythingIsServed ==
  /\ \A s \in SignalSet : s \in signals ~> running = s
  /\ \A w \in Ios : fd[w] # None /\ fd[w] \in ready ~> running = w \/ fd[w] = None
  /\ \A t \in Timers : Overdue(t) ~> pending[t] # 0 \/ ~Overdue(t)
===============================================================================
