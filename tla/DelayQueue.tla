------------------------------- MODULE DelayQueue -------------------------------
(***************************************************************************)
(* The delayed datagrams of one process: delay_manager_t                   *)
(* (delay_manager.cpp) and the part of the event loop that drives it.      *)
(*                                                                         *)
(* The loop runs callbacks, which add datagrams; then the prepare callback *)
(* calls check(), which sends what is due and arms the timer; then the     *)
(* loop sleeps.  The timer's own callback does nothing: the timer is there *)
(* to end the sleep.  A datagram is the number of the call that added it.  *)
(***************************************************************************)
EXTENDS Integers, Sequences, FiniteSets

CONSTANTS
  Delays,    \* the delays callers ask for
  capacity,  \* --delay-capacity, 0 for none
  Off,       \* the timer is not running
  MaxStale,  \* how far libev's idea of the time may lag behind the clock
  MaxTime,   \* bound: the last moment of a behaviour
  MaxAdds    \* bound: calls of add()

ASSUME DelayAssumption ==
  /\ Delays \subseteq Nat
  /\ capacity \in Nat
  /\ Off \notin Nat
  /\ MaxStale \in Nat
  /\ MaxTime \in Nat
  /\ MaxAdds \in Nat

VARIABLES
  now,       \* get_current_time_us()
  delay_mp,  \* the multimap in its order: records [due, id]
  timer,     \* when the timer fires, or Off
  phase,     \* "callbacks", "check", "arm" or "asleep"
  added,     \* history: the due time of every datagram accepted so far
  sent       \* history: datagrams in the order they were sent, [id, at]

vars == <<now, delay_mp, timer, phase, added, sent>>

Accepted == 1 .. Len(added)

Init ==
  /\ now = 0
  /\ delay_mp = << >>
  /\ timer = Off
  /\ phase = "callbacks"
  /\ added = << >>
  /\ sent = << >>

-----------------------------------------------------------------------------
(* delay_manager_t::add.  A call at the capacity is refused and leaves no  *)
(* trace.                                                                  *)

HasRoom == capacity = 0 \/ Len(delay_mp) < capacity

Bounded(delay) == Len(added) < MaxAdds /\ now + delay <= MaxTime

AddAtOnce ==
  /\ phase = "callbacks"
  /\ 0 \in Delays /\ Bounded(0)
  /\ HasRoom
  /\ added' = Append(added, now)
  /\ sent' = Append(sent, [id |-> Len(added) + 1, at |-> now])
  /\ UNCHANGED <<now, delay_mp, timer, phase>>

InsertedAfter(k, e) ==
  [i \in 1 .. Len(delay_mp) + 1 |->
     IF i <= k THEN delay_mp[i] ELSE IF i = k + 1 THEN e ELSE delay_mp[i - 1]]

\* Mutant: the datagram goes before those due at the same time or earlier.
UpperBoundAtFront(k, due) == k = 0

\* multimap::insert: behind everything due no later.
UpperBound(k, due) ==
  /\ \A i \in 1 .. k : delay_mp[i].due <= due
  /\ \A i \in k + 1 .. Len(delay_mp) : delay_mp[i].due > due

AddDelayed(delay) ==
  /\ phase = "callbacks"
  /\ delay > 0 /\ Bounded(delay)
  /\ HasRoom
  /\ added' = Append(added, now + delay)
  /\ \E k \in 0 .. Len(delay_mp) :
       /\ UpperBound(k, now + delay)
       /\ delay_mp' = InsertedAfter(k, [due |-> now + delay, id |-> Len(added) + 1])
  /\ UNCHANGED <<now, timer, phase, sent>>

-----------------------------------------------------------------------------
(* delay_manager_t::check, called before the loop sleeps.  The clock is    *)
(* read again for every datagram and once more for the timer.              *)

\* An empty queue is left alone, timer and all.
CheckNothing ==
  /\ phase = "callbacks"
  /\ delay_mp = << >>
  /\ phase' = "asleep"
  /\ UNCHANGED <<now, delay_mp, timer, added, sent>>

CheckStart ==
  /\ phase = "callbacks"
  /\ delay_mp # << >>
  /\ phase' = "check"
  /\ UNCHANGED <<now, delay_mp, timer, added, sent>>

IsDue == delay_mp # << >> /\ Head(delay_mp).due <= now

\* Mutant: the datagram is sent but stays in the map.
SendAndKeep ==
  /\ phase = "check"
  /\ IsDue
  /\ sent' = Append(sent, [id |-> Head(delay_mp).id, at |-> now])
  /\ UNCHANGED <<now, delay_mp, timer, phase, added>>

SendDue ==
  /\ phase = "check"
  /\ IsDue
  /\ sent' = Append(sent, [id |-> Head(delay_mp).id, at |-> now])
  /\ delay_mp' = Tail(delay_mp)
  /\ UNCHANGED <<now, timer, phase, added>>

NothingDue ==
  /\ phase = "check"
  /\ ~IsDue
  /\ phase' = "arm"
  /\ UNCHANGED <<now, delay_mp, timer, added, sent>>

\* Mutant: a timer that runs is left as it is.
ArmIfOff(due) == timer' = IF timer = Off THEN due ELSE timer

\* Mutant: the timer is not armed again.
ArmForgotten(due) == timer' = timer

\* libev counts the timer from the start of the loop's iteration, up to MaxStale
\* ago.  The first due time may have passed since NothingDue.
Arm(due) ==
  \E stale \in 0 .. MaxStale :
    /\ stale <= now
    /\ timer' = (IF due > now THEN due ELSE now) - stale

CheckDone ==
  /\ phase = "arm"
  /\ IF delay_mp = << >> THEN timer' = Off ELSE Arm(Head(delay_mp).due)
  /\ phase' = "asleep"
  /\ UNCHANGED <<now, delay_mp, added, sent>>

-----------------------------------------------------------------------------
(* The event loop *)

TimerIsDue == timer # Off /\ timer <= now

\* The loop wakes for its timer or for any other event; a due timer has fired
\* and is off.
Wake ==
  /\ phase = "asleep"
  /\ phase' = "callbacks"
  /\ timer' = IF TimerIsDue THEN Off ELSE timer
  /\ UNCHANGED <<now, delay_mp, added, sent>>

\* Time passes, but the loop does not sleep through a due timer.
Tick ==
  /\ now < MaxTime
  /\ phase = "asleep" => ~TimerIsDue
  /\ now' = now + 1
  /\ UNCHANGED <<delay_mp, timer, phase, added, sent>>

Check == CheckNothing \/ CheckStart \/ SendDue \/ NothingDue \/ CheckDone

Next ==
  \/ AddAtOnce
  \/ \E delay \in Delays : AddDelayed(delay)
  \/ Check
  \/ Wake
  \/ Tick

Spec == Init /\ [][Next]_vars

\* Callbacks return, check() runs before every sleep, due timers end the sleep
\* and time passes, however often the loop wakes in between.
FairSpec ==
  /\ Spec
  /\ WF_vars(Check)
  /\ WF_vars(Wake /\ TimerIsDue)
  /\ SF_vars(Tick)

-----------------------------------------------------------------------------
(* Properties *)

\* Every variable has its type.
TypeOK ==
  /\ now \in Nat
  /\ delay_mp \in Seq([due : Nat, id : Nat])
  /\ timer \in Nat \cup {Off}
  /\ phase \in {"callbacks", "check", "arm", "asleep"}
  /\ added \in Seq(Nat)
  /\ sent \in Seq([id : Nat, at : Nat])

\* While the loop sleeps its timer ends the sleep at the first due time, or at once
\* if that has passed, although only check() moves the timer and datagrams are added
\* in front of those it was set for.
WakesWhenDue ==
  phase = "asleep" /\ delay_mp # << >> =>
    timer # Off /\ (timer <= now \/ timer <= Head(delay_mp).due)

\* A datagram that was accepted is either waiting or sent, and sent once.
QueuedOrSentOnce ==
  /\ {delay_mp[i].id : i \in DOMAIN delay_mp} \cup {sent[i].id : i \in DOMAIN sent}
       = Accepted
  /\ Len(delay_mp) + Len(sent) = Len(added)

\* None leaves before its time.
NotEarly == \A i \in DOMAIN sent : sent[i].at >= added[sent[i].id]

\* Of two datagrams waiting together the one due first is the first to leave, and
\* of two due at the same time the one added first: the order of a batch survives.
QueueInOrder ==
  \A i, j \in DOMAIN delay_mp : i < j =>
    \/ delay_mp[i].due < delay_mp[j].due
    \/ delay_mp[i].due = delay_mp[j].due /\ delay_mp[i].id < delay_mp[j].id

\* README.md, --delay-capacity: max number of delayed packets.
CapacityHolds == capacity # 0 => Len(delay_mp) <= capacity

\* What the delays promise: no datagram leaves early and the order is kept.
InOrderNotEarly == QueueInOrder /\ NotEarly

\* Every accepted datagram leaves.
EverythingLeaves ==
  \A d \in 1 .. MaxAdds :
    d \in Accepted ~> \E i \in DOMAIN sent : sent[i].id = d

================================================================================
