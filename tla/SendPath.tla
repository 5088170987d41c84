------------------------------- MODULE SendPath -------------------------------
(***************************************************************************)
(* From the encoder to the network: from_normal_to_fec and                 *)
(* delay_send_batch (misc.cpp), delay_manager_t::add and check             *)
(* (delay_manager.cpp), my_send and my_send_batch (packet.cpp).            *)
(*                                                                         *)
(* A call hands the encoder a packet, or its timer's empty one, takes what *)
(* output() returns, gives every datagram a delay, and sends, queues or    *)
(* drops it.  The datagrams point into the encoder's input_buf, and        *)
(* sending cooks them where they are.                                      *)
(***************************************************************************)
EXTENDS FecEncode

CONSTANT Options    \* the command lines the process may have been started with

\* jitter and interval are between a least and a greatest delay; rewrites says that
\* cooking changes the bytes (a key is set or obscuring is on).
ASSUME OptionsAssumption ==
  Options \subseteq
    [disable_fec : BOOLEAN, fix_latency : BOOLEAN, random_drop : BOOLEAN,
     rewrites : BOOLEAN, capacity : Nat,
     jitter : [min : Nat, max : Nat], interval : [min : Nat, max : Nat]]

VARIABLES
  opt,        \* the options of this process
  cooked,     \* indices of input_buf whose packet has been cooked there
  delay_mp,   \* the datagrams that wait: [left, d], left ticks from leaving
  plain,      \* history: packets that came while FEC is disabled
  wire        \* history: the datagrams that left

sendVars == <<cooked, delay_mp, plain, wire>>

allVars == <<vars, opt, sendVars>>

-----------------------------------------------------------------------------
(* from_normal_to_fec: what leaves, and when *)

\* first_packet_time is `age` ticks ago; a group of one packet has just begun.
SinceFirstPacket == IF counter = 0 THEN 0 ELSE age

\* Mutant: the whole timeout, whenever the group was finished.
CommonLatencyFromNow(o) ==
  IF opt.fix_latency /\ o.mode = 0 THEN fec_par'.timeout ELSE 0

\* --fix-latency: a group finished early waits for what is left of its timeout.
CommonLatency(o) ==
  IF opt.fix_latency /\ o.mode = 0 /\ fec_par'.timeout >= SinceFirstPacket
  THEN fec_par'.timeout - SinceFirstPacket
  ELSE 0

\* What a random number modulo the number of delays can give.
random_between(r) == {r.min + (n % (r.max + 1 - r.min)) : n \in 0 .. r.max}

\* Jitter for the first datagram, a share of an interval more for each that follows.
Scatters(n) ==
  LET Jitter == random_between(opt.jitter)
      Shares == {v \div (n - 1) : v \in random_between(opt.interval)}
  IN  {c \in [1 .. n -> 0 .. opt.jitter.max + opt.interval.max] :
         /\ n > 0 => c[1] \in Jitter
         /\ \A i \in 2 .. n : c[i] - c[i - 1] \in Shares}

\* append() writes the packet over whatever the buffer held.
CookedAtCoding(o) == IF Len(o.data) = 1 /\ o.mode = 1 THEN cooked \ {counter + 1} ELSE cooked

\* A datagram of the call's output.  Redundancy is coded over the packets as
\* they lie in input_buf, if mode 1 keeps them there; blob output is copied.
Datagram(o, index, scatter) ==
  [seq |-> o.seq, index |-> index, mode |-> o.mode,
   redundant |-> o.x # 0 /\ index >= o.x,
   clean |-> (o.mode = 1 /\ o.x # 0 /\ index >= o.x) => CookedAtCoding(o) = {},
   ids |-> {o.data[i] : i \in DOMAIN o.data},
   needed |-> IF o.mode = 0 THEN o.x ELSE 1,
   timeout |-> fec_par'.timeout, scatter |-> scatter,
   latency |-> SinceFirstPacket]

-----------------------------------------------------------------------------
(* delay_send_batch, delay_send, delay_manager_t::add, my_send              *)

\* Mutant: a datagram is cooked where it is also when it has to wait.
AddCookedInPlace(s, d, delay) ==
  IF opt.capacity # 0 /\ Cardinality(s.queue) >= opt.capacity THEN s
  ELSE [s EXCEPT !.cooked = @ \cup {d.index + 1},
                 !.queue = @ \cup {[left |-> delay, d |-> d]}]

\* At the capacity everything is refused.  Without a delay the caller's buffer
\* is cooked and sent; with one a copy waits.
Add(s, d, delay) ==
  IF opt.capacity # 0 /\ Cardinality(s.queue) >= opt.capacity
  THEN s
  ELSE IF delay = 0
       THEN [s EXCEPT !.cooked = @ \cup {d.index + 1}, !.wire = @ \cup {d}]
       ELSE [s EXCEPT !.queue = @ \cup {[left |-> delay, d |-> d]}]

\* Several datagrams without delay leave in one sendmmsg, past the queue.
SendBatch(s, ds) ==
  [s EXCEPT !.cooked = @ \cup {ds[i].index + 1 : i \in DOMAIN ds},
            !.wire = @ \cup {ds[i] : i \in DOMAIN ds}]

AtOnce(ds, delays) ==
  Len(ds) > 1 /\ ~opt.random_drop /\ \A i \in DOMAIN ds : delays[i] = 0

\* What the first i delay_send calls of a batch leave behind.  Datagrams that
\* --random-drop takes out are neither cooked nor sent.
OneByOne(s, ds, delays, dropped) ==
  LET after[i \in 0 .. Len(ds)] ==
        IF i = 0 THEN s
        ELSE IF i \in dropped THEN after[i - 1]
        ELSE Add(after[i - 1], ds[i], delays[i])
  IN  after

DelaySendBatch(s, ds, delays, dropped) ==
  IF AtOnce(ds, delays) THEN SendBatch(s, ds) ELSE OneByOne(s, ds, delays, dropped)[Len(ds)]

\* The shards of a call's output are consecutive, and output() hands them out in order.
InOrder(shards) ==
  LET first == CHOOSE i \in shards : \A j \in shards : i <= j
  IN  [i \in 1 .. Cardinality(shards) |-> first + i - 1]

\* What becomes of `output'`, the result of the encoder's step in this call.
\* The buffers that matter later are those of the group being collected.
Send ==
  LET o       == output'
      shards  == InOrder(o.shards)
      n       == Len(shards)
  IN  \E scatter \in Scatters(n) :
      \E dropped \in IF opt.random_drop THEN SUBSET (1 .. n) ELSE {{}} :
        LET ds     == [i \in 1 .. n |-> Datagram(o, shards[i], scatter[i])]
            delays == [i \in 1 .. n |-> CommonLatency(o) + scatter[i]]
            s      == DelaySendBatch([queue |-> delay_mp, wire |-> wire,
                                      cooked |-> CookedAtCoding(o)],
                                     ds, delays, dropped)
        IN  /\ delay_mp' = s.queue
            /\ wire' = s.wire
            /\ cooked' = IF opt.rewrites /\ fec_par'.mode = 1
                         THEN s.cooked \cap (1 .. counter')
                         ELSE {}

\* A packet from the application, and the encoder's timer.
SendPacket(len) == ~opt.disable_fec /\ Input(len) /\ Send /\ UNCHANGED <<opt, plain>>

SendTimeout == Timeout /\ Send /\ UNCHANGED <<opt, plain>>

\* --disable-fec: a packet passes the encoder by as a datagram of its own, which is
\* dropped, or refused by a full queue, like any other, but never delayed.
Plain(n) ==
  [seq |-> -n, index |-> 0, mode |-> 0, redundant |-> FALSE, clean |-> TRUE,
   ids |-> {n}, needed |-> 1, timeout |-> 0, scatter |-> 0, latency |-> 0]

SendPlain ==
  /\ opt.disable_fec
  /\ plain < MaxPackets
  /\ plain' = plain + 1
  /\ \E dropped \in IF opt.random_drop THEN SUBSET {1} ELSE {{}} :
       wire' = DelaySendBatch([queue |-> delay_mp, wire |-> wire, cooked |-> {}],
                              <<Plain(plain')>>, <<0>>, dropped).wire
  /\ UNCHANGED <<vars, opt, cooked, delay_mp>>

\* Mutant: with the first datagram that is due the map is cleared.
SendDueAndClear ==
  /\ \E e \in delay_mp : e.left = 0
  /\ wire' = wire \cup {e.d : e \in {f \in delay_mp : f.left = 0}}
  /\ delay_mp' = {}
  /\ UNCHANGED <<vars, opt, cooked, plain>>

\* delay_manager_t::check.
SendDue ==
  /\ \E e \in delay_mp : e.left = 0
  /\ wire' = wire \cup {e.d : e \in {f \in delay_mp : f.left = 0}}
  /\ delay_mp' = {e \in delay_mp : e.left # 0}
  /\ UNCHANGED <<vars, opt, cooked, plain>>

\* A command is read from the fifo.
SendCommand(c) == HandleCommand(c) /\ UNCHANGED <<opt, sendVars>>

\* The loop serves what is due before it lets more time pass.
TimePasses ==
  /\ timer # 0
  /\ \A e \in delay_mp : e.left # 0
  /\ timer # Off \/ delay_mp # {}
  /\ timer' = IF timer = Off THEN Off ELSE timer - 1
  /\ age' = IF timer = Off THEN age ELSE age + 1
  /\ delay_mp' = {[e EXCEPT !.left = @ - 1, !.d.latency = @ + 1] : e \in delay_mp}
  /\ UNCHANGED <<g_fec_par, fec_par, seq, counter, current_len, pending, output,
                 accepted, emitted, sent_shards, sent_count, commands,
                 opt, cooked, plain, wire>>

-----------------------------------------------------------------------------

SendInit ==
  /\ Init
  /\ opt \in Options
  /\ cooked = {}
  /\ delay_mp = {}
  /\ plain = 0
  /\ wire = {}

SendNext ==
  \/ \E len \in Lens : SendPacket(len)
  \/ SendPlain
  \/ SendTimeout
  \/ SendDue
  \/ TimePasses
  \/ \E c \in Commands : SendCommand(c)

SendSpec == SendInit /\ [][SendNext]_allVars

\* The loop keeps turning: due timers are served and time passes.
FairSendSpec ==
  /\ SendSpec
  /\ WF_allVars(SendTimeout)
  /\ WF_allVars(SendDue)
  /\ WF_allVars(TimePasses)

-----------------------------------------------------------------------------
(* Properties *)

\* "As an erasure code, it can correct up to t known erasures" (README.md, How
\* does it work): redundancy is computed over the packets the application sent,
\* so that it restores them at the other end.
RedundancyCoversPackets ==
  \A d \in wire \cup {e.d : e \in delay_mp} : d.clean

\* The only way redundancy is spoiled is cooking in place: a packet of that
\* group left without a delay, in mode 1, while cooking changes its bytes.
OnlyInPlaceCookingSpoils ==
  \A d \in wire \cup {e.d : e \in delay_mp} :
    ~d.clean =>
      /\ opt.rewrites
      /\ \E e \in wire : /\ e.seq = d.seq
                         /\ e.mode = 1
                         /\ ~e.redundant
                         /\ e.index < d.index
                         /\ e.scatter = 0

\* --fix-latency: what a group's datagrams waited since its first packet does
\* not depend on how the group was finished; it is the group's timeout, plus
\* the jitter and interval asked for.
StableLatency ==
  opt.fix_latency =>
    \A d \in wire : d.mode = 0 => d.latency = d.timeout + d.scatter

\* Collecting, fixing the latency and scattering never add up: in either mode, whatever
\* ended the group and whatever was commanded meanwhile, a datagram leaves, and what
\* waits will have left, within the group's timeout and its own scatter of the group's
\* first packet.
NothingWaitsTooLong ==
  /\ \A d \in wire : d.latency <= d.timeout + d.scatter
  /\ \A e \in delay_mp : e.left + e.d.latency <= e.d.timeout + e.d.scatter

\* Enough of its group's datagrams left to restore the packet.
HasLeft(i) ==
  \E d \in wire :
    /\ i \in d.ids
    /\ Cardinality({e \in wire : e.seq = d.seq /\ i \in e.ids}) >= d.needed

\* Every packet that the encoder accepted, or that passed it by, leaves with enough
\* shards to restore it, whatever ends its group and however its datagrams are
\* scattered, unless they are dropped on purpose or the queue may be full.
EveryPacketLeaves ==
  \A i \in 1 .. MaxPackets :
    i <= accepted + plain /\ ~opt.random_drop /\ opt.capacity = 0 ~> HasLeft(i)
===============================================================================
