------------------------------ MODULE FecEncode ------------------------------
(***************************************************************************)
(* The sending half of the FEC layer: fec_encode_manager_t                 *)
(* (fec_manager.h, fec_manager.cpp), its flush timer, and the commands     *)
(* that change the global parameters while it runs (misc.cpp).             *)
(*                                                                         *)
(* One step is one call of from_normal_to_fec (misc.cpp): input(), then    *)
(* output().  A packet is its arrival number and its length; a datagram is *)
(* the header the encoder writes and the packets its shard carries.        *)
(***************************************************************************)
EXTENDS Integers, Sequences, FiniteSets

CONSTANTS
  Lens,            \* lengths of the packets the application sends
  InitPar,         \* the parameters from the command line
  Commands,        \* the commands the fifo may deliver, already range-checked
  HeaderOverhead,  \* 40 in the code: bytes a datagram costs beyond its shard
  ShortPacketOptimize,
  SeqMod,          \* 2^32 in the code
  FirstSeq,        \* the random sequence number the encoder starts with
  Off,             \* the flush timer is not running
  MaxPackets,      \* bound: packets accepted in a behaviour
  MaxCommands      \* bound: commands in a behaviour

\* fec_parameter_t; rs[x] is the y that goes with x, and the last x is the tail.
Parameters ==
  [version : Nat, mtu : Nat, queue_len : Nat \ {0}, timeout : Nat,
   mode : {0, 1}, rs : Seq(Nat) \ {<< >>}]

ASSUME ParametersAssumption == InitPar \in Parameters

ASSUME CommandsAssumption ==
  \A c \in Commands :
    \/ c.cmd = "fec" /\ c.value \in Seq(Nat) \ {<< >>}
    \/ c.cmd = "mtu" /\ c.value \in Nat
    \/ c.cmd = "queue-len" /\ c.value \in Nat \ {0}
    \/ c.cmd = "timeout" /\ c.value \in Nat
    \/ c.cmd = "mode" /\ c.value \in {0, 1}

ASSUME SizesAssumption ==
  /\ Lens \subseteq Nat
  /\ HeaderOverhead \in Nat
  /\ SeqMod \in Nat \ {0}
  /\ FirstSeq \in 0 .. SeqMod - 1
  /\ Off \notin Nat
  /\ ShortPacketOptimize \in BOOLEAN

VARIABLES
  g_fec_par,    \* the global parameters, written by commands
  fec_par,      \* the encoder's copy
  seq,          \* sequence number of the group being collected
  counter,      \* packets in the group being collected
  current_len,  \* blob_encode.current_len
  pending,      \* the packets of the group: records [id, len]
  timer,        \* ticks until the flush timer fires, or Off
  output,       \* what the last call handed to the network
  accepted,     \* history: how many packets were accepted; the last one's id
  emitted,      \* history: ids in the order their data left
  sent_shards,  \* history: <<seq, inner_index, first packet of the group>>
  sent_count,   \* history: how many datagrams left
  age,          \* history: ticks since the first pending packet was accepted
  commands      \* history: how many commands were handled

history == <<accepted, emitted, sent_shards, sent_count, age, commands>>

vars == <<g_fec_par, fec_par, seq, counter, current_len, pending, timer,
          output, history>>

-----------------------------------------------------------------------------
(* blob_encode_t and fec_parameter_t *)

RoundUpDiv(a, b) == (a + b - 1) \div b

BlobHeader == 4    \* current_len of an empty blob: the u32 packet count

LenField == 2      \* the u16 in front of every packet

TailX(par) == Len(par.rs)

\* get_shard_len(n, next): the shard length if a packet of length next joined.
ShardLenWith(blob_len, n, next) == RoundUpDiv(blob_len + LenField + next, n)

\* Mutant of CurrentPar: new parameters are picked up in the middle of a group.
CurrentParAnyTime == IF fec_par.version # g_fec_par.version THEN g_fec_par ELSE fec_par

\* input() picks up new parameters only between groups, and only if the
\* version moved.
CurrentPar ==
  IF counter = 0 /\ fec_par.version # g_fec_par.version THEN g_fec_par ELSE fec_par

-----------------------------------------------------------------------------
(* Flushing a group *)

Cost(par, blob_len, x) ==
  (ShardLenWith(blob_len, x, 0) + HeaderOverhead) * (x + par.rs[x])

\* Mutant of BestDataNum: the loop does not look at the mtu.
BestDataNumAnyLen(par, blob_len) ==
  CHOOSE x \in 1 .. TailX(par) :
    \A z \in 1 .. TailX(par) : Cost(par, blob_len, x) <= Cost(par, blob_len, z)

\* The short-packet loop: the first x below the tail that costs least, if it
\* costs less than the tail and its shards fit the mtu.
BestDataNum(par, blob_len) ==
  LET better == {x \in 1 .. TailX(par) - 1 :
                   /\ ShardLenWith(blob_len, x, 0) <= par.mtu
                   /\ Cost(par, blob_len, x) < Cost(par, blob_len, TailX(par))}
      best   == {x \in better :
                   \A z \in better : \/ Cost(par, blob_len, x) < Cost(par, blob_len, z)
                                     \/ /\ Cost(par, blob_len, x) = Cost(par, blob_len, z)
                                        /\ x <= z}
  IN  IF better = {} THEN TailX(par) ELSE CHOOSE x \in best : TRUE

DataNum(par, group, blob_len) ==
  IF par.mode = 1
  THEN Len(group)
  ELSE IF ShortPacketOptimize THEN BestDataNum(par, blob_len) ELSE TailX(par)

\* The length field plus the packet, as mode 1 stores it.
LongestPacket(group) ==
  CHOOSE n \in {p.len + LenField : p \in {group[i] : i \in DOMAIN group}} :
    \A i \in DOMAIN group : n >= group[i].len + LenField

Ids(group) == [i \in 1 .. Len(group) |-> group[i].id]

\* The datagrams of a finished group.  In mode 1 the earlier data packets have
\* already left: only the one that completed the group, if any, still goes out
\* in front of the redundancy.
Flushed(par, group, blob_len, last_is_new) ==
  LET x == DataNum(par, group, blob_len)
      y == par.rs[x]
  IN  IF par.mode = 0
      THEN [seq |-> seq, mode |-> 0, x |-> x, y |-> y,
            len |-> RoundUpDiv(blob_len, x), first |-> group[1].id,
            shards |-> 0 .. x + y - 1, data |-> Ids(group)]
      ELSE [seq |-> seq, mode |-> 1, x |-> x, y |-> y,
            len |-> LongestPacket(group), first |-> group[1].id,
            shards |-> (IF last_is_new THEN {x - 1} ELSE {}) \cup x .. x + y - 1,
            data |-> IF last_is_new THEN <<group[x].id>> ELSE << >>]

\* The mode-1 fast send: the packet leaves at once, with x and y unset.
FastSent(group) ==
  LET n == Len(group)
  IN  [seq |-> seq, mode |-> 1, x |-> 0, y |-> 0,
       len |-> group[n].len + LenField, first |-> group[1].id,
       shards |-> {n - 1}, data |-> <<group[n].id>>]

\* output() returned n = -1: nothing leaves.
NoOutput ==
  [seq |-> 0, mode |-> 0, x |-> 0, y |-> 0, len |-> 0, first |-> 0,
   shards |-> {}, data |-> << >>]

Output(o) ==
  /\ output' = o
  /\ emitted' = emitted \o o.data
  /\ sent_shards' = sent_shards \cup {<<o.seq, i, o.first>> : i \in o.shards}
  /\ sent_count' = sent_count + Cardinality(o.shards)

-----------------------------------------------------------------------------
(* fec_encode_manager_t::input *)

NewPacket(len) == [id |-> accepted + 1, len |-> len]

\* A packet that does not fit an empty blob is dropped.
TooLong(par, len) ==
  /\ par.mode = 0
  /\ counter = 0
  /\ ShardLenWith(current_len, TailX(par), len) > par.mtu

\* A packet that does not fit the blob any more waits for the next one.
Delayed(par, len) ==
  /\ par.mode = 0
  /\ counter > 0
  /\ ShardLenWith(current_len, TailX(par), len) > par.mtu

Fits(par, len) == ~TooLong(par, len) /\ ~Delayed(par, len)

\* The packet completes the group.
Completes(par) ==
  \/ par.mode = 0 /\ counter + 1 = par.queue_len
  \/ par.mode = 1 /\ counter + 1 = TailX(par)

AppendedLen(par, blob_len, len) ==
  IF par.mode = 0 THEN blob_len + LenField + len ELSE blob_len

RejectTooLong(len) ==
  /\ TooLong(CurrentPar, len)
  /\ fec_par' = CurrentPar
  /\ Output(NoOutput)
  /\ UNCHANGED <<g_fec_par, seq, counter, current_len, pending, timer,
                 accepted, age, commands>>

\* Mutant of Collect: every packet restarts the timer.
CollectRestartingTimer(len) ==
  LET par   == CurrentPar
      group == Append(pending, NewPacket(len))
  IN  /\ Fits(par, len)
      /\ ~Completes(par)
      /\ fec_par' = par
      /\ pending' = group
      /\ counter' = counter + 1
      /\ current_len' = AppendedLen(par, current_len, len)
      /\ timer' = par.timeout
      /\ age' = IF counter = 0 THEN 0 ELSE age
      /\ accepted' = accepted + 1
      /\ Output(IF par.mode = 1 THEN FastSent(group) ELSE NoOutput)
      /\ UNCHANGED <<g_fec_par, seq, commands>>

\* append() without a flush; the first packet of a group starts the timer.
Collect(len) ==
  LET par   == CurrentPar
      group == Append(pending, NewPacket(len))
  IN  /\ Fits(par, len)
      /\ ~Completes(par)
      /\ fec_par' = par
      /\ pending' = group
      /\ counter' = counter + 1
      /\ current_len' = AppendedLen(par, current_len, len)
      /\ timer' = IF counter = 0 THEN par.timeout ELSE timer
      /\ age' = IF counter = 0 THEN 0 ELSE age
      /\ accepted' = accepted + 1
      /\ Output(IF par.mode = 1 THEN FastSent(group) ELSE NoOutput)
      /\ UNCHANGED <<g_fec_par, seq, commands>>

GroupDoneSameSeq == UNCHANGED <<g_fec_par, commands, seq>>

\* What every flush leaves behind.
GroupDone ==
  /\ seq' = (seq + 1) % SeqMod
  /\ UNCHANGED <<g_fec_par, commands>>

\* append() makes the group full: it is flushed with the new packet.
CollectAndFlush(len) ==
  LET par   == CurrentPar
      group == Append(pending, NewPacket(len))
      blob  == AppendedLen(par, current_len, len)
  IN  /\ Fits(par, len)
      /\ Completes(par)
      /\ fec_par' = par
      /\ Output(Flushed(par, group, blob, TRUE))
      /\ GroupDone
      /\ counter' = 0
      /\ pending' = << >>
      /\ current_len' = BlobHeader
      /\ timer' = Off
      /\ age' = 0
      /\ accepted' = accepted + 1

\* Mutant of FlushAndCollect: counter is 0 only after append() has looked at it,
\* so the packet joins the next group without starting the timer.
FlushAndCollectWithoutTimer(len) ==
  LET par == CurrentPar
  IN  /\ Delayed(par, len)
      /\ fec_par' = par
      /\ Output(Flushed(par, pending, current_len, TRUE))
      /\ GroupDone
      /\ counter' = 1
      /\ pending' = <<NewPacket(len)>>
      /\ current_len' = AppendedLen(par, BlobHeader, len)
      /\ timer' = Off
      /\ age' = 0
      /\ accepted' = accepted + 1

\* Mutant of FlushAndCollect: the delayed packet is forgotten.
FlushAndForget(len) ==
  LET par == CurrentPar
  IN  /\ Delayed(par, len)
      /\ fec_par' = par
      /\ Output(Flushed(par, pending, current_len, TRUE))
      /\ GroupDone
      /\ counter' = 0
      /\ pending' = << >>
      /\ current_len' = BlobHeader
      /\ timer' = Off
      /\ age' = 0
      /\ accepted' = accepted + 1

\* delayed_append: the group is flushed without the new packet, which starts
\* the next one.
FlushAndCollect(len) ==
  LET par == CurrentPar
  IN  /\ Delayed(par, len)
      /\ fec_par' = par
      /\ Output(Flushed(par, pending, current_len, TRUE))
      /\ GroupDone
      /\ counter' = 1
      /\ pending' = <<NewPacket(len)>>
      /\ current_len' = AppendedLen(par, BlobHeader, len)
      /\ timer' = par.timeout
      /\ age' = 0
      /\ accepted' = accepted + 1

Input(len) ==
  /\ accepted < MaxPackets
  /\ \/ RejectTooLong(len)
     \/ Collect(len)
     \/ CollectAndFlush(len)
     \/ FlushAndCollect(len)

\* The timer's callback: input(0, 0).  It returns early when nothing is
\* pending; DeadlineTracksGroup shows the timer is not running then.
Timeout ==
  /\ timer = 0
  /\ counter > 0
  /\ fec_par' = CurrentPar
  /\ Output(Flushed(CurrentPar, pending, current_len, FALSE))
  /\ GroupDone
  /\ counter' = 0
  /\ pending' = << >>
  /\ current_len' = BlobHeader
  /\ timer' = Off
  /\ age' = 0
  /\ UNCHANGED accepted

-----------------------------------------------------------------------------
(* The environment: time and the command fifo *)

\* The event loop runs a due timer before it lets more time pass.
Tick ==
  /\ timer # Off
  /\ timer # 0
  /\ timer' = timer - 1
  /\ age' = age + 1
  /\ UNCHANGED <<g_fec_par, fec_par, seq, counter, current_len, pending,
                 output, accepted, emitted, sent_shards, sent_count, commands>>

\* handle_command: the commands fec and mode move the version, the others do
\* not.
CommandResult(c) ==
  CASE c.cmd = "fec" ->
         [g_fec_par EXCEPT !.rs = c.value, !.version = @ + 1]
    [] c.cmd = "mode" ->
         IF g_fec_par.mode = c.value THEN g_fec_par
         ELSE [g_fec_par EXCEPT !.mode = c.value, !.version = @ + 1]
    [] c.cmd = "mtu"       -> [g_fec_par EXCEPT !.mtu = c.value]
    [] c.cmd = "queue-len" -> [g_fec_par EXCEPT !.queue_len = c.value]
    [] c.cmd = "timeout"   -> [g_fec_par EXCEPT !.timeout = c.value]

HandleCommand(c) ==
  /\ commands < MaxCommands
  /\ commands' = commands + 1
  /\ g_fec_par' = CommandResult(c)
  /\ UNCHANGED <<fec_par, seq, counter, current_len, pending, timer, output,
                 accepted, emitted, sent_shards, sent_count, age>>

-----------------------------------------------------------------------------

Init ==
  /\ g_fec_par = InitPar
  /\ fec_par = InitPar
  /\ seq = FirstSeq
  /\ counter = 0
  /\ current_len = BlobHeader
  /\ pending = << >>
  /\ timer = Off
  /\ output = NoOutput
  /\ accepted = 0
  /\ emitted = << >>
  /\ sent_shards = {}
  /\ sent_count = 0
  /\ age = 0
  /\ commands = 0

Next ==
  \/ \E len \in Lens : Input(len)
  \/ Timeout
  \/ Tick
  \/ \E c \in Commands : HandleCommand(c)

Spec == Init /\ [][Next]_vars

\* The event loop keeps running: time passes and a due timer is served.
FairSpec == Spec /\ WF_vars(Tick) /\ WF_vars(Timeout)

-----------------------------------------------------------------------------
(* Properties *)

\* The parameters stay usable, the sequence number wraps at its width, and the
\* group holds packets.
TypeOK ==
  /\ g_fec_par \in Parameters
  /\ fec_par \in Parameters
  /\ seq \in 0 .. SeqMod - 1
  /\ counter \in Nat
  /\ current_len \in Nat
  /\ pending \in Seq([id : Nat, len : Nat])
  /\ timer \in Nat \cup {Off}
  /\ accepted \in Nat
  /\ age \in Nat

\* The flush timer runs exactly while a group is being collected, and always
\* for what is left of that group's own timeout: no flush, delayed append or
\* rejected packet leaves a group without a deadline, gives it the deadline of
\* an earlier group, or lets the timer fire on an empty group.
DeadlineTracksGroup ==
  /\ counter = Len(pending)
  /\ counter = 0 <=> timer = Off
  /\ timer # Off => timer + age = fec_par.timeout

\* The assertions at the top of input(): a group that reached its limit has
\* been flushed, through every way a packet can be added and whatever commands
\* arrived since (fec_manager.cpp:237-238).
GroupBelowLimit ==
  /\ fec_par.mode = 0 => counter < fec_par.queue_len
  /\ fec_par.mode = 1 => counter < TailX(fec_par)

\* A group ends: it is below its limit and its own timer runs.
GroupIsBounded == DeadlineTracksGroup /\ GroupBelowLimit

\* Every accepted packet's data leaves exactly once and in order: in mode 0
\* with the flush of its group, in mode 1 at once.
InOrderExactlyOnce ==
  emitted \o (IF fec_par.mode = 0 THEN Ids(pending) ELSE << >>)
    = [i \in 1 .. accepted |-> i]

\* What the decoder relies on: two datagrams with the same sequence number
\* belong to the same group, and no shard number is used twice in it.
SeqNamesOneGroup ==
  /\ \A a, b \in sent_shards : a[1] = b[1] => a[3] = b[3]
  /\ Cardinality({<<a[1], a[2]>> : a \in sent_shards}) = sent_count

\* A mode-0 datagram is longer than the mtu only if a single packet, accepted
\* behind a full group, is too long by itself.
OversizedOnlyAlone ==
  output.mode = 0 /\ output.len > fec_par.mtu
    => Len(output.data) = 1

\* A group is coded with one setting from its first packet to its last, and
\* that setting has the redundancy and the mode commanded last when the group
\* was started from an empty encoder.
OneSettingPerGroup ==
  [][/\ counter > 0 => fec_par' = fec_par
     /\ counter = 0 /\ accepted' # accepted =>
          /\ fec_par'.rs = g_fec_par.rs
          /\ fec_par'.mode = g_fec_par.mode]_vars

PendingIds == {pending[i].id : i \in DOMAIN pending}

\* No packet waits for ever: its group is flushed even if no packet follows.
EveryGroupFlushed ==
  \A i \in 1 .. MaxPackets : i \in PendingIds ~> i \notin PendingIds
=============================================================================
