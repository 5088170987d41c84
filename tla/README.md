# UDPspeeder in TLA+

UDPspeeder is a UDP tunnel that adds forward error correction (FEC).  A client
and a server each run one single-threaded libev loop.  Datagrams of the
application are collected into *groups*; a group of `x` data shards is sent with
`y` redundant shards, and the peer recovers the group from any `x` of them.

This directory holds TLA+ models of the program from the command line to the event
loop, TLC configurations that check them on small instances, and TLAPS proofs of
their main properties for every size, parameter and traffic.

## The system

| component | state | operations | hard parts |
|---|---|---|---|
| FEC encoder (`fec_encode_manager_t`) | parameters in use, packets of the current group, `seq`, `counter`, flush timer | `input` (a packet, or nothing when the timer fires), `append`, `output` | delayed append, timer against a full group, parameters replaced while a group is open |
| FEC decoder (`fec_decode_manager_t`) | packet ring `fec_data`, direct-mapped `group_table` with shard bitmaps, direct-mapped `anti_replay` table, `index` | `input` (a datagram), `output` | loss, duplicates, reordering; the ring overwrites shards that maps point at; slots of both tables are shared |
| parameters and fifo (`fec_parameter_t`, `handle_command`) | global parameters and their version | `fec`, `mode`, `mtu`, `queue-len`, `timeout` commands | commands between and inside groups; interpolated redundancy |
| blob codec (`blob_encode_t`, `blob_decode_t`) | one byte buffer | `input`, `output`, `clear` | lengths decide when a group is flushed; lengths read from decoded bytes |
| Reed-Solomon code (`lib/`) | tables of the field, codes by k and n | `rs_encode2`, `rs_decode2` | the shuffle before decoding, pivots off the diagonal, four vector widths |
| crc32 library, crc32c | tables | checksums, `crc32_combine` | many implementations, chosen at run time |
| packet cooking | none | checksum, obscure, xor, in place | order and lengths; wide vectors; changes a buffer somebody else still owns |
| sending (`from_normal_to_fec`, `delay_send`, `my_send`) | buffers and the delay queue | batch, delay, drop, cook, send | which datagrams are delayed, cooked where, and how long a packet waits |
| delay manager | multimap of due times, a timer | `add`, `check` | capacity; timer armed only before the loop sleeps, while the clock moves on |
| conversation manager, LRU | two maps and a list ordered by last use | insert, find, update, erase, `clear_inactive` | maps, list and sockets must agree; clearing is incremental |
| connection manager (server) | address to connection, clear iterator | `find_insert`, `erase`, `clear_inactive` | iterator kept between calls; watchers hold pointers to connections |
| fd manager | fd to 64-bit id | `create`, `fd64_close`, `to_fd` | the kernel reuses fds, ids are never reused |
| client and server tunnels | sockets, one connection or many | packet, timer and fifo callbacks | order of callbacks in one loop iteration; conversations expire at both ends independently |
| event loop (libev) | heap of timers, watchers by descriptor, pending queue, backend | start and stop of watchers, `ev_run` | descriptors reused behind its back, signals at any moment, stop while pending |
| command line | settings | `main`, `process_arg` | options given twice, half-read pairs, units |
| utilities | clock, random numbers, log | `get_current_time_us` | the wall clock is set back |
| io_uring, benchmarks | | | disabled, not part of the product |

A packet goes through `from_normal_to_fec` (encoder `input`, then `output`), is
cooked and sent or delayed; at the peer it is de-cooked and goes through
`from_fec_to_normal` (decoder `input`, then `output`).  The two tunnels call
these functions and keep conversations and sockets; the encoder and the decoder
share nothing but the datagrams.  All of it is single-threaded: an action of a
model is one callback, or one round of a callback's loop, or, in the event loop
itself, what lies between two places where a signal handler makes a difference.

What makes each part correct:

* encoder: every accepted packet leaves once and in order; a group never exceeds
  its limit, always has a deadline, has one number and one setting; numbers and
  shard indices are never reused.
* decoder: what it delivers is what was encoded, at most once; it delivers as soon
  as it can; a set bitmap bit always names the shard it promises.
* parameters: a command never changes a group under way and affects the next one;
  every number of packets has a group that the code can encode.
* algorithms (code, checksums, cooking, blobs, heap): each computes what its slower
  and simpler definition says, whichever implementation was chosen and whatever the
  lengths leave over; undoing gives back what was done.
* sending: what leaves suffices to restore every packet, no later than promised, and
  covers the packets and not something else.
* delay manager: nothing is sent early, twice or out of order, and the loop never
  sleeps past a due time.
* conversations and connections: the two maps are inverse, the LRU list has the
  same keys and is sorted, a socket belongs to exactly one conversation, watchers and
  timers only point at live connections; what is in use is kept, what is not is
  forgotten in the end; no application gets another's answers.
* event loop: a stopped watcher is silent, no sleep misses an event, everything that
  happened is served.
* command line: what is started has settings the rest is written for.

## Modules

`ShardWindow` is the abstract specification of the decoder: a window of the last
`Capacity` shards accepted, a set of closed groups, and three steps.  `Take` adds
a shard and, if its group then has enough shards, closes and delivers it;
`GiveUp` closes a group whose oldest shard would leave the window for a shard of
the same group; `Ignore` drops a datagram.  No tables, bitmaps, counters or slots.

`FecDecode` is the decoder.  One step is one call of `from_fec_to_normal`.
`Receive(p)` is the disjunction of the outcomes of `input`, one action each, in
the order of the code: `RejectHeader` (the checks at the top), `RejectReplay`,
`RefuseShard` (group done, duplicate, mismatch), `EvictSelf`, `Buffer`, `Decode`.
The blocks of the function are operators: `GroupFindOrCreate`, `GroupErase`,
`SetInvalid`, `GroupsAfterEviction`, `AboutToFec`, `DataCheck`, `FecResult`,
`FastSend`.  A datagram is its header and the *word* it is a shard of: shards of one
word recover it, shards of different words give `Garbage`; `MisSized` and
`Undecodable` are the datagrams and words that fail the length checks.
`shard_idx` is a function whose domain is the bitmap.  What `new fec_group_t[]`
leaves uninitialised is any member of `HeapGroups`.  `ready_for_output` never
survives a call and is folded into `output`; `delivered` and `redelivered` are
history.

`FecEncode` is the encoder with its flush timer and the fifo.  `Input(len)` is
`RejectTooLong`, `Collect`, `CollectAndFlush` or `FlushAndCollect` (the delayed
append); `Timeout` is the timer's callback, `input(0, 0)`; `HandleCommand` writes the
global parameters; `Tick` lets time pass.  A packet is its arrival number and its
length; a call's output is the header of the datagrams and the packets in them.
`CurrentPar` is the version check at the top of `input`, `Flushed` the datagrams of
a finished group with the short-packet search (`BestDataNum`).  The history
variables record what was accepted and emitted and the age of the group.

`SendPath` extends `FecEncode` to the network: `from_normal_to_fec` and what follows it.
`SendPacket`, `SendTimeout` and `SendPlain` (FEC disabled) take the output of the
encoder, give each datagram its delay from `fix_latency`, jitter and interval, drop
some, and hand the rest to the delay queue or to `my_send`, which cooks a datagram
where it lies: in mode 1 without a delay that is the encoder's `input_buf`, whose
cooked packets `cooked` names.  A batch without any delay goes past the queue in one
piece, as in the code.  `SendDue` is what `check()` sends when the time of a datagram
has come.  The options are a constant of the process.

`ConvManager` has the operations of `conv_manager_t` and `lru_collector_t` as operators on
a record.  The code compares time stamps only with timeouts, so a stamp is its age
in ticks, counted up to `Ancient`.  The constructor leaves `last_clear_time` unset, so
that stamp may lie ahead of the clock and its age be negative (`Stamps`), down to
`-Ancient`, so far ahead that the clock never gets there.  The code subtracts the signed
stamp from an unsigned time: of a stamp ahead of the clock the distance wraps and a
clearing is due at once, which then sets the stamp (`ClearIsDue`).

`ServerTunnel` is the server's event loop with its connections, conversations,
descriptors and libev watchers.  A callback without a loop is one action:
`RemotePacket`, `FecTimeout`.  A callback with a loop is one action to enter it and one per
iteration: a client's datagram (`PacketOfConnection`, `PacketOfNewConnection`, then
`DeliverToKnown`, `DeliverToNew` or `DropUndeliverable` for every packet the decoder recovers),
a connection's timer (`ConnTimerFires`, `ClearConv`, `ClearConvDone`) and the global timer
(`GlobalTimerFires`, `KeepConn`, `EraseConn`, `ClearConnDone`).  `work` holds the loop of the running
callback, and no other callback starts meanwhile.  `mp` is the hash table in its
iteration order, in which a new connection may appear anywhere: the table is reserved for
10007 entries and `max_conn_num` is 200, so it never rehashes and iterators stay valid.
`clear_it` starts as a default-constructed iterator, which is the table's end in libstdc++.
`Close` is `server_clear_function` with `fd64_close`.  What comes out of the decoder, and
what the encoder does to its timer, is any choice here.  The two history variables
count how long nothing was handled for a connection or a conversation.

`Relay` composes the client, over `ConvManager`, with one connection of the server, over
another record of the same kind, and what surrounds them: `AskFirst` and `AskAgain` are
the client's listening callback, `ClientReceives` and `ClientDrops` that of its socket to
the server, `ServerReceives`, `ServerOpens` and `ServerDrops` the server's, `ServiceAnswers`
the callback of a conversation's socket, and both ends have a timer that clears and a delay
queue whose entries name the destination as the code does, by address or by `fd64`.
A packet carries its conversation number and, as history, who asked.  The encoder and decoder are
the network, which loses, delays and reorders; the kernel hands out descriptors again.
Numbers are drawn from a small set, so that they are drawn again while somebody still
remembers them: `collided` marks that, and nothing is claimed afterwards.

`DelayQueue` is `delay_manager_t` and the phases of the loop that drive it: callbacks,
which `AddAtOnce` or `AddDelayed`; `check()`, one action per datagram sent, and another for arming
the timer, because the clock is read anew for each; sleep; `Wake`.  libev counts a
timer from its own reading of the clock, which may be `MaxStale` behind.

`EvLoop` is libev's `ev_run` on Linux with its backends epoll, poll and select and the watchers this
program uses: timers (a flush timer with a single shot, a connection's with a repeat), sockets that
callbacks open and close, the prepare watcher of the delay queue, and signals that
arrive between any two steps.  `phase` says where `ev_run` is; in a callback the program
calls `RestartTimer`, `StopTimer`, `OpenSocket`, `CloseSocket` and `StartSignal`.  A turn of the loop is
`Invoke`, `QueuePrepare`, `Reify` (`epoll_modify` with its generation counter, `poll_modify` with its index array or
`select_modify`), `StartPolling`, `PollReturns`, `StopWanting`, `Wake`, `TimerExpires` and `TimersDone`; `Raise` is the handler of
a signal, with `evpipe_write`.
The kernel's side is there too: which descriptors are open, what epoll has registered for them, and which are readable.
`TimerHeap` has libev's two heaps (two and four children) as operators on a record.

The remaining modules are pure algorithms.  `Bits` represents words as sets of bit numbers;
`Crc` has every implementation of the crc32 library and of `crc32c.h`, for any polynomial;
`RsCode` has the field for every degree, the vector multiplications and the choice among them,
elimination, the Vandermonde matrix, encoding and decoding; `PacketCook` has the xor with every
vector width, obscuring and the checksum; `BlobCodec` the blob format;
`FecParameter` the parser, table and printer of `-f` strings; `Options` the command line,
from the arguments `getopt_long` splits to the settings; `Clock` the corrected wall clock.
`Codecs` checks them: its single variable holds what is being computed, a step hands an input to
one of them, and each property compares the result with a definition that is slower and
simpler (polynomial division bit by bit, multiplication of polynomials, the place of every byte).

The modules `MC*` give the constants values for TLC; `MCFecArrivals` adds the set of
datagrams that have arrived.  The modules `*Proofs` hold the theorems.  Operators commented
as mutants are plausible bugs of the code; no specification uses them.

## Runs

| run | shows |
|---|---|
| `FecDecode_window` | the decoder implements `ShardWindow`; nothing is delivered twice; a recoverable group is always finished |
| `FecDecode_reuse` | maps never point at another group's shard and deliveries are genuine even when groups share slots of both tables and one group does not parse |
| `FecEncode` | the encoder's safety properties with every packet, timeout and command in every order; every group is flushed |
| `SendPath` | under four ways to configure delays and two without FEC: every packet leaves with enough shards and none is held longer than its group's timeout and its scatter, `--fix-latency` makes latency independent of what ended a group, and redundancy is spoiled in one way only |
| `DelayQueue` | order, due times, and the timer of a sleeping loop; every accepted datagram leaves, once |
| `ServerTunnel_safety` | sockets, watchers, managers and the clear iterator always agree; only what is idle is cleared; a conversation keeps its socket |
| `ServerTunnel_live` | what is silent is forgotten, however busy the rest is |
| `Relay` | applications are kept apart across two ends that forget independently, reused descriptors and delayed datagrams |
| `EvLoop` | `ev_verify` holds between any two steps, a stopped watcher is silent, no sleep misses an event, everything is served |
| `Codecs` | the algorithms compute what their reference definitions say, over enumerated inputs |
| `FecArrivals_mode1`, `SendPath_cook` | disagreements with the repository's tests and documentation, below |

Bounds.  The decoder has no bound on the number of steps: `Packets` is a finite set
from which any member arrives at any time, any number of times, so loss,
duplication and reordering need no action of their own.  In `FecDecode_window` a
ring of four slots and eleven datagrams of three groups (both modes) make the ring
wrap inside a group, evict finished and unfinished groups, and reach `EvictSelf`;
the groups fit both tables, as 2^15 replay slots fit the groups in flight in the
program.  `FecDecode_reuse` gives that up: groups 0, 4 and 8 share a replay slot, 0
and 8 a group slot, and the ring has three slots; such a collision loses a group but
never mixes two.  In `FecEncode` at most `MaxPackets = 4` packets and
`MaxCommands = 2` commands let every group end in every way (queue full, mode-1
tail, delayed append, timer) with new parameters pending; `SeqMod = 4` with
`FirstSeq = 2` makes the sequence number wrap.  Lengths 2, 9 and 18 against an mtu of 10
are a packet that shares a blob, one that fills it, and one that does not fit.
`SendPath` has three packets, one command and the six option records of `MCSendPath`; delays are of one
or two ticks, so that a group's datagrams overlap with the next group's, and three packets fill a group, so that
one can collect for its whole timeout.

`ServerTunnel_safety` has two clients, two conversation numbers and two descriptors, so that
clients compete for sockets and a closed descriptor is handed out again; `MaxFd64 = 3`
sockets in a behaviour, batches of up to two packets, so that descriptors run out inside one, and timeouts of one and two ticks with
`Ancient = 2`.  A clearing may remove `size \div 2 + 1` entries, less than all of them only
for two; `ServerTunnel_live` uses `\div 3`, so that every clearing visits one entry and
has to get round to the others, with timeouts of one tick, `Ancient = 1`, batches of one and two sockets.
`HeapStamps` is what an uninitialised `last_clear_time` may hold: any stamp for `ServerTunnel_live`, and
for `ServerTunnel_safety` one long past and one ahead of the clock.
`Relay` has two applications, two conversation numbers, two descriptors, two packets on the way, one
delayed datagram at each end and three sockets in a behaviour; that is enough for a socket, a
descriptor and a number to pass from one application to the other.
Applications and numbers are symmetric there.  The exploration stops at a collision (`UntilCollision`), after which the
properties hold vacuously.

`DelayQueue` has delays 0, 1 and 3 so that a later datagram overtakes an earlier one,
capacity 2, at most four datagrams and five moments: the queue fills, empties and
fills again.  `EvLoop` has a four-ary heap with two timers, two sockets that compete for one descriptor (two
with poll, whose array then moves an entry), one signal, generation counters that wrap at 2, a clock at
most two ticks ahead of the loop and one library call per callback: a callback that stops one
watcher and starts another is two callbacks there, with nothing between them that could not
happen anyway.  The connection's timer is only run with epoll, for time; heaps of up to eleven timers are checked in `Codecs`.
`Codecs` runs on the processor of `MCCpu`, with AVX2 and the crc32 instructions but without AVX-512,
GF(2^8) as in the program and every degree from 2 to 16 for the tables, groups of at most twelve shards, messages up to 73 bytes
(once and twice through the widest loops, and behind them), data up to 131 for the tile (twice through the loop of 64 and behind it),
packets up to 241 and every key length the key buffer allows; the sets of `MCCodecs` put the lengths at, just
below and just above the widths of the vectors.  Command lines have up to three options behind those that are required
(three for `--report` and the colours, where what was given first may come back), and tables go to `max_fec_packet_num = 32`, with
pairs that add up to less, to just that, where parser and decoder differ, and to more.

Deadlock checking is off where a bound ends the behaviour: the encoder, sending, the delay queue, the event loop.

Fairness.  In `FecEncode` and `SendPath` time passes and due timers are served (weak fairness of `Tick` and
`Timeout`; of `TimePasses`, `SendTimeout` and `SendDue`): libev's loop keeps turning and serves a due timer before it sleeps.  Nothing is assumed of the
application; `EveryGroupFlushed` and `EveryPacketLeaves` have to hold when no packet follows.
In `ServerTunnel` a callback that has started returns (weak fairness of its iterations),
time passes, and every timer is served: strong fairness, because packets can start
callbacks again and again and each disables the timer's action for a moment, while libev
looks at all its timers in every turn of the loop.  `DelayQueue` assumes the same of time, that
`check()` comes to its end and that a due timer ends the sleep.  `EvLoop` assumes that the loop goes on and callbacks
return (`WF(Loop)`) and that time passes (`WF(Tick)`); that timers, sockets and signals are
served is what it shows, and what the other modules assume of it.  Nothing is assumed of clients, of
signals or of the remote service.

## Disagreements found

Shown by a run:

* **Mode 1 data packets are dropped** (`FecArrivals_mode1`).  `fec_manager.cpp:513`
  requires `inner_index < data_num + redundant_num`; the encoder sends mode-1 data
  packets with both counts zero.  `unit_test` expects them to be delivered
  (`misc.cpp:518`).  A mode-1 group still arrives if its redundant packets suffice.
* **Redundancy over cooked packets** (`SendPath_cook`).  `my_send` cooks where the datagram lies
  (`packet.cpp:143`).  In mode 1 without a delay that is the encoder's `input_buf`, over which the
  redundant shards are computed when the group ends, so with a key or obscuring they do not restore the
  packets, against `README.md:47`.  `OnlyInPlaceCookingSpoils` shows that there is no other way.

Met while modelling, each visible in the definitions named:

* A pair with `x + y = 255` passes the parser (`fec_manager.h:56`), whose message says "should <255", and every datagram of such
  a group is rejected by the decoder (`fec_manager.cpp:509`): `TakenByDecoder`.  `GroupsCanBeSent`, a part of `SettingsAreSound`,
  says that the decoder takes all groups of the table exactly if no such pair was given; interpolation adds none.
* The commands `mtu`, `queue-len` and `timeout` do not move the version the encoder looks at
  (`misc.cpp:284`, `292`, `313`, against `README.md:137`): `HandleCommand`, `CurrentPar`.
* A delayed append does not check the packet's length (`fec_manager.cpp:441`), so a segment can exceed the mtu;
  `OversizedOnlyAlone` shows that this happens only to a packet alone in its group.
* Sequence number 0xFFFFFFFF is also the mark of an empty slot (`fec_manager.h:404`): hence `NoSentinelSeq`.
* The constructor of `conv_manager_t` sets a local variable instead of its `last_clear_time` (`connection.h:44`).
  This does no harm: a stale value, even ahead of the clock, makes the first clearing early or late by at most an interval, because the
  distance is unsigned.  With a signed one the conversations of that connection might never be cleared, and `SilenceIsForgotten` would fail.
* A conversation number that is drawn again while the other end still remembers it lets answers stray
  (`connection.h:77`): `collided`.
* `--out-addr` with a fixed port makes the second bind fail and the server exit (`common.cpp:864`).
* The key buffer allows keys whose tile does not satisfy the assertion at `packet_cook.cpp:282`, which only a
  build for the PPC SPE evaluates.
* `-j a:b` and `-i a:b` have no upper bound (`misc.cpp:667`, `686`), and milliseconds become microseconds in 32 bits:
  `Overflows`.  A pair of which one number is read keeps the other from before, already multiplied; a pair or number of which
  nothing is read keeps what the variable held, which may be nothing (`Uninitialized`).
* A repeated `--timeout` whose value cannot be read is compared in microseconds with a limit in milliseconds.
* An empty `--out-interface`, and the fifo command `fec` without an argument, read buffers nobody has written.
* The delay timer runs on libev's monotonic clock, the due times on the wall clock.
* `test_gf`, compiled only for debugging, complains about element 0 (`fec.cpp:1240`), since `gf_exp[gf_log[0]]` is 1.

## Proofs

All theorems hold for every value of the constants that satisfies the named
assumptions of the modules (positive sizes, a well-formed initial parameter set,
range-checked commands).

Decoder (`FecDecodeProofs`):

* `TypeCorrect`: `TypeOK`.
* `MapsCorrect`: `GroupsPointIntoRing`, if no datagram carries the sentinel number
  (`NoSentinelSeq`).  It is the inductive invariant
  behind the next two.  `BitmapBitsAreValid` only speaks of the groups `input` would use
  and is not inductive: a step may claim a slot whose owner it says nothing about.
  The argument: an eviction erases the group of the slot's old content before the
  slot is overwritten, so no surviving map points at it; a group that takes over a
  slot starts with an empty map.  The other two fields of a group do not matter.
* `ShardMapsValid`: `BitmapBitsAreValid`, under the same condition.
* `GenuineDelivery`: `DeliveredIsGenuine`, if a sequence number also stands for one
  word.  No assumption on table sizes: collisions may lose a group, never mix two.
* `DeliveredAtMostOnce`: `AtMostOnce`, if the sequence numbers that arrive do not share
  a replay slot (`SeqsFitReplayTable`) and headers are as the encoder writes them
  (`EncoderHeaders`).  The invariant `DeliveredIsRemembered`: the group of everything
  delivered is closed in `anti_replay`, and closed for good.
* `EnoughIsEnough`: `RecoverableIsClosed`, if the groups also fit the group table (`SeqsFitGroupTable`) and the shards of a group
  name one code (`OneCodePerSeq`).  The invariant `OpenGroupsKnowTheirShards` is the converse of `GroupsPointIntoRing`: an open
  group that has a shard in the ring owns its slot, its map has every shard of it in the ring, `shard_count` is the
  size of the map, and it is below `data_num`.  Only an eviction takes shards out of the ring, and it closes their group.
* `DecoderIsWindow`: `ImplementsWindow`, the refinement of `ShardWindow`, if also a sequence number stands for one word.
  It needs all of the above and `RingFilled` (the ring is used from slot 0 on and never emptied).  `StoreAppends` shows that
  storing at `index`, read from the oldest slot on, is `Append` after `Tail`; `HeldIsMap` that the window holds of an open group what the
  group's bitmap says; `StoredCount` that a group is never overfull; `LengthsAgree` that `DataCheck` cannot fail.  `RejectHeader`,
  `RejectReplay` and `RefuseShard` map to `Ignore`, `EvictSelf` to `GiveUp`, `Buffer` and `Decode` to `Take`.

The conditions are on the traffic, not on the code; `WindowPackets`, the datagrams of `FecDecode_window`, satisfy all of them.

Encoder (`SendPathProofs`, its first part):

* `TypeCorrect`: `TypeOK`.
* `GroupAlwaysBounded`: `GroupIsBounded`, from `DeadlineTracksGroup` and `GroupBelowLimit`, inductive together with
  `TypeOK` because parameters only change when the group is empty.
* `SettingsFixedPerGroup`: the action property `OneSettingPerGroup`, from the invariant that equal versions
  have equal redundancy and mode.  The version does not cover the other fields,
  which is why the theorem does not claim them.
* `PacketsLeaveInOrder`: `InOrderExactlyOnce`, from the invariant `OrderInv` and a few lemmas on
  sequences.
* `SharedDatagramsFit`: `OversizedOnlyAlone`.  The invariant `BlobFits` bounds the blob of a group with two packets or more by what
  `append` let in.  The search for fewer shards (`BestDataNum`) takes the least number that fits, and rounding up and dividing are
  monotone, so the shards of any such group stay within the mtu.
* `NumbersNameGroups`: `SeqNamesOneGroup`, while sequence numbers have not gone round (`OneRound`: at most `SeqMod` packets are
  accepted).  The k-th group has the k-th number after `FirstSeq`; distinct groups of one round have distinct numbers, and the
  datagrams sent are counted by the places in the groups they fill.

Sending (`SendPathProofs`).  The steps of `SendPath` are made from the encoder's (`StepIsTheEncoders`), so the encoder's invariants hold
here too (`EncoderInvariants`).

* `LatencyIsStable`: `StableLatency`.  A datagram's delay is computed from the age of its group, and the invariant `QueueOK` carries the
  promise through the queue: what a datagram has waited plus what it still has to wait never changes.
* `DelayIsBounded`: `NothingWaitsTooLong`, in both modes and with or without `--fix-latency`, from the same invariant and from
  `GroupInv`: the age of a group never exceeds its timeout, whatever ends it.
* `SpoiledOnlyInPlace`: `OnlyInPlaceCookingSpoils`.  The invariant `CookedOK` says who cooked a packet that lies cooked in the
  encoder's buffer: a datagram of the group, sent without delay in mode 1.

A batch is sent by a recursive function of its length (`OneByOne`).  That it is what it should be is shown without induction over
data: were it not, there would be a least length at which it fails, and the step before contradicts that.
The same argument gives least elements to `BestDataNum`.

Delay queue (`DelayQueueProofs`), for all delays, any capacity, and any lag of libev's clock:

* `TypeCorrect`: `TypeOK`.
* `LeavesInOrderNotEarly`: `InOrderNotEarly`, from the invariant that a queued
  datagram carries its own due time and everything sent had been accepted; ids grow, so an
  insertion behind everything due no later keeps the order.
* `EachLeavesOnce`: `QueuedOrSentOnce`, from lemmas on which ids appending, inserting and removing the head leave in
  a sequence.
* `SleepEndsInTime`: `WakesWhenDue`.  The queue does not change while the loop sleeps, and
  a running timer is never later than the head of a queue `check()` has left.
* `QueueIsBounded`: `CapacityHolds`.

Connections and conversations (`ServerTunnelProofs`), for any number of clients, conversations, descriptors and
sockets, any timeouts, and any iteration order of the hash table:

* The lemmas about `conv_manager_t` come first: its two maps stay inverse and its LRU list has their keys, each once,
  sorted by age, under every operation.  `RelayProofs`, whose client has only the maps to rely on, repeats those about them.
* `TypeCorrect`, `SocketOwnership` (`SocketsHaveOneOwner`), `PointerSafety` (`PointersAreLive`), `TrafficIsRecorded`
  (`ManagersMatchTraffic`) follow from one inductive invariant, `IInv`.  Its parts: every socket's conversation has it in its map and
  every conversation's socket is open, with different conversations having different sockets; the hash table lists the live
  connections once each; watchers and timers belong to live connections; and the loop of the running callback, `work`, holds
  only what lives.  None of the four is inductive alone: erasing a connection keeps watchers alive only because its
  conversations, and with them its sockets, are known to be gone.
* `SocketStability` (`ConversationKeepsSocket`) and `ClearingIsPatient` (`OnlyIdleIsCleared`): action properties, step by step from `IInv`.

Client and server (`RelayProofs`): `KeptApart`, `ApplicationsAreKeptApart` for any number of applications, conversations,
descriptors, sockets and packets on the way.  The inductive invariant `IInv` is in two parts.  Always: the maps of both
managers are inverse, a conversation's socket is open and has the number the server's maps say, and a number in use
at the client belongs to the application that drew it last.  Until the first collision: every packet on the way belongs to
the application that drew its number last, and so does all that went or waits to go through the socket of a conversation, a
socket never changes hands, and a delayed answer is addressed to whoever asked.  The second part
is lost at a collision and the property does not claim more; the first part is what carries it from step to step,
since a number that is drawn afresh is one that nobody remembers.

Event loop (`EvLoopProofs`), for any number of timers, sockets, signals and descriptors, each backend, a heap with two children
per entry or four, any lag of the clock and any wrap of the generation counters:

* `InsertKeepsHeap`, `RemoveKeepsHeap`, `PostponeKeepsHeap` (in `AlgorithmProofs`): the heap of timers stays one, of any size,
  no timer is lost and no deadline but the set one changes.  `upheap` and `downheap`
  move entries along a path; `Rotation` says that what is on a path changes places and every watcher that moves is told
  its new one, and that the order holds again at the end of the path follows from where it may be broken before:
  at one entry only, towards its parent or towards its children.
* `LoopInvariant`: `LoopInv`, in three parts.  `IoInv`: a socket that is watched is the only watcher of its descriptor; whatever
  changed is in `fdchanges`; and `Told`, what the backend knows of a descriptor: of one whose watchers have changed epoll
  knows nothing, because `close` comes before the next `fd_reify`, and if it is watched again the change carries
  `EV__IOFDSET`, so that `fd_reify` tells the backend even where the events are what they were.  `WatcherInv`: the
  heap is one, a pending watcher and its entry in the queue point at each other, and whoever is pending may be called back.
  `PhaseInv`: a signal that is not yet noticed is in `pipecb`, in the eventfd or in `pipe_write_skipped`, and from `Reify` until
  the backend returns nothing changes that it was told.
* `AssertionsHold` (`Verified`), `StoppedWatchersAreSilent` (`NoCallbackAfterStop`) and `NothingIsMissed` (`SleepMissesNothing`) follow
  from it.

The assumptions there are that watchers are different structures, that the descriptors are finitely many numbers and the eventfd is
none of the sockets', and that timers are set with a `repeat` that is not negative, which `ev_timer_start` asserts.

Algorithms (`CodecsProofs`).  The assumptions are what the code asserts or its types say: a group holds packets of at most 65535 bytes
and no more of them than the decoder takes, there are at least as many bytes behind the blob as shards, counts and the numbers of a
command line are ints, a key has 1 to 999 bytes where its tile is prepared, the length of an initial vector lies between
`iv_min` and `iv_max` and fits a byte, a message is bytes, a burst flips at least one bit of one to four neighbouring bytes, and what is
no number, no packet list and no datagram (`Unparsable`, `Refused`) is not mistaken for one; at least one timer is started,
at a whole number of clock units.  The buffers that are decoded are arbitrary bytes.

* `ClockNeverGoesBack`: `TimeNeverGoesBack`, for any readings.  The correction only grows, by what the clock went back.
* `TableIsInterpolated`: `RedundancyIsInterpolated`, for every string that is accepted and any `max_fec_packet_num`.  An entry
  lies in exactly one segment (`SegmentValue`); rounding up keeps it above the line and, since both ends leave room for
  their packets, between 0 and the room there is (`BetweenIsOnLine`); the printed string is a string with a pair for every number,
  and reading that gives every entry back (`PrintedTable`).
* `BlobsComeBack`: `BlobRoundTrip`, for any packets and any bytes.  `BlobIsLaid` says where each packet and its length stand in the
  buffer, `PiecesFlatten` that shards of equal length put together again are the beginning of what they were cut from,
  `PacketsAreRead` that reading keeps in step with writing, and `FoundIsInside` that each step stays within the buffer or refuses.

* `SettingsSound`: `SettingsAreSound`, for command lines of any length with any ints in them.  It says of the settings what is true, not
  what one would wish: groups can be encoded, and the decoder takes them unless a pair of `-f` adds up to the limit
  (`RedundancyIsTaken`: what is interpolated between two such pairs stays below it as well); delays can be drawn unless the option was
  the last time read in part or not at all, or overflows (`DelaysInOrder`).  A pass of `process_arg` is a recursive function of
  the options read so far.  That the settings are in range follows option by option (`StartedSettings`): a field holds its default or what
  the last option of its name was checked to be (`FieldStays`), and whatever fails a check ends the program.  That
  order does not matter is one step (`ReadsCommute`): options about different settings write different fields and
  look at none of the other's.  That an option given again does not count before is an induction behind it: the two
  passes stay `Close`, the same but for the fields the option writes, until it is read again and completely (`CloseStep`, `CloseEnds`).
* `XorFollows`: `XorFollowsThePattern`, for data and patterns of any length.  A loop is the sequence of its states, and each state is `InStep`: the
  bytes done have met the pattern, and the offset into the tile is the number of bytes done modulo the tile's length.  It is kept by a
  load that does not wrap, because the tile is a multiple of the vector's width (`AdvancedMeets`), and the tile repeats the pattern,
  because it is a multiple of the pattern's length as well (`GcdDivides`, `TileLengthIs`, `TileIsPattern`).  For an unaligned
  buffer `RotatedMeets` shows that turning the tile is as good as starting in its middle.
* `AllChecksumsAgree`: `ChecksumsAgree`, for every message, from the theorems of `AlgorithmProofs`, which hold of any polynomial and are used
  with that of zlib and that of `crc32c.h`.
* `CookingIsUndone`: `CookRoundTrip`, for every datagram, conversation number, key, initial vector and
  combination of the disable options.  The xor meets the same bytes on both sides (`XorFollows`'s lemmas, so the implementation does not
  matter) and undoes itself; the length of the initial vector is read back from the last byte because a byte has one number
  (`BitsOfByte`), and so are the checksum and the conversation number (`WordIsRead`).  Damage passes through the xor in place
  (`DamageCommutes`) and lies in front of the initial vector, which is therefore found as it was put there.  Damaged data has another
  checksum than the one that came with it (`DamageChangesChecksum`, from `BurstIsNoticed`), and a damaged checksum is read as
  another number (`ReadTellsApart`).
* `TimersAreKept`: `TimersStayHeap`, for any number of timers and any deadlines, of libev's heap with two children per entry and of that
  with four.  One more start keeps the heap and what was in it (`OneMoreStarted`, from `InsertKeepsHeap`), so any number does
  (`StartedTimersAreKept`); what stopping and repeating do then is `RemoveKeepsHeap` and `PostponeKeepsHeap`.

`AlgorithmProofs` holds what is proved for every polynomial and either heap: `EvLoopProofs` extends it, and `CodecsProofs` takes an instance
with zlib's polynomial and the heap of two, and one with that of `crc32c.h` and the heap of four.

Checksums (`AlgorithmProofs`), for data of any length; the assumption is that the polynomial is a word, or zlib's where the source writes it out:

* `LibraryIsBitwise` and `InstructionsAndSlicesAgree`: every implementation is the division bit by bit.  A step is linear
  (`StepsAreLinear`), so a table entry per byte or half byte is enough (`ByTable`, `ByHalfTable`); a slice is the table behind some
  zero bytes (`LookupIsSlices`), so a block at once is its bytes one after the other (`SlicedBlockIsBitwise`); the two without a
  table are linear as well and equal on each bit of a byte.  A loop over blocks, with what is left behind it byte by byte, is a loop over bytes
  (`BlocksThenBehind`), whichever way the blocks are taken: slices, unrolled slices, prefetched slices, or instructions of 8, 4 and 1 bytes.
* `PartsAgree`: the checksum of data cut anywhere.  The square of the map of some zero bits is the map of twice as many (`SquareDoubles`),
  and `CombineRound` keeps what the bits of the length done so far and the map mean (`RoundKeeps`).
* `BurstIsNoticed`: the registers of the whole and the damaged data differ, behind the burst, by the steps of a word of at most
  32 bits that is not zero (`DamageGrows`), and with bit 31 in the polynomial a step takes no two words to one (`StepKeepsOnes`).

Loops, readings and the blob are recursive functions of a number.  `Iteration` shows that such a
function exists and obeys its equation, and `Climb` that what holds at 0 and from each number to the next holds; both take the
least number at which it were otherwise.

Only model-checked: the five properties that need fairness (`EveryGroupFlushed`, `EveryPacketLeaves`, `EverythingLeaves`,
`SilenceIsForgotten`, `EverythingIsServed`), which are out of the prover's reach, and two invariants of `Codecs`.
`AnyKDecode` and `FieldAndMatrices` rest on the algebra of finite fields and of their matrices, which is itself by induction over data.

## Not modelled

The io_uring receive path is disabled in this commit: `uring_init`
returns before it does anything.  The benchmark programs are not part of the product.
Logging, printing and random numbers keep no state a property could be about; a random number is any number.

`EvLoop` is partial.  libev's other watchers and its kqueue, port, linuxaio and iouring backends, forking, lack of memory and the recovery from bad
descriptors are left out, because the program uses none of them; only READ events occur; `epoll_ctl` fails
only as the descriptors dictate; the branches for events of an older generation are unreachable as long as
`SleepMissesNothing` holds; a late start of `poll` is a late return; a signal interrupts a sleep only when nothing is ready;
`ev_break` is never called.

In the other modules: system calls on open sockets succeed, except where the code handles their failure with a decision
(no free descriptor, no socket, a full table); `debug_force_flush_fec` is off; `getopt_long` has split the
command line; the assembly of `xor_spe.S` appears as one more vector width; big-endian
variants of the checksums are left out, as are the assertion at `packet_cook.cpp:282` and the decoder's check that a mode-1 shard
has room for its length (`fec_manager.cpp:679`), which every shard the encoder makes has.

## Plan

Done: decoder, encoder, sending, delay queue, server, client with server, event loop, all algorithms, command line; theorems about
all of them but the Reed-Solomon code.
Left, as theorems: that the field of every degree is one and that any
`k` rows of the Vandermonde matrix can be inverted; and the properties that need fairness.
