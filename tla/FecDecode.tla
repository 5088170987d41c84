------------------------------ MODULE FecDecode ------------------------------
(***************************************************************************)
(* The receiving half of the FEC layer: fec_decode_manager_t with the      *)
(* anti_replay_t and fec_group_t it owns (fec_manager.h, fec_manager.cpp). *)
(*                                                                         *)
(* One step is one call of from_fec_to_normal (misc.cpp): input() followed *)
(* by output() on the same datagram, so ready_for_output is folded into    *)
(* `output`, the result of the last call.  The payload of a datagram is    *)
(* abstracted to the `word` it is a shard of: Reed-Solomon recovers a word *)
(* from any data_num of its shards, and shards of different words combine  *)
(* to Garbage.                                                             *)
(***************************************************************************)
EXTENDS Integers, FiniteSets

CONSTANTS
  FecBuffNum,       \* slots of the packet ring fec_data (--decode-buf)
  GroupSlots,       \* size of the direct-mapped group table
  ReplaySlots,      \* size of the direct-mapped anti-replay table
  SeqMod,           \* 2^32 in the code: sequence numbers wrap here
  MaxFecPacketNum,  \* 255 in the code
  Packets,          \* the datagrams that may arrive, as parsed headers
  MisSized,         \* type-1 datagrams whose u16 length is not their length
  Undecodable,      \* words whose recovered contents fail the length checks
  Garbage,          \* what mixing shards of different words yields
  HeapGroups,       \* what the group table's uninitialised memory may hold
  Unused,           \* a ring slot with used = 0
  NoOutput          \* output() returned n = -1

SeqNum    == 0 .. SeqMod - 1
RingSlots == 0 .. FecBuffNum - 1
ShardIdx  == 0 .. MaxFecPacketNum - 1
TypeCode  == {0, 1}

\* The sequence number that marks a free group slot and a free replay slot.
EmptySeq == SeqMod - 1

ReplaySlot(seq) == seq % ReplaySlots
GroupSlot(seq)  == seq % GroupSlots

\* shard_idx restricted to the indices whose bitmap bit is set: the others
\* are never read.
ShardMaps == UNION {[D -> RingSlots] : D \in SUBSET ShardIdx}

Groups ==
  [seq : SeqNum, type : TypeCode \cup {-1}, data_num : Nat \cup {-1},
   redundant_num : Nat \cup {-1}, len : Nat \cup {-1}, fec_done : BOOLEAN,
   shard_count : Nat, shards : ShardMaps]

-----------------------------------------------------------------------------

\* The constructor makes the table the power of two in [2n, 4n), and the
\* masks are powers of two that divide 2^32.
ASSUME SizesAssumption ==
  /\ FecBuffNum \in Nat \ {0}
  /\ ReplaySlots \in Nat \ {0}
  /\ GroupSlots \in Nat \ {0}
  /\ GroupSlots >= 2 * FecBuffNum
  /\ GroupSlots < 4 * FecBuffNum
  /\ SeqMod \in Nat \ {0, 1}
  /\ MaxFecPacketNum \in Nat \ {0}

ASSUME PacketsAssumption ==
  /\ \A p \in Packets :
        /\ p.seq \in SeqNum
        /\ p.type \in TypeCode
        /\ p.data_num \in Nat
        /\ p.redundant_num \in Nat
        /\ p.inner_index \in Nat
        /\ p.len \in Nat
  /\ MisSized \subseteq Packets
  /\ Unused \notin Packets

\* output() returning nothing is not one of the results it can return.
ASSUME OutputAssumption ==
  \A p \in Packets : \A I \in SUBSET ShardIdx :
    NoOutput # [seq |-> p.seq, word |-> p.word, packets |-> I]

ASSUME HeapAssumption == HeapGroups \subseteq Groups /\ HeapGroups # {}

-----------------------------------------------------------------------------

VARIABLES
  anti_replay,   \* slot -> the sequence number it remembers as finished
  fec_data,      \* ring slot -> the stored datagram, or Unused
  group_table,   \* group slot -> fec_group_t
  index,         \* the ring slot the next datagram is stored in
  output,        \* what the last call handed to the application
  delivered,     \* history: the <<seq, packet>> pairs handed out so far
  redelivered    \* history: the pairs handed out more than once

vars == <<anti_replay, fec_data, group_table, index, output, delivered,
          redelivered>>

-----------------------------------------------------------------------------
(* fec_group_t and anti_replay_t *)

NewGroup(seq) ==
  [seq |-> seq, type |-> -1, data_num |-> -1, redundant_num |-> -1,
   len |-> -1, fec_done |-> FALSE, shard_count |-> 0,
   shards |-> [i \in {} |-> 0]]

HasShard(g, i) == i \in DOMAIN g.shards

SetShard(g, i, slot) ==
  [g EXCEPT !.shards = [j \in DOMAIN g.shards \cup {i} |->
                          IF j = i THEN slot ELSE g.shards[j]],
            !.shard_count = @ + 1]

\* Mutant of GroupFindOrCreate: a new owner without init().
GroupTakeOver(seq) == [group_table[GroupSlot(seq)] EXCEPT !.seq = seq]

GroupFindOrCreate(seq) ==
  LET g == group_table[GroupSlot(seq)]
  IN  IF g.seq = seq THEN g ELSE NewGroup(seq)

\* Mutant of GroupErase: the group of an overwritten shard keeps its map.
GroupKeep(table, seq) == table

\* group_erase: only the owner is cleared, the other fields stay behind.
GroupErase(table, seq) ==
  IF table[GroupSlot(seq)].seq = seq
  THEN [table EXCEPT ![GroupSlot(seq)].seq = EmptySeq]
  ELSE table

\* Mutant of SetInvalid: finished groups are not remembered.
SetInvalidForgotten(table, seq) == table

SetInvalid(table, seq) == [table EXCEPT ![ReplaySlot(seq)] = seq]

IsValid(seq) == anti_replay[ReplaySlot(seq)] # seq

-----------------------------------------------------------------------------
(* fec_decode_manager_t::input, one operator per block of the function *)

Malformed(p) ==
  \/ p.type = 1 /\ p.len < 2
  \/ p.type = 1 /\ p.data_num = 0 /\ p \in MisSized
  \/ p.type = 0 /\ p.data_num = 0
  \/ p.data_num + p.redundant_num >= MaxFecPacketNum
  \/ p.inner_index >= p.data_num + p.redundant_num

\* The headers that disagree with what the group already knows.
Mismatch(p, g) ==
  \/ g.type # -1 /\ g.type # p.type
  \/ /\ p.data_num # 0
     /\ g.data_num # -1
     /\ \/ g.data_num # p.data_num
        \/ g.redundant_num # p.redundant_num
        \/ g.len # p.len

Refused(p, g) == g.fec_done \/ HasShard(g, p.inner_index) \/ Mismatch(p, g)

\* The group with the header fields of an accepted datagram.
Joined(p) ==
  LET g == GroupFindOrCreate(p.seq)
  IN  IF p.data_num # 0 /\ g.data_num = -1
      THEN [g EXCEPT !.type = p.type, !.data_num = p.data_num,
                     !.redundant_num = p.redundant_num, !.len = p.len]
      ELSE [g EXCEPT !.type = p.type]

Accepted(p) ==
  /\ ~Malformed(p)
  /\ IsValid(p.seq)
  /\ ~Refused(p, GroupFindOrCreate(p.seq))

Victim == fec_data[index]

OwnVictim(p) == Victim # Unused /\ Victim.seq = p.seq

\* Mutant of ReplayAfterEviction: a group given up may be started again.
ReplayKeptByEviction == anti_replay

\* The tables once the ring slot about to be reused has been given up.
ReplayAfterEviction ==
  IF Victim = Unused THEN anti_replay ELSE SetInvalid(anti_replay, Victim.seq)

GroupsAfterEviction ==
  IF Victim = Unused THEN group_table ELSE GroupErase(group_table, Victim.seq)

StoredGroup(p) == SetShard(Joined(p), p.inner_index, index)

StoredRing(p) == [fec_data EXCEPT ![index] = p]

Overfull(p, g) ==
  \/ p.type = 0 /\ g.shard_count > p.data_num
  \/ p.type = 1 /\ g.data_num # -1 /\ g.shard_count > g.data_num + 1

\* Mutant of AboutToFec: one shard more than needed.
AboutToFecOneLate(p, g) ==
  IF p.type = 0 THEN g.shard_count > p.data_num
  ELSE g.data_num # -1 /\ g.shard_count = g.data_num + 1

AboutToFec(p, g) ==
  /\ ~Overfull(p, g)
  /\ \/ p.type = 0 /\ g.shard_count = p.data_num
     \/ p.type = 1 /\ g.data_num # -1 /\ g.shard_count >= g.data_num

\* data_check_ok: the longest shard of a type-1 group has the group's length.
DataCheck(g, ring) ==
  /\ \A i \in DOMAIN g.shards : ring[g.shards[i]].len <= g.len
  /\ \E i \in DOMAIN g.shards : ring[g.shards[i]].len = g.len

ShardWords(g, ring) == {ring[g.shards[i]].word : i \in DOMAIN g.shards}

\* rs_decode2 over the shards the group's map points at.
Recovered(g, ring) ==
  LET words == ShardWords(g, ring)
  IN  IF \A v, w \in words : v = w THEN CHOOSE w \in words : TRUE ELSE Garbage

\* Type 0 hands out the whole blob; type 1 the packets not yet fast-sent.
DecodedPackets(p, g) ==
  {i \in 0 .. g.data_num - 1 :
     p.type = 1 => ~HasShard(g, i) \/ i = p.inner_index}

FecResult(p, g, ring) ==
  IF /\ p.type = 1 => DataCheck(g, ring)
     /\ Recovered(g, ring) \notin Undecodable
  THEN [seq |-> p.seq, word |-> Recovered(g, ring),
        packets |-> DecodedPackets(p, g)]
  ELSE NoOutput

\* The fast send of a type-1 data packet that did not trigger a recovery.
FastSend(p, g) ==
  IF p.type = 1 /\ p.data_num = 0 /\ ~Overfull(p, g)
  THEN [seq |-> p.seq, word |-> p.word, packets |-> {p.inner_index}]
  ELSE NoOutput

OutputPairs(o) ==
  IF o = NoOutput THEN {} ELSE {<<o.seq, i>> : i \in o.packets}

Output(o) ==
  /\ output' = o
  /\ delivered' = delivered \cup OutputPairs(o)
  /\ redelivered' = redelivered \cup (delivered \cap OutputPairs(o))

-----------------------------------------------------------------------------
(* The handler, by outcome *)

\* The header checks at the top of input().
RejectHeader(p) ==
  /\ Malformed(p)
  /\ Output(NoOutput)
  /\ UNCHANGED <<anti_replay, fec_data, group_table, index>>

\* The group is already finished or given up.
RejectReplay(p) ==
  /\ ~Malformed(p)
  /\ ~IsValid(p.seq)
  /\ Output(NoOutput)
  /\ UNCHANGED <<anti_replay, fec_data, group_table, index>>

\* The group is done, has this shard, or disagrees about its parameters.  A
\* group just created refuses nothing, so the table has not changed either.
RefuseShard(p) ==
  /\ ~Malformed(p)
  /\ IsValid(p.seq)
  /\ Refused(p, GroupFindOrCreate(p.seq))
  /\ Output(NoOutput)
  /\ UNCHANGED <<anti_replay, fec_data, group_table, index>>

\* The ring has come round to a shard of the very group being extended: the
\* group is given up and the datagram dropped; index does not advance.
EvictSelf(p) ==
  /\ Accepted(p)
  /\ OwnVictim(p)
  /\ anti_replay' = ReplayAfterEviction
  /\ group_table' = [group_table EXCEPT
                       ![GroupSlot(p.seq)] = [Joined(p) EXCEPT !.seq = EmptySeq]]
  /\ Output(NoOutput)
  /\ UNCHANGED <<fec_data, index>>

\* What every stored datagram does: evict, store, move on.
Store(p) ==
  /\ Accepted(p)
  /\ ~OwnVictim(p)
  /\ fec_data' = StoredRing(p)
  /\ index' = IF index + 1 = FecBuffNum THEN 0 ELSE index + 1

\* The datagram is stored and the group does not have enough shards yet.
Buffer(p) ==
  LET g == StoredGroup(p)
  IN  /\ Store(p)
      /\ ~AboutToFec(p, g)
      /\ group_table' = [GroupsAfterEviction EXCEPT ![GroupSlot(p.seq)] = g]
      /\ anti_replay' = IF Overfull(p, g)
                        THEN SetInvalid(ReplayAfterEviction, p.seq)
                        ELSE ReplayAfterEviction
      /\ Output(FastSend(p, g))

\* The datagram completes its group: recover, finish the group, deliver.
Decode(p) ==
  LET g    == StoredGroup(p)
      done == p.type = 1 => DataCheck(g, StoredRing(p))
  IN  /\ Store(p)
      /\ AboutToFec(p, g)
      /\ group_table' = [GroupsAfterEviction EXCEPT
                           ![GroupSlot(p.seq)] = [g EXCEPT !.fec_done = done]]
      /\ anti_replay' = SetInvalid(ReplayAfterEviction, p.seq)
      /\ Output(FecResult(p, g, StoredRing(p)))

Receive(p) ==
  \/ RejectHeader(p)
  \/ RejectReplay(p)
  \/ RefuseShard(p)
  \/ EvictSelf(p)
  \/ Buffer(p)
  \/ Decode(p)

Init ==
  /\ anti_replay = [k \in 0 .. ReplaySlots - 1 |-> EmptySeq]
  /\ fec_data = [k \in RingSlots |-> Unused]
  /\ \E heap \in [0 .. GroupSlots - 1 -> HeapGroups] :
        group_table = [k \in 0 .. GroupSlots - 1 |->
                         [heap[k] EXCEPT !.seq = EmptySeq]]
  /\ index = 0
  /\ output = NoOutput
  /\ delivered = {}
  /\ redelivered = {}

Next == \E p \in Packets : Receive(p)

Spec == Init /\ [][Next]_vars

-----------------------------------------------------------------------------
(* Properties *)

\* Conditions on the traffic under which the properties hold.

\* No group uses the sequence number that marks an empty slot.
NoSentinelSeq == \A p \in Packets : p.seq # EmptySeq

\* A sequence number stands for one encoded word.
OneWordPerSeq == \A p, q \in Packets : p.seq = q.seq => p.word = q.word

\* Fewer groups are in flight than the anti-replay table has slots.
SeqsFitReplayTable ==
  \A p, q \in Packets : ReplaySlot(p.seq) = ReplaySlot(q.seq) => p.seq = q.seq

\* Fewer groups are in flight than the group table has slots.
SeqsFitGroupTable ==
  \A p, q \in Packets : GroupSlot(p.seq) = GroupSlot(q.seq) => p.seq = q.seq

\* The shards of a group that name its code name the same one, and are
\* padded to the same length.
OneCodePerSeq ==
  \A p, q \in Packets :
    p.seq = q.seq /\ p.data_num # 0 /\ q.data_num # 0
      => p.data_num = q.data_num /\ p.len = q.len

\* The encoder writes both counts or none into a header.
EncoderHeaders == \A p \in Packets : p.data_num = 0 => p.redundant_num = 0

\* Every variable stays in its range: the ring holds datagrams, the tables
\* sequence numbers and groups, and index a slot of the ring.
TypeOK ==
  /\ anti_replay \in [0 .. ReplaySlots - 1 -> SeqNum]
  /\ fec_data \in [RingSlots -> Packets \cup {Unused}]
  /\ group_table \in [0 .. GroupSlots - 1 -> Groups]
  /\ index \in RingSlots
  /\ delivered \subseteq SeqNum \X Nat
  /\ redelivered \subseteq delivered

RingHolds(ring, slot, seq, i) ==
  /\ ring[slot] # Unused
  /\ ring[slot].seq = seq
  /\ ring[slot].inner_index = i

\* A bit of a group's bitmap is a promise: the group input() would use for a
\* datagram points only at ring slots that still hold that very shard of that
\* very group, however the ring was overwritten and the table slot reused
\* since the bit was set (fec_manager.h, shard_idx: "only valid where bitmap
\* bit is set").
BitmapBitsAreValid ==
  \A p \in Packets :
    IsValid(p.seq) =>
      LET g == GroupFindOrCreate(p.seq)
      IN  \A i \in DOMAIN g.shards : RingHolds(fec_data, g.shards[i], p.seq, i)

\* The inductive form of BitmapBitsAreValid, over every slot of the group
\* table: an occupied slot belongs to its owner, and its shards are where the
\* map says they are (group_erase on eviction keeps it so).
GroupsPointIntoRing ==
  \A k \in 0 .. GroupSlots - 1 :
    group_table[k].seq # EmptySeq =>
      /\ GroupSlot(group_table[k].seq) = k
      /\ \A i \in DOMAIN group_table[k].shards :
            RingHolds(fec_data, group_table[k].shards[i],
                      group_table[k].seq, i)

\* What is handed to the application is the word its sender encoded under
\* that sequence number: shards of different groups are never combined.
DeliveredIsGenuine ==
  output # NoOutput =>
    \E p \in Packets : p.seq = output.seq /\ p.word = output.word

\* Duplicated and reordered datagrams never make the decoder hand out the
\* same packet of the same group twice.
AtMostOnce == redelivered = {}

RingShards(seq) ==
  {k \in RingSlots : fec_data[k] # Unused /\ fec_data[k].seq = seq}

\* Any data_num shards of a group are enough: as soon as the ring holds that
\* many of its shards the group is finished, so no group waits for a shard it
\* does not need.
RecoverableIsClosed ==
  \A p \in Packets :
    p.data_num # 0 /\ Cardinality(RingShards(p.seq)) >= p.data_num
      => ~IsValid(p.seq)

-----------------------------------------------------------------------------
(* The decoder implements the sliding window of ShardWindow *)

\* The ring's datagrams in the order they were stored.
RingContents ==
  IF Victim = Unused
  THEN [k \in 1 .. index |-> fec_data[k - 1]]
  ELSE [k \in 1 .. FecBuffNum |-> fec_data[(index + k - 1) % FecBuffNum]]

ClosedSeqs == {seq \in {p.seq : p \in Packets} : ~IsValid(seq)}

Window ==
  INSTANCE ShardWindow WITH
    Shards   <- Packets,
    Capacity <- FecBuffNum,
    None     <- NoOutput,
    recent   <- RingContents,
    closed   <- ClosedSeqs,
    out      <- IF output = NoOutput THEN NoOutput
                ELSE <<output.seq, output.word>>

\* While the sequence numbers in flight fit the tables, the decoder's tables,
\* bitmaps and counters together behave as the sliding window: a group is
\* handed out by the arrival that completes it, a group is lost only when the
\* ring takes back its oldest shard, and a closed group stays closed.
ImplementsWindow == Window!Spec
=============================================================================
