--------------------------- MODULE FecDecodeProofs ---------------------------
(***************************************************************************)
(* Proofs about FecDecode for every size of the tables and every traffic.  *)
(***************************************************************************)
EXTENDS FecDecode, Sequences, TLAPS, FiniteSetTheorems, FunctionTheorems

-----------------------------------------------------------------------------
(* Helpers *)

\* Adding a shard to a group gives a group.
LEMMA SetShardType ==
  ASSUME NEW g \in Groups, NEW i \in ShardIdx, NEW slot \in RingSlots
  PROVE  SetShard(g, i, slot) \in Groups
<1> DEFINE D == DOMAIN g.shards \cup {i}
           f == [j \in D |-> IF j = i THEN slot ELSE g.shards[j]]
<1>1. PICK E \in SUBSET ShardIdx : g.shards \in [E -> RingSlots]
  BY DEF Groups, ShardMaps
<1>2. DOMAIN g.shards = E
  BY <1>1
<1>3. D \in SUBSET ShardIdx
  BY <1>2
<1>4. f \in [D -> RingSlots]
  BY <1>1, <1>2
<1>5. f \in ShardMaps
  BY <1>3, <1>4 DEF ShardMaps
<1>6. ASSUME NEW h \in ShardMaps, NEW n \in Nat
      PROVE  [g EXCEPT !.shards = h, !.shard_count = n] \in Groups
  BY DEF Groups
<1>7. g.shard_count + 1 \in Nat
  BY DEF Groups
<1>8. [g EXCEPT !.shards = f, !.shard_count = @ + 1] \in Groups
  BY <1>5, <1>6, <1>7
<1>9. QED
  BY <1>8, Zenon DEF SetShard

\* A freshly initialised group is a group without shards.
LEMMA NewGroupType ==
  ASSUME NEW seq \in SeqNum
  PROVE  NewGroup(seq) \in Groups /\ DOMAIN NewGroup(seq).shards = {}
<1>1. [i \in {} |-> 0] \in [{} -> RingSlots]
  OBVIOUS
<1>2. [i \in {} |-> 0] \in ShardMaps
  BY <1>1 DEF ShardMaps
<1>3. QED
  BY <1>2 DEF NewGroup, Groups

\* Slots lie inside their tables.
LEMMA SlotsInRange ==
  ASSUME NEW seq \in SeqNum
  PROVE  /\ ReplaySlot(seq) \in 0 .. ReplaySlots - 1
         /\ GroupSlot(seq) \in 0 .. GroupSlots - 1
         /\ EmptySeq \in SeqNum
BY SizesAssumption DEF ReplaySlot, GroupSlot, SeqNum, EmptySeq

LEMMA PacketFields ==
  ASSUME NEW p \in Packets
  PROVE  /\ p.seq \in SeqNum
         /\ p.type \in TypeCode
         /\ p.data_num \in Nat
         /\ p.redundant_num \in Nat
         /\ p.inner_index \in Nat
         /\ p.len \in Nat
         /\ p # Unused
         /\ ~Malformed(p) => p.inner_index \in ShardIdx
BY PacketsAssumption, SizesAssumption DEF Malformed, ShardIdx

\* The group input() works on is a group of the datagram's sequence number.
LEMMA JoinedType ==
  ASSUME TypeOK, NEW p \in Packets
  PROVE  /\ GroupFindOrCreate(p.seq) \in Groups
         /\ GroupFindOrCreate(p.seq).seq = p.seq
         /\ Joined(p) \in Groups
         /\ Joined(p).seq = p.seq
         /\ Joined(p).shards = GroupFindOrCreate(p.seq).shards
<1> DEFINE g == GroupFindOrCreate(p.seq)
<1>1. p.seq \in SeqNum /\ GroupSlot(p.seq) \in 0 .. GroupSlots - 1
  BY PacketFields, SlotsInRange
<1>2. g \in Groups
  BY <1>1, NewGroupType DEF GroupFindOrCreate, TypeOK
<1>3. g.seq = p.seq
  BY <1>1 DEF GroupFindOrCreate, NewGroup
<1>4. /\ p.type \in TypeCode \cup {-1}
      /\ p.data_num \in Nat \cup {-1}
      /\ p.redundant_num \in Nat \cup {-1}
      /\ p.len \in Nat \cup {-1}
  BY PacketFields
<1>5. [g EXCEPT !.type = p.type, !.data_num = p.data_num,
               !.redundant_num = p.redundant_num, !.len = p.len] \in Groups
  BY <1>2, <1>4 DEF Groups
<1>6. [g EXCEPT !.type = p.type] \in Groups
  BY <1>2, <1>4 DEF Groups
<1>7. Joined(p) \in Groups
  BY <1>5, <1>6 DEF Joined
<1>8. Joined(p).seq = g.seq /\ Joined(p).shards = g.shards
  BY <1>2 DEF Joined, Groups
<1>9. QED
  BY <1>2, <1>3, <1>7, <1>8

\* Evicting the ring's oldest datagram keeps both tables well typed.
LEMMA EvictionType ==
  ASSUME TypeOK
  PROVE  /\ ReplayAfterEviction \in [0 .. ReplaySlots - 1 -> SeqNum]
         /\ GroupsAfterEviction \in [0 .. GroupSlots - 1 -> Groups]
<1>1. CASE Victim = Unused
  BY <1>1 DEF ReplayAfterEviction, GroupsAfterEviction, TypeOK
<1>2. CASE Victim # Unused
  <2>1. Victim \in Packets
    BY <1>2 DEF Victim, TypeOK
  <2>2. /\ Victim.seq \in SeqNum
        /\ GroupSlot(Victim.seq) \in 0 .. GroupSlots - 1
        /\ EmptySeq \in SeqNum
    BY <2>1, PacketFields, SlotsInRange
  <2>3. ReplayAfterEviction \in [0 .. ReplaySlots - 1 -> SeqNum]
    BY <1>2, <2>2 DEF ReplayAfterEviction, SetInvalid, TypeOK
  <2>4. ASSUME NEW g \in Groups
        PROVE  [g EXCEPT !.seq = EmptySeq] \in Groups
    BY <2>2 DEF Groups
  <2>5. group_table[GroupSlot(Victim.seq)] \in Groups
    BY <2>2 DEF TypeOK
  <2>6. [group_table EXCEPT ![GroupSlot(Victim.seq)].seq = EmptySeq]
          \in [0 .. GroupSlots - 1 -> Groups]
    BY <2>4, <2>5 DEF TypeOK
  <2>7. GroupsAfterEviction \in [0 .. GroupSlots - 1 -> Groups]
    BY <1>2, <2>6 DEF GroupsAfterEviction, GroupErase, TypeOK
  <2>8. QED
    BY <2>3, <2>7
<1>3. QED
  BY <1>1, <1>2

\* Setting one slot of the anti-replay table to a sequence number.
LEMMA SetInvalidType ==
  ASSUME NEW table \in [0 .. ReplaySlots - 1 -> SeqNum], NEW seq \in SeqNum
  PROVE  SetInvalid(table, seq) \in [0 .. ReplaySlots - 1 -> SeqNum]
BY SlotsInRange DEF SetInvalid

\* The group with the new shard is a group.
LEMMA StoredGroupType ==
  ASSUME TypeOK, NEW p \in Packets, ~Malformed(p)
  PROVE  StoredGroup(p) \in Groups
<1>1. Joined(p) \in Groups /\ p.inner_index \in ShardIdx /\ index \in RingSlots
  BY JoinedType, PacketFields DEF TypeOK
<1>2. QED
  BY <1>1, SetShardType DEF StoredGroup

-----------------------------------------------------------------------------
(* Type correctness *)

\* The outputs are pairs of a sequence number and a packet index, so the
\* histories keep their type.
LEMMA OutputType ==
  ASSUME TypeOK, NEW o, Output(o),
         OutputPairs(o) \subseteq SeqNum \X Nat
  PROVE  delivered' \subseteq SeqNum \X Nat /\ redelivered' \subseteq delivered'
BY DEF TypeOK, Output

LEMMA NoOutputPairs == OutputPairs(NoOutput) = {}
BY DEF OutputPairs

LEMMA FastSendPairs ==
  ASSUME NEW p \in Packets, NEW g
  PROVE  OutputPairs(FastSend(p, g)) \subseteq {p.seq} \X Nat
<1>1. p.inner_index \in Nat
  BY PacketFields
<1>2. QED
  BY <1>1 DEF OutputPairs, FastSend

LEMMA FecResultPairs ==
  ASSUME NEW p \in Packets, NEW g, NEW ring, g.data_num \in Nat \cup {-1}
  PROVE  OutputPairs(FecResult(p, g, ring)) \subseteq {p.seq} \X Nat
<1>1. DecodedPackets(p, g) \subseteq Nat
  BY DEF DecodedPackets
<1>2. QED
  BY <1>1 DEF OutputPairs, FecResult

LEMMA InitTypeOK == Init => TypeOK
<1> SUFFICES ASSUME Init PROVE TypeOK
  OBVIOUS
<1>1. PICK heap \in [0 .. GroupSlots - 1 -> HeapGroups] :
        group_table = [k \in 0 .. GroupSlots - 1 |->
                         [heap[k] EXCEPT !.seq = EmptySeq]]
  BY DEF Init
<1>2. EmptySeq \in SeqNum
  BY SizesAssumption DEF EmptySeq, SeqNum
<1>3. ASSUME NEW g \in Groups
      PROVE  [g EXCEPT !.seq = EmptySeq] \in Groups
  BY <1>2 DEF Groups
<1>4. group_table \in [0 .. GroupSlots - 1 -> Groups]
  BY <1>1, <1>3, HeapAssumption
<1>5. index \in RingSlots
  BY SizesAssumption DEF Init, RingSlots
<1>6. QED
  BY <1>2, <1>4, <1>5 DEF Init, TypeOK

LEMMA StoreType ==
  ASSUME TypeOK, NEW p \in Packets, Store(p)
  PROVE  /\ fec_data' \in [RingSlots -> Packets \cup {Unused}]
         /\ index' \in RingSlots
         /\ p.seq \in SeqNum
         /\ GroupSlot(p.seq) \in 0 .. GroupSlots - 1
         /\ StoredGroup(p) \in Groups
         /\ ReplayAfterEviction \in [0 .. ReplaySlots - 1 -> SeqNum]
         /\ SetInvalid(ReplayAfterEviction, p.seq)
              \in [0 .. ReplaySlots - 1 -> SeqNum]
         /\ GroupsAfterEviction \in [0 .. GroupSlots - 1 -> Groups]
<1>1. index' \in RingSlots
  BY SizesAssumption DEF Store, TypeOK, RingSlots
<1>2. fec_data' \in [RingSlots -> Packets \cup {Unused}]
  BY DEF Store, StoredRing, TypeOK
<1>3. p.seq \in SeqNum /\ GroupSlot(p.seq) \in 0 .. GroupSlots - 1
  BY PacketFields, SlotsInRange
<1>4. StoredGroup(p) \in Groups
  BY StoredGroupType DEF Store, Accepted
<1>5. QED
  BY <1>1, <1>2, <1>3, <1>4, EvictionType, SetInvalidType

LEMMA NextTypeOK == TypeOK /\ [Next]_vars => TypeOK'
<1> SUFFICES ASSUME TypeOK, [Next]_vars PROVE TypeOK'
  OBVIOUS
<1>1. ASSUME NEW p \in Packets,
             \/ RejectHeader(p)
             \/ RejectReplay(p)
             \/ RefuseShard(p)
      PROVE  TypeOK'
  <2>1. Output(NoOutput) /\ UNCHANGED <<anti_replay, fec_data, group_table, index>>
    BY <1>1 DEF RejectHeader, RejectReplay, RefuseShard
  <2>2. delivered' \subseteq SeqNum \X Nat /\ redelivered' \subseteq delivered'
    BY <2>1, NoOutputPairs, OutputType
  <2>3. QED
    BY <2>1, <2>2 DEF TypeOK
<1>2. ASSUME NEW p \in Packets, EvictSelf(p)
      PROVE  TypeOK'
  <2> DEFINE g == [Joined(p) EXCEPT !.seq = EmptySeq]
  <2>1. delivered' \subseteq SeqNum \X Nat /\ redelivered' \subseteq delivered'
    BY <1>2, NoOutputPairs, OutputType DEF EvictSelf
  <2>2. anti_replay' \in [0 .. ReplaySlots - 1 -> SeqNum]
    BY <1>2, EvictionType DEF EvictSelf
  <2>3. p.seq \in SeqNum /\ EmptySeq \in SeqNum
    BY PacketFields, SlotsInRange
  <2>4. ASSUME NEW h \in Groups
        PROVE  [h EXCEPT !.seq = EmptySeq] \in Groups
    BY <2>3 DEF Groups
  <2>5. g \in Groups
    BY <2>4, JoinedType
  <2>6. group_table' \in [0 .. GroupSlots - 1 -> Groups]
    BY <1>2, <2>5 DEF EvictSelf, TypeOK
  <2>7. UNCHANGED <<fec_data, index>>
    BY <1>2 DEF EvictSelf
  <2>8. QED
    BY <2>1, <2>2, <2>6, <2>7 DEF TypeOK
<1>3. ASSUME NEW p \in Packets, Buffer(p)
      PROVE  TypeOK'
  <2>1. Store(p)
    BY <1>3 DEF Buffer
  <2>2. anti_replay' \in [0 .. ReplaySlots - 1 -> SeqNum]
    BY <1>3, <2>1, StoreType DEF Buffer
  <2>3. group_table' \in [0 .. GroupSlots - 1 -> Groups]
    BY <1>3, <2>1, StoreType DEF Buffer
  <2>4. OutputPairs(FastSend(p, StoredGroup(p))) \subseteq SeqNum \X Nat
    BY <2>1, StoreType, FastSendPairs
  <2>5. Output(FastSend(p, StoredGroup(p)))
    BY <1>3 DEF Buffer
  <2>6. delivered' \subseteq SeqNum \X Nat /\ redelivered' \subseteq delivered'
    BY <2>4, <2>5, OutputType
  <2>7. QED
    BY <2>1, <2>2, <2>3, <2>6, StoreType DEF TypeOK
<1>4. ASSUME NEW p \in Packets, Decode(p)
      PROVE  TypeOK'
  <2> DEFINE g == StoredGroup(p)
             o == FecResult(p, g, StoredRing(p))
  <2>1. Store(p) /\ Output(o)
    BY <1>4 DEF Decode
  <2>2. anti_replay' \in [0 .. ReplaySlots - 1 -> SeqNum]
    BY <1>4, <2>1, StoreType DEF Decode
  <2>3. ASSUME NEW h \in Groups, NEW b \in BOOLEAN
        PROVE  [h EXCEPT !.fec_done = b] \in Groups
    BY DEF Groups
  <2>4. (p.type = 1 => DataCheck(g, StoredRing(p))) \in BOOLEAN
    OBVIOUS
  <2>5. g \in Groups
    BY <2>1, StoreType
  <2>6. group_table' \in [0 .. GroupSlots - 1 -> Groups]
    BY <1>4, <2>1, <2>3, <2>4, <2>5, StoreType DEF Decode
  <2>7. g.data_num \in Nat \cup {-1}
    BY <2>5 DEF Groups
  <2>8. OutputPairs(o) \subseteq SeqNum \X Nat
    BY <2>1, <2>7, StoreType, FecResultPairs
  <2>9. delivered' \subseteq SeqNum \X Nat /\ redelivered' \subseteq delivered'
    BY <2>1, <2>8, OutputType
  <2>10. QED
    BY <2>1, <2>2, <2>6, <2>9, StoreType DEF TypeOK
<1>5. CASE UNCHANGED vars
  BY <1>5 DEF vars, TypeOK
<1>6. QED
  BY <1>1, <1>2, <1>3, <1>4, <1>5 DEF Next, Receive

\* Every reachable state is well typed, for every size of the tables and
\* every traffic.
THEOREM TypeCorrect == Spec => []TypeOK
BY InitTypeOK, NextTypeOK, PTL DEF Spec

-----------------------------------------------------------------------------
(* The shard map *)

\* A group that survives the eviction is untouched, and is not the group of
\* the evicted datagram.
LEMMA EvictedGroups ==
  ASSUME TypeOK, NEW k \in 0 .. GroupSlots - 1,
         GroupsAfterEviction[k].seq # EmptySeq
  PROVE  /\ GroupsAfterEviction[k] = group_table[k]
         /\ Victim # Unused /\ GroupSlot(Victim.seq) = k
              => group_table[k].seq # Victim.seq
<1>1. CASE Victim = Unused
  BY <1>1 DEF GroupsAfterEviction
<1>2. CASE Victim # Unused
  <2>1. Victim \in Packets
    BY <1>2 DEF Victim, TypeOK
  <2>2. GroupSlot(Victim.seq) \in 0 .. GroupSlots - 1
    BY <2>1, PacketFields, SlotsInRange
  <2>3. group_table[GroupSlot(Victim.seq)] \in Groups
    BY <2>2 DEF TypeOK
  <2>4. [group_table[GroupSlot(Victim.seq)] EXCEPT !.seq = EmptySeq].seq = EmptySeq
    BY <2>3 DEF Groups
  <2>5. QED
    BY <1>2, <2>2, <2>4 DEF GroupsAfterEviction, GroupErase, TypeOK
<1>3. QED
  BY <1>1, <1>2

\* The map of the group just extended points at the group's own shards in the
\* ring as it is after the store.
LEMMA StoredShards ==
  ASSUME TypeOK, GroupsPointIntoRing, NoSentinelSeq,
         NEW p \in Packets, Store(p)
  PROVE  /\ StoredGroup(p).seq = p.seq
         /\ p.inner_index \in DOMAIN StoredGroup(p).shards
         /\ StoredGroup(p).shards[p.inner_index] = index
         /\ \A i \in DOMAIN StoredGroup(p).shards :
              /\ StoredGroup(p).shards[i] \in RingSlots
              /\ StoredRing(p)[StoredGroup(p).shards[i]] \in Packets
              /\ StoredRing(p)[StoredGroup(p).shards[i]].seq = p.seq
              /\ StoredRing(p)[StoredGroup(p).shards[i]].inner_index = i
<1> DEFINE old == GroupFindOrCreate(p.seq).shards
           new == [j \in DOMAIN old \cup {p.inner_index} |->
                     IF j = p.inner_index THEN index ELSE old[j]]
<1>1. /\ Joined(p) \in Groups
      /\ Joined(p).seq = p.seq
      /\ Joined(p).shards = old
      /\ GroupFindOrCreate(p.seq) \in Groups
  BY JoinedType
<1>2. ASSUME NEW g \in Groups, NEW h, NEW n
      PROVE  /\ [g EXCEPT !.shards = h, !.shard_count = n].shards = h
             /\ [g EXCEPT !.shards = h, !.shard_count = n].seq = g.seq
  BY DEF Groups
<1>3. StoredGroup(p) = [Joined(p) EXCEPT !.shards = new, !.shard_count = @ + 1]
  BY <1>1 DEF StoredGroup, SetShard
<1>4. StoredGroup(p).shards = new /\ StoredGroup(p).seq = p.seq
  BY <1>1, <1>2, <1>3
<1>5. p.seq \in SeqNum /\ GroupSlot(p.seq) \in 0 .. GroupSlots - 1
  BY PacketFields, SlotsInRange
<1>6. ASSUME NEW i \in DOMAIN old
      PROVE  old[i] \in RingSlots /\ old[i] # index /\ RingHolds(fec_data, old[i], p.seq, i)
  <2>1. group_table[GroupSlot(p.seq)].seq = p.seq
    BY <1>5, NewGroupType DEF GroupFindOrCreate
  <2>2. GroupFindOrCreate(p.seq) = group_table[GroupSlot(p.seq)]
    BY <2>1 DEF GroupFindOrCreate
  <2>3. p.seq # EmptySeq
    BY DEF NoSentinelSeq
  <2>4. RingHolds(fec_data, old[i], p.seq, i)
    BY <1>5, <2>1, <2>2, <2>3 DEF GroupsPointIntoRing
  <2>5. old[i] \in RingSlots
    <3>1. PICK D \in SUBSET ShardIdx : old \in [D -> RingSlots]
      BY <1>1 DEF Groups, ShardMaps
    <3>2. QED
      BY <3>1
  <2>6. ~OwnVictim(p)
    BY DEF Store
  <2>7. old[i] # index
    BY <2>4, <2>6 DEF RingHolds, OwnVictim, Victim
  <2>8. QED
    BY <2>4, <2>5, <2>7
<1>7. index \in RingSlots /\ fec_data \in [RingSlots -> Packets \cup {Unused}]
  BY DEF TypeOK
<1>8. ASSUME NEW i \in DOMAIN new
      PROVE  /\ new[i] \in RingSlots
             /\ StoredRing(p)[new[i]] \in Packets
             /\ StoredRing(p)[new[i]].seq = p.seq
             /\ StoredRing(p)[new[i]].inner_index = i
  <2>1. CASE i = p.inner_index
    BY <1>7, <2>1 DEF StoredRing
  <2>2. CASE i # p.inner_index
    <3>1. i \in DOMAIN old /\ new[i] = old[i]
      BY <2>2
    <3>2. StoredRing(p)[old[i]] = fec_data[old[i]]
      BY <1>6, <1>7, <3>1 DEF StoredRing
    <3>3. QED
      BY <1>6, <1>7, <3>1, <3>2 DEF RingHolds
  <2>3. QED
    BY <2>1, <2>2
<1>9. p.inner_index \in DOMAIN new /\ new[p.inner_index] = index
  OBVIOUS
<1>10. QED
  BY <1>4, <1>8, <1>9

\* Storing a datagram keeps every group's map right, the extended group's and
\* those of the groups the eviction left alone.
LEMMA StoreKeepsMaps ==
  ASSUME TypeOK, GroupsPointIntoRing, NoSentinelSeq,
         NEW p \in Packets, Store(p), NEW h,
         h.seq = p.seq, h.shards = StoredGroup(p).shards,
         group_table' = [GroupsAfterEviction EXCEPT ![GroupSlot(p.seq)] = h]
  PROVE  GroupsPointIntoRing'
<1> SUFFICES ASSUME NEW k \in 0 .. GroupSlots - 1,
                    group_table'[k].seq # EmptySeq
             PROVE  /\ GroupSlot(group_table'[k].seq) = k
                    /\ \A i \in DOMAIN group_table'[k].shards :
                         RingHolds(fec_data', group_table'[k].shards[i],
                                   group_table'[k].seq, i)
  BY DEF GroupsPointIntoRing
<1>1. fec_data' = StoredRing(p)
  BY DEF Store
<1>2. /\ index \in RingSlots
      /\ fec_data \in [RingSlots -> Packets \cup {Unused}]
      /\ group_table[k] \in Groups
  BY DEF TypeOK
<1>3. Unused \notin Packets
  BY PacketsAssumption
<1>4. GroupsAfterEviction \in [0 .. GroupSlots - 1 -> Groups]
  BY EvictionType
<1>5. CASE k = GroupSlot(p.seq)
  <2>1. group_table'[k] = h
    BY <1>4, <1>5
  <2>2. ASSUME NEW i \in DOMAIN h.shards
        PROVE  RingHolds(fec_data', h.shards[i], h.seq, i)
    BY <1>1, <1>3, StoredShards DEF RingHolds
  <2>3. QED
    BY <1>5, <2>1, <2>2
<1>6. CASE k # GroupSlot(p.seq)
  <2>1. group_table'[k] = GroupsAfterEviction[k]
    BY <1>4, <1>6
  <2>2. /\ group_table'[k] = group_table[k]
        /\ Victim # Unused /\ GroupSlot(Victim.seq) = k
             => group_table[k].seq # Victim.seq
    BY <2>1, EvictedGroups
  <2>3. /\ GroupSlot(group_table[k].seq) = k
        /\ \A i \in DOMAIN group_table[k].shards :
             RingHolds(fec_data, group_table[k].shards[i],
                       group_table[k].seq, i)
    BY <2>2 DEF GroupsPointIntoRing
  <2>4. ASSUME NEW i \in DOMAIN group_table[k].shards
        PROVE  RingHolds(fec_data', group_table[k].shards[i],
                         group_table[k].seq, i)
    <3> DEFINE slot == group_table[k].shards[i]
    <3>1. slot \in RingSlots
      <4>1. PICK D \in SUBSET ShardIdx : group_table[k].shards \in [D -> RingSlots]
        BY <1>2 DEF Groups, ShardMaps
      <4>2. QED
        BY <4>1
    <3>2. slot # index
      BY <2>2, <2>3 DEF RingHolds, Victim
    <3>3. fec_data'[slot] = fec_data[slot]
      BY <1>1, <1>2, <3>1, <3>2 DEF StoredRing
    <3>4. RingHolds(fec_data, slot, group_table[k].seq, i)
      BY <2>3
    <3>5. group_table'[k] = group_table[k]
      BY <2>2
    <3>6. QED
      BY <2>2, <3>3, <3>4 DEF RingHolds
  <2>5. QED
    BY <2>2, <2>3, <2>4
<1>7. QED
  BY <1>5, <1>6

LEMMA InitMaps == Init => GroupsPointIntoRing
<1> SUFFICES ASSUME Init, NEW k \in 0 .. GroupSlots - 1
             PROVE  group_table[k].seq = EmptySeq
  BY DEF GroupsPointIntoRing
<1>1. PICK heap \in [0 .. GroupSlots - 1 -> HeapGroups] :
        group_table = [j \in 0 .. GroupSlots - 1 |->
                         [heap[j] EXCEPT !.seq = EmptySeq]]
  BY DEF Init
<1>2. heap[k] \in Groups
  BY HeapAssumption
<1>3. [heap[k] EXCEPT !.seq = EmptySeq].seq = EmptySeq
  BY <1>2 DEF Groups
<1>4. QED
  BY <1>1, <1>3

LEMMA NextMaps ==
  ASSUME NoSentinelSeq
  PROVE  TypeOK /\ GroupsPointIntoRing /\ [Next]_vars => GroupsPointIntoRing'
<1> SUFFICES ASSUME TypeOK, GroupsPointIntoRing, [Next]_vars
             PROVE  GroupsPointIntoRing'
  OBVIOUS
<1>1. ASSUME UNCHANGED <<fec_data, group_table>>
      PROVE  GroupsPointIntoRing'
  BY <1>1 DEF GroupsPointIntoRing
<1>2. ASSUME NEW p \in Packets,
             \/ RejectHeader(p)
             \/ RejectReplay(p)
             \/ RefuseShard(p)
      PROVE  GroupsPointIntoRing'
  BY <1>1, <1>2 DEF RejectHeader, RejectReplay, RefuseShard
<1>3. ASSUME NEW p \in Packets, EvictSelf(p)
      PROVE  GroupsPointIntoRing'
  <2>1. fec_data' = fec_data
    BY <1>3 DEF EvictSelf
  <2>2. [Joined(p) EXCEPT !.seq = EmptySeq].seq = EmptySeq
    BY JoinedType DEF Groups
  <2>3. ASSUME NEW k \in 0 .. GroupSlots - 1, group_table'[k].seq # EmptySeq
        PROVE  group_table'[k] = group_table[k]
    BY <1>3, <2>2, <2>3 DEF EvictSelf, TypeOK
  <2>4. QED
    BY <2>1, <2>3 DEF GroupsPointIntoRing
<1>4. ASSUME NEW p \in Packets, Buffer(p)
      PROVE  GroupsPointIntoRing'
  <2> DEFINE g == StoredGroup(p)
  <2>1. Store(p)
    BY <1>4 DEF Buffer
  <2>2. group_table' = [GroupsAfterEviction EXCEPT ![GroupSlot(p.seq)] = g]
    BY <1>4 DEF Buffer
  <2>3. g.seq = p.seq
    BY <2>1, StoredShards
  <2>4. QED
    BY <2>1, <2>2, <2>3, StoreKeepsMaps
<1>5. ASSUME NEW p \in Packets, Decode(p)
      PROVE  GroupsPointIntoRing'
  <2> DEFINE g == StoredGroup(p)
             h == [g EXCEPT !.fec_done =
                     (p.type = 1 => DataCheck(g, StoredRing(p)))]
  <2>1. Store(p)
    BY <1>5 DEF Decode
  <2>2. group_table' = [GroupsAfterEviction EXCEPT ![GroupSlot(p.seq)] = h]
    BY <1>5 DEF Decode
  <2>3. g.seq = p.seq /\ g \in Groups
    BY <2>1, StoredShards, StoreType
  <2>4. h.seq = p.seq /\ h.shards = g.shards
    BY <2>3 DEF Groups
  <2>5. QED
    BY <2>1, <2>2, <2>4, StoreKeepsMaps
<1>6. QED
  BY <1>1, <1>2, <1>3, <1>4, <1>5 DEF Next, Receive, vars

\* The slots of the group table always point at their own shards.
THEOREM MapsCorrect ==
  ASSUME NoSentinelSeq
  PROVE  Spec => []GroupsPointIntoRing
<1>1. TypeOK /\ GroupsPointIntoRing /\ [Next]_vars => GroupsPointIntoRing'
  BY NextMaps
<1>2. QED
  BY <1>1, InitMaps, TypeCorrect, PTL DEF Spec

\* Whatever datagrams arrive in whatever order, a bit set in the bitmap of the
\* group input() works on means the ring still holds that shard of that group,
\* as long as no group is numbered like an empty slot.
THEOREM ShardMapsValid ==
  ASSUME NoSentinelSeq
  PROVE  Spec => []BitmapBitsAreValid
<1>1. TypeOK /\ GroupsPointIntoRing => BitmapBitsAreValid
  <2> SUFFICES ASSUME TypeOK, GroupsPointIntoRing, NEW p \in Packets,
                      NEW i \in DOMAIN GroupFindOrCreate(p.seq).shards
               PROVE  RingHolds(fec_data, GroupFindOrCreate(p.seq).shards[i],
                                p.seq, i)
    BY DEF BitmapBitsAreValid
  <2>1. p.seq \in SeqNum /\ GroupSlot(p.seq) \in 0 .. GroupSlots - 1
    BY PacketFields, SlotsInRange
  <2>2. group_table[GroupSlot(p.seq)].seq = p.seq
    BY <2>1, NewGroupType DEF GroupFindOrCreate
  <2>3. GroupFindOrCreate(p.seq) = group_table[GroupSlot(p.seq)]
    BY <2>2 DEF GroupFindOrCreate
  <2>4. p.seq # EmptySeq
    BY DEF NoSentinelSeq
  <2>5. QED
    BY <2>1, <2>2, <2>3, <2>4 DEF GroupsPointIntoRing
<1>2. QED
  BY <1>1, TypeCorrect, MapsCorrect, PTL

-----------------------------------------------------------------------------
(* What is delivered *)

\* The shards a recovery combines are all shards of the arriving datagram's
\* word.
LEMMA RecoveredWord ==
  ASSUME TypeOK, GroupsPointIntoRing, NoSentinelSeq, OneWordPerSeq,
         NEW p \in Packets, Store(p)
  PROVE  Recovered(StoredGroup(p), StoredRing(p)) = p.word
<1> DEFINE words == ShardWords(StoredGroup(p), StoredRing(p))
<1>1. ASSUME NEW i \in DOMAIN StoredGroup(p).shards
      PROVE  StoredRing(p)[StoredGroup(p).shards[i]].word = p.word
  BY StoredShards DEF OneWordPerSeq
<1>2. p.inner_index \in DOMAIN StoredGroup(p).shards
  BY StoredShards
<1>3. words = {p.word}
  BY <1>1, <1>2 DEF ShardWords
<1>4. (CHOOSE w \in words : TRUE) = p.word
  BY <1>3
<1>5. QED
  BY <1>3, <1>4 DEF Recovered

LEMMA NextGenuine ==
  ASSUME NoSentinelSeq, OneWordPerSeq
  PROVE  /\ TypeOK /\ GroupsPointIntoRing /\ DeliveredIsGenuine
         /\ [Next]_vars
         => DeliveredIsGenuine'
<1> SUFFICES ASSUME TypeOK, GroupsPointIntoRing, DeliveredIsGenuine, [Next]_vars
             PROVE  DeliveredIsGenuine'
  OBVIOUS
<1>1. ASSUME output' = NoOutput
      PROVE  DeliveredIsGenuine'
  BY <1>1 DEF DeliveredIsGenuine
<1>2. ASSUME NEW p \in Packets,
             \/ RejectHeader(p)
             \/ RejectReplay(p)
             \/ RefuseShard(p)
             \/ EvictSelf(p)
      PROVE  DeliveredIsGenuine'
  BY <1>1, <1>2 DEF RejectHeader, RejectReplay, RefuseShard, EvictSelf, Output
<1>3. ASSUME NEW p \in Packets, Buffer(p)
      PROVE  DeliveredIsGenuine'
  <2>1. output' = FastSend(p, StoredGroup(p))
    BY <1>3 DEF Buffer, Output
  <2>2. output' # NoOutput => output'.seq = p.seq /\ output'.word = p.word
    BY <2>1 DEF FastSend
  <2>3. QED
    BY <2>2 DEF DeliveredIsGenuine
<1>4. ASSUME NEW p \in Packets, Decode(p)
      PROVE  DeliveredIsGenuine'
  <2>1. output' = FecResult(p, StoredGroup(p), StoredRing(p)) /\ Store(p)
    BY <1>4 DEF Decode, Output
  <2>2. output' # NoOutput => output'.seq = p.seq /\ output'.word = p.word
    BY <2>1, RecoveredWord DEF FecResult
  <2>3. QED
    BY <2>2 DEF DeliveredIsGenuine
<1>5. CASE UNCHANGED vars
  BY <1>5 DEF vars, DeliveredIsGenuine
<1>6. QED
  BY <1>2, <1>3, <1>4, <1>5 DEF Next, Receive

\* Everything handed to the application is a word that was encoded under its
\* sequence number: recovery never mixes groups.
THEOREM GenuineDelivery ==
  ASSUME NoSentinelSeq, OneWordPerSeq
  PROVE  Spec => []DeliveredIsGenuine
<1>1. Init => DeliveredIsGenuine
  BY DEF Init, DeliveredIsGenuine
<1>2. /\ TypeOK /\ GroupsPointIntoRing /\ DeliveredIsGenuine
      /\ [Next]_vars
      => DeliveredIsGenuine'
  BY NextGenuine
<1>3. Spec => []GroupsPointIntoRing
  BY MapsCorrect
<1>4. QED
  BY <1>1, <1>2, <1>3, TypeCorrect, PTL DEF Spec

-----------------------------------------------------------------------------
(* At most once *)

\* Every group that was handed out is remembered in its replay slot.
DeliveredIsRemembered ==
  \A d \in delivered :
    /\ ~IsValid(d[1])
    /\ \E p \in Packets : p.seq = d[1]

\* Remembering one group forgets no other, if their slots are distinct.
LEMMA SetInvalidKeeps ==
  ASSUME SeqsFitReplayTable,
         NEW table \in [0 .. ReplaySlots - 1 -> SeqNum],
         NEW p \in Packets, NEW q \in Packets,
         table[ReplaySlot(p.seq)] = p.seq
  PROVE  SetInvalid(table, q.seq)[ReplaySlot(p.seq)] = p.seq
<1>1. /\ ReplaySlot(p.seq) \in 0 .. ReplaySlots - 1
      /\ ReplaySlot(q.seq) \in 0 .. ReplaySlots - 1
  BY PacketFields, SlotsInRange
<1>2. ReplaySlot(p.seq) = ReplaySlot(q.seq) => p.seq = q.seq
  BY DEF SeqsFitReplayTable
<1>3. QED
  BY <1>1, <1>2 DEF SetInvalid

LEMMA EvictionRemembers ==
  ASSUME TypeOK, SeqsFitReplayTable, NEW p \in Packets, ~IsValid(p.seq)
  PROVE  ReplayAfterEviction[ReplaySlot(p.seq)] = p.seq
<1>1. anti_replay[ReplaySlot(p.seq)] = p.seq
  BY DEF IsValid
<1>2. CASE Victim = Unused
  BY <1>1, <1>2 DEF ReplayAfterEviction
<1>3. CASE Victim # Unused
  <2>1. Victim \in Packets
    BY <1>3 DEF Victim, TypeOK
  <2>2. anti_replay \in [0 .. ReplaySlots - 1 -> SeqNum]
    BY DEF TypeOK
  <2>3. QED
    BY <1>1, <1>3, <2>1, <2>2, SetInvalidKeeps DEF ReplayAfterEviction
<1>4. QED
  BY <1>2, <1>3

LEMMA NextAtMostOnce ==
  ASSUME SeqsFitReplayTable, EncoderHeaders
  PROVE  /\ TypeOK /\ DeliveredIsRemembered /\ AtMostOnce
         /\ [Next]_vars
         => DeliveredIsRemembered' /\ AtMostOnce'
<1> SUFFICES ASSUME TypeOK, DeliveredIsRemembered, AtMostOnce, [Next]_vars
             PROVE  DeliveredIsRemembered' /\ AtMostOnce'
  OBVIOUS
<1>1. ASSUME UNCHANGED <<delivered, redelivered>>,
             \A p \in Packets :
               ~IsValid(p.seq) => anti_replay'[ReplaySlot(p.seq)] = p.seq
      PROVE  DeliveredIsRemembered' /\ AtMostOnce'
  BY <1>1 DEF DeliveredIsRemembered, AtMostOnce, IsValid
<1>2. Output(NoOutput) => UNCHANGED <<delivered, redelivered>>
  BY NoOutputPairs DEF Output
<1>3. ASSUME NEW p \in Packets,
             \/ RejectHeader(p)
             \/ RejectReplay(p)
             \/ RefuseShard(p)
      PROVE  DeliveredIsRemembered' /\ AtMostOnce'
  BY <1>1, <1>2, <1>3 DEF RejectHeader, RejectReplay, RefuseShard, IsValid
<1>4. ASSUME NEW p \in Packets, EvictSelf(p)
      PROVE  DeliveredIsRemembered' /\ AtMostOnce'
  BY <1>1, <1>2, <1>4, EvictionRemembers DEF EvictSelf
<1>5. ASSUME NEW p \in Packets, Buffer(p)
      PROVE  DeliveredIsRemembered' /\ AtMostOnce'
  <2>1. Store(p) /\ Output(FastSend(p, StoredGroup(p)))
    BY <1>5 DEF Buffer
  <2>2. p.data_num # 0
    BY <2>1, PacketFields DEF Store, Accepted, Malformed, EncoderHeaders
  <2>3. Output(NoOutput)
    BY <2>1, <2>2 DEF FastSend
  <2>4. ASSUME NEW q \in Packets, ~IsValid(q.seq)
        PROVE  anti_replay'[ReplaySlot(q.seq)] = q.seq
    <3>1. ReplayAfterEviction[ReplaySlot(q.seq)] = q.seq
      BY <2>4, EvictionRemembers
    <3>2. SetInvalid(ReplayAfterEviction, p.seq)[ReplaySlot(q.seq)] = q.seq
      BY <3>1, EvictionType, SetInvalidKeeps
    <3>3. QED
      BY <1>5, <3>1, <3>2 DEF Buffer
  <2>5. QED
    BY <1>1, <1>2, <2>3, <2>4
<1>6. ASSUME NEW p \in Packets, Decode(p)
      PROVE  DeliveredIsRemembered' /\ AtMostOnce'
  <2> DEFINE o == FecResult(p, StoredGroup(p), StoredRing(p))
  <2>1. Store(p) /\ Output(o)
    BY <1>6 DEF Decode
  <2>2. anti_replay' = SetInvalid(ReplayAfterEviction, p.seq)
    BY <1>6 DEF Decode
  <2>3. StoredGroup(p).data_num \in Nat \cup {-1}
    BY <2>1, StoreType DEF Groups
  <2>4. OutputPairs(o) \subseteq {p.seq} \X Nat
    BY <2>3, FecResultPairs
  <2>5. anti_replay'[ReplaySlot(p.seq)] = p.seq
    BY <2>2, EvictionType, PacketFields, SlotsInRange DEF SetInvalid
  <2>6. ASSUME NEW q \in Packets, ~IsValid(q.seq)
        PROVE  anti_replay'[ReplaySlot(q.seq)] = q.seq
    <3>1. ReplayAfterEviction[ReplaySlot(q.seq)] = q.seq
      BY <2>6, EvictionRemembers
    <3>2. QED
      BY <2>2, <3>1, EvictionType, SetInvalidKeeps
  <2>7. IsValid(p.seq)
    BY <2>1 DEF Store, Accepted
  <2>8. delivered \cap OutputPairs(o) = {}
    BY <2>4, <2>7 DEF DeliveredIsRemembered
  <2>9. AtMostOnce'
    BY <2>1, <2>8 DEF AtMostOnce, Output
  <2>10. ASSUME NEW d \in delivered'
         PROVE  ~IsValid(d[1])' /\ \E q \in Packets : q.seq = d[1]
    <3>1. CASE d \in delivered
      BY <2>6, <3>1 DEF DeliveredIsRemembered, IsValid
    <3>2. CASE d \in OutputPairs(o)
      BY <2>4, <2>5, <3>2 DEF IsValid
    <3>3. QED
      BY <2>1, <3>1, <3>2 DEF Output
  <2>11. QED
    BY <2>9, <2>10 DEF DeliveredIsRemembered
<1>7. CASE UNCHANGED vars
  BY <1>1, <1>7 DEF vars, IsValid
<1>8. QED
  BY <1>3, <1>4, <1>5, <1>6, <1>7 DEF Next, Receive

\* However datagrams are duplicated and reordered, no packet is handed out
\* twice while the groups in flight fit the anti-replay table.
THEOREM DeliveredAtMostOnce ==
  ASSUME SeqsFitReplayTable, EncoderHeaders
  PROVE  Spec => []AtMostOnce
<1>1. Init => DeliveredIsRemembered /\ AtMostOnce
  BY DEF Init, DeliveredIsRemembered, AtMostOnce
<1>2. /\ TypeOK /\ DeliveredIsRemembered /\ AtMostOnce
      /\ [Next]_vars
      => DeliveredIsRemembered' /\ AtMostOnce'
  BY NextAtMostOnce
<1>3. QED
  BY <1>1, <1>2, TypeCorrect, PTL DEF Spec

-----------------------------------------------------------------------------
(* The ring and the group table agree *)

\* The ring fills from slot 0 and is never emptied, and holds only datagrams
\* that passed the header checks.
RingFilled ==
  /\ \/ \A k \in RingSlots : fec_data[k] # Unused
     \/ \A k \in RingSlots : fec_data[k] # Unused <=> k < index
  /\ \A k \in RingSlots : fec_data[k] # Unused => ~Malformed(fec_data[k])

\* The converse of GroupsPointIntoRing.  A group that is still open and has a
\* shard in the ring owns its slot of the group table, its map has every shard
\* of the ring, its counter counts them, and they are not enough.
OpenGroupsKnowTheirShards ==
  \A p \in Packets :
    LET g == group_table[GroupSlot(p.seq)]
    IN  IsValid(p.seq) =>
          /\ g.seq # p.seq => RingShards(p.seq) = {}
          /\ g.seq = p.seq =>
               /\ \A k \in RingShards(p.seq) :
                     /\ fec_data[k].inner_index \in DOMAIN g.shards
                     /\ g.shards[fec_data[k].inner_index] = k
               /\ g.shard_count = Cardinality(DOMAIN g.shards)
               /\ g.shard_count < g.data_num
               /\ p.data_num # 0 => g.data_num = p.data_num

\* The sequence number of the evicted datagram is closed.
LEMMA EvictionCloses ==
  ASSUME TypeOK, Victim # Unused
  PROVE  /\ Victim \in Packets
         /\ ReplayAfterEviction[ReplaySlot(Victim.seq)] = Victim.seq
<1>1. Victim \in Packets
  BY DEF Victim, TypeOK
<1>2. ReplaySlot(Victim.seq) \in 0 .. ReplaySlots - 1
  BY <1>1, PacketFields, SlotsInRange
<1>3. QED
  BY <1>1, <1>2 DEF ReplayAfterEviction, SetInvalid, TypeOK

\* A datagram that passes the header checks names its group's code.
LEMMA AcceptedHeader ==
  ASSUME EncoderHeaders, NEW p \in Packets, ~Malformed(p)
  PROVE  p.data_num \in Nat \ {0} /\ p.inner_index \in ShardIdx
BY PacketFields DEF EncoderHeaders, Malformed

\* The group after an accepted datagram has the datagram's code, and the shards
\* and the counter it had.
LEMMA JoinedHeader ==
  ASSUME TypeOK, EncoderHeaders, NEW p \in Packets, Accepted(p)
  PROVE  /\ Joined(p).data_num = p.data_num
         /\ Joined(p).len = p.len
         /\ Joined(p).shards = GroupFindOrCreate(p.seq).shards
         /\ Joined(p).shard_count = GroupFindOrCreate(p.seq).shard_count
<1> DEFINE g == GroupFindOrCreate(p.seq)
<1>1. g \in Groups
  BY JoinedType
<1>2. p.data_num # 0 /\ ~Mismatch(p, g)
  BY AcceptedHeader DEF Accepted, Refused
<1>3. CASE g.data_num = -1
  <2>1. Joined(p) = [g EXCEPT !.type = p.type, !.data_num = p.data_num,
                              !.redundant_num = p.redundant_num, !.len = p.len]
    BY <1>2, <1>3 DEF Joined
  <2>2. QED
    BY <1>1, <2>1 DEF Groups
<1>4. CASE g.data_num # -1
  <2>1. Joined(p) = [g EXCEPT !.type = p.type]
    BY <1>4 DEF Joined
  <2>2. g.data_num = p.data_num /\ g.len = p.len
    BY <1>2, <1>4 DEF Mismatch
  <2>3. QED
    BY <1>1, <2>1, <2>2 DEF Groups
<1>5. QED
  BY <1>3, <1>4

\* The indices of a group's map are finitely many.
LEMMA ShardMapFinite ==
  ASSUME NEW g \in Groups
  PROVE  IsFiniteSet(DOMAIN g.shards) /\ DOMAIN g.shards \subseteq ShardIdx
<1>1. PICK D \in SUBSET ShardIdx : g.shards \in [D -> RingSlots]
  BY DEF Groups, ShardMaps
<1>2. IsFiniteSet(ShardIdx)
  BY FS_Interval, SizesAssumption DEF ShardIdx
<1>3. QED
  BY <1>1, <1>2, FS_Subset

\* What the stored group knows about the ring as it is after the store.
LEMMA StoredKnows ==
  ASSUME TypeOK, OpenGroupsKnowTheirShards, EncoderHeaders,
         NEW p \in Packets, Store(p)
  PROVE  LET g == StoredGroup(p)
         IN  /\ g.seq = p.seq
             /\ g.data_num = p.data_num
             /\ g.len = p.len
             /\ g.shard_count = Cardinality(DOMAIN g.shards)
             /\ DOMAIN g.shards
                  = DOMAIN GroupFindOrCreate(p.seq).shards \cup {p.inner_index}
             /\ \A k \in RingShards(p.seq)' :
                  /\ fec_data'[k].inner_index \in DOMAIN g.shards
                  /\ g.shards[fec_data'[k].inner_index] = k
<1> DEFINE g   == StoredGroup(p)
           o   == GroupFindOrCreate(p.seq)
           new == [j \in DOMAIN o.shards \cup {p.inner_index} |->
                     IF j = p.inner_index THEN index ELSE o.shards[j]]
<1>1. /\ Accepted(p)
      /\ ~OwnVictim(p)
      /\ fec_data' = StoredRing(p)
      /\ IsValid(p.seq)
      /\ p.inner_index \notin DOMAIN o.shards
  BY DEF Store, Accepted, Refused, HasShard
<1>2. Joined(p) \in Groups /\ o \in Groups
  BY JoinedType
<1>3. /\ Joined(p).data_num = p.data_num
      /\ Joined(p).len = p.len
      /\ Joined(p).shards = o.shards
      /\ Joined(p).shard_count = o.shard_count
  BY <1>1, JoinedHeader
<1>4. ASSUME NEW d \in Groups, NEW h, NEW n
      PROVE  LET e == [d EXCEPT !.shards = h, !.shard_count = n]
             IN  /\ e.shards = h
                 /\ e.shard_count = n
                 /\ e.data_num = d.data_num
                 /\ e.len = d.len
                 /\ e.seq = d.seq
  BY DEF Groups
<1>5. g = [Joined(p) EXCEPT !.shards = new,
                            !.shard_count = Joined(p).shard_count + 1]
  BY <1>2, <1>3 DEF StoredGroup, SetShard, Groups
<1>6. /\ g.shards = new
      /\ g.shard_count = o.shard_count + 1
      /\ g.data_num = p.data_num
      /\ g.len = p.len
      /\ g.seq = p.seq
  BY <1>2, <1>3, <1>4, <1>5, JoinedType
<1>7. /\ o.shard_count = Cardinality(DOMAIN o.shards)
      /\ \A k \in RingShards(p.seq) :
            /\ fec_data[k].inner_index \in DOMAIN o.shards
            /\ o.shards[fec_data[k].inner_index] = k
  <2>1. CASE group_table[GroupSlot(p.seq)].seq = p.seq
    <3>1. o = group_table[GroupSlot(p.seq)]
      BY <2>1 DEF GroupFindOrCreate
    <3>2. QED
      BY <1>1, <2>1, <3>1 DEF OpenGroupsKnowTheirShards
  <2>2. CASE group_table[GroupSlot(p.seq)].seq # p.seq
    <3>1. o = NewGroup(p.seq)
      BY <2>2 DEF GroupFindOrCreate
    <3>2. o.shard_count = 0 /\ DOMAIN o.shards = {}
      BY <3>1 DEF NewGroup
    <3>3. RingShards(p.seq) = {}
      BY <1>1, <2>2 DEF OpenGroupsKnowTheirShards
    <3>4. QED
      BY <3>2, <3>3, FS_EmptySet
  <2>3. QED
    BY <2>1, <2>2
<1>8. DOMAIN g.shards = DOMAIN o.shards \cup {p.inner_index}
  BY <1>6
<1>9. g.shard_count = Cardinality(DOMAIN g.shards)
  <2>1. IsFiniteSet(DOMAIN o.shards)
    BY <1>2, ShardMapFinite
  <2>2. Cardinality(DOMAIN o.shards \cup {p.inner_index})
          = Cardinality(DOMAIN o.shards) + 1
    BY <1>1, <2>1, FS_AddElement
  <2>3. QED
    BY <1>6, <1>7, <1>8, <2>2
<1>10. ASSUME NEW k \in RingShards(p.seq)'
       PROVE  /\ fec_data'[k].inner_index \in DOMAIN g.shards
              /\ g.shards[fec_data'[k].inner_index] = k
  <2>1. /\ k \in RingSlots
        /\ fec_data'[k] # Unused
        /\ fec_data'[k].seq = p.seq
    BY DEF RingShards
  <2>2. index \in RingSlots /\ fec_data \in [RingSlots -> Packets \cup {Unused}]
    BY DEF TypeOK
  <2>3. CASE k = index
    <3>1. fec_data'[k] = p
      BY <1>1, <2>2, <2>3 DEF StoredRing
    <3>2. QED
      BY <1>6, <2>3, <3>1
  <2>4. CASE k # index
    <3>1. fec_data'[k] = fec_data[k]
      BY <1>1, <2>1, <2>2, <2>4 DEF StoredRing
    <3>2. k \in RingShards(p.seq)
      BY <2>1, <3>1 DEF RingShards
    <3>3. /\ fec_data[k].inner_index \in DOMAIN o.shards
          /\ o.shards[fec_data[k].inner_index] = k
      BY <1>7, <3>2
    <3>4. fec_data[k].inner_index # p.inner_index
      BY <1>1, <3>3
    <3>5. QED
      BY <1>6, <3>1, <3>3, <3>4
  <2>5. QED
    BY <2>3, <2>4
<1>11. QED
  BY <1>6, <1>8, <1>9, <1>10

\* A group other than the stored datagram's that is still open after the store
\* keeps its slot of the table and its shards in the ring.
LEMMA StoreSparesOthers ==
  ASSUME TypeOK, SeqsFitGroupTable, NEW p \in Packets, Store(p),
         NEW h, group_table' = [GroupsAfterEviction EXCEPT
                                  ![GroupSlot(p.seq)] = h],
         NEW q \in Packets, q.seq # p.seq,
         ReplayAfterEviction[ReplaySlot(q.seq)] # q.seq
  PROVE  /\ group_table'[GroupSlot(q.seq)] = group_table[GroupSlot(q.seq)]
         /\ RingShards(q.seq)' = RingShards(q.seq)
         /\ \A k \in RingShards(q.seq) : fec_data'[k] = fec_data[k]
<1>1. /\ index \in RingSlots
      /\ fec_data \in [RingSlots -> Packets \cup {Unused}]
      /\ fec_data' = [fec_data EXCEPT ![index] = p]
      /\ group_table \in [0 .. GroupSlots - 1 -> Groups]
      /\ GroupsAfterEviction \in [0 .. GroupSlots - 1 -> Groups]
  BY EvictionType DEF TypeOK, Store, StoredRing
<1>2. /\ GroupSlot(q.seq) \in 0 .. GroupSlots - 1
      /\ GroupSlot(p.seq) \in 0 .. GroupSlots - 1
  BY PacketFields, SlotsInRange
<1>3. Victim # Unused => Victim \in Packets /\ Victim.seq # q.seq
  BY EvictionCloses
<1>4. GroupSlot(q.seq) # GroupSlot(p.seq)
  BY DEF SeqsFitGroupTable
<1>5. GroupsAfterEviction[GroupSlot(q.seq)] = group_table[GroupSlot(q.seq)]
  <2>1. CASE Victim = Unused
    BY <2>1 DEF GroupsAfterEviction
  <2>2. CASE Victim # Unused
    <3>1. GroupSlot(Victim.seq) # GroupSlot(q.seq)
      BY <1>3, <2>2 DEF SeqsFitGroupTable
    <3>2. QED
      BY <1>1, <1>2, <2>2, <3>1 DEF GroupsAfterEviction, GroupErase
  <2>3. QED
    BY <2>1, <2>2
<1>6. group_table'[GroupSlot(q.seq)] = group_table[GroupSlot(q.seq)]
  BY <1>1, <1>2, <1>4, <1>5
<1>7. ASSUME NEW k \in RingSlots
      PROVE  /\ k \in RingShards(q.seq)' <=> k \in RingShards(q.seq)
             /\ k \in RingShards(q.seq) => fec_data'[k] = fec_data[k]
  <2>1. CASE k = index
    <3>1. fec_data'[k] = p
      BY <1>1, <2>1
    <3>2. k \notin RingShards(q.seq)'
      BY <3>1 DEF RingShards
    <3>3. k \notin RingShards(q.seq)
      BY <1>3, <2>1 DEF RingShards, Victim
    <3>4. QED
      BY <3>2, <3>3
  <2>2. CASE k # index
    <3>1. fec_data'[k] = fec_data[k]
      BY <1>1, <2>2
    <3>2. QED
      BY <3>1 DEF RingShards
  <2>3. QED
    BY <2>1, <2>2
<1>8. RingShards(q.seq)' = RingShards(q.seq)
  BY <1>7 DEF RingShards
<1>9. \A k \in RingShards(q.seq) : fec_data'[k] = fec_data[k]
  BY <1>7 DEF RingShards
<1>10. QED
  BY <1>6, <1>8, <1>9

\* A group closed before the eviction is closed after it, and stays closed when
\* the arriving datagram's group is closed too.
LEMMA StaysOpen ==
  ASSUME TypeOK, SeqsFitReplayTable, NEW p \in Packets, NEW q \in Packets
  PROVE  /\ ReplayAfterEviction[ReplaySlot(q.seq)] # q.seq => IsValid(q.seq)
         /\ SetInvalid(ReplayAfterEviction, p.seq)[ReplaySlot(q.seq)] # q.seq
              => /\ ReplayAfterEviction[ReplaySlot(q.seq)] # q.seq
                 /\ q.seq # p.seq
<1>1. ReplayAfterEviction[ReplaySlot(q.seq)] # q.seq => IsValid(q.seq)
  BY EvictionRemembers
<1>2. ReplayAfterEviction \in [0 .. ReplaySlots - 1 -> SeqNum]
  BY EvictionType
<1>3. SetInvalid(ReplayAfterEviction, p.seq)[ReplaySlot(p.seq)] = p.seq
  BY <1>2, PacketFields, SlotsInRange DEF SetInvalid
<1>4. ReplayAfterEviction[ReplaySlot(q.seq)] = q.seq
        => SetInvalid(ReplayAfterEviction, p.seq)[ReplaySlot(q.seq)] = q.seq
  BY <1>2, SetInvalidKeeps
<1>5. QED
  BY <1>1, <1>3, <1>4

\* The part of OpenGroupsKnowTheirShards that is about one datagram's group.
LEMMA StoreKeepsKnowledge ==
  ASSUME TypeOK, OpenGroupsKnowTheirShards, SeqsFitReplayTable,
         SeqsFitGroupTable, OneCodePerSeq, EncoderHeaders,
         NEW p \in Packets, Store(p), NEW h,
         h.seq = p.seq, h.data_num = StoredGroup(p).data_num,
         h.shard_count = StoredGroup(p).shard_count,
         h.shards = StoredGroup(p).shards,
         group_table' = [GroupsAfterEviction EXCEPT ![GroupSlot(p.seq)] = h],
         anti_replay' \in {ReplayAfterEviction,
                           SetInvalid(ReplayAfterEviction, p.seq)},
         h.shard_count < h.data_num \/ ~IsValid(p.seq)'
  PROVE  OpenGroupsKnowTheirShards'
<1> SUFFICES ASSUME NEW q \in Packets, IsValid(q.seq)'
             PROVE  LET g == group_table'[GroupSlot(q.seq)]
                    IN  /\ g.seq # q.seq => RingShards(q.seq)' = {}
                        /\ g.seq = q.seq =>
                             /\ \A k \in RingShards(q.seq)' :
                                  /\ fec_data'[k].inner_index \in DOMAIN g.shards
                                  /\ g.shards[fec_data'[k].inner_index] = k
                             /\ g.shard_count = Cardinality(DOMAIN g.shards)
                             /\ g.shard_count < g.data_num
                             /\ q.data_num # 0 => g.data_num = q.data_num
  BY DEF OpenGroupsKnowTheirShards
<1>1. anti_replay'[ReplaySlot(q.seq)] # q.seq
  BY DEF IsValid
<1>2. ReplayAfterEviction[ReplaySlot(q.seq)] # q.seq /\ IsValid(q.seq)
  BY <1>1, StaysOpen
<1>3. CASE q.seq = p.seq
  <2>1. group_table'[GroupSlot(q.seq)] = h
    BY <1>3, StoreType
  <2>2. h.shard_count < h.data_num
    BY <1>3
  <2>3. h.data_num = p.data_num /\ p.data_num # 0
    BY StoredKnows, AcceptedHeader DEF Store, Accepted
  <2>4. q.data_num # 0 => h.data_num = q.data_num
    BY <1>3, <2>3 DEF OneCodePerSeq
  <2>5. RingShards(q.seq)' = RingShards(p.seq)'
    BY <1>3
  <2>6. /\ h.shard_count = Cardinality(DOMAIN h.shards)
        /\ \A k \in RingShards(p.seq)' :
             /\ fec_data'[k].inner_index \in DOMAIN h.shards
             /\ h.shards[fec_data'[k].inner_index] = k
    BY StoredKnows
  <2>7. QED
    BY <1>3, <2>1, <2>2, <2>4, <2>5, <2>6
<1>4. CASE q.seq # p.seq
  <2>1. /\ group_table'[GroupSlot(q.seq)] = group_table[GroupSlot(q.seq)]
        /\ RingShards(q.seq)' = RingShards(q.seq)
        /\ \A k \in RingShards(q.seq) : fec_data'[k] = fec_data[k]
    BY <1>2, <1>4, StoreSparesOthers
  <2>2. QED
    BY <1>2, <2>1 DEF OpenGroupsKnowTheirShards
<1>5. QED
  BY <1>3, <1>4

\* A stored datagram that neither completes nor overfills its group leaves it
\* short of shards.
LEMMA NotYetEnough ==
  ASSUME TypeOK, OpenGroupsKnowTheirShards, EncoderHeaders,
         NEW p \in Packets, Store(p),
         ~AboutToFec(p, StoredGroup(p)), ~Overfull(p, StoredGroup(p))
  PROVE  StoredGroup(p).shard_count < StoredGroup(p).data_num
<1> DEFINE g == StoredGroup(p)
<1>1. g.data_num = p.data_num /\ p.data_num \in Nat \ {0}
  BY StoredKnows, AcceptedHeader DEF Store, Accepted
<1>2. g.shard_count \in Nat
  BY StoreType DEF Groups
<1>3. p.type = 0 \/ p.type = 1
  BY PacketFields DEF TypeCode
<1>4. QED
  BY <1>1, <1>2, <1>3 DEF AboutToFec, Overfull

\* At the start no group owns a slot and the ring is empty.
LEMMA InitKnowledge ==
  ASSUME NoSentinelSeq
  PROVE  Init => OpenGroupsKnowTheirShards
<1> SUFFICES ASSUME Init PROVE OpenGroupsKnowTheirShards
  OBVIOUS
<1>1. PICK heap \in [0 .. GroupSlots - 1 -> HeapGroups] :
        group_table = [k \in 0 .. GroupSlots - 1 |->
                         [heap[k] EXCEPT !.seq = EmptySeq]]
  BY DEF Init
<1>2. ASSUME NEW p \in Packets
      PROVE  /\ RingShards(p.seq) = {}
             /\ group_table[GroupSlot(p.seq)].seq # p.seq
  <2>1. GroupSlot(p.seq) \in 0 .. GroupSlots - 1
    BY PacketFields, SlotsInRange
  <2>2. heap[GroupSlot(p.seq)] \in Groups
    BY <2>1, HeapAssumption
  <2>3. [heap[GroupSlot(p.seq)] EXCEPT !.seq = EmptySeq].seq = EmptySeq
    BY <2>2 DEF Groups
  <2>4. group_table[GroupSlot(p.seq)].seq = EmptySeq
    BY <1>1, <2>1, <2>3
  <2>5. RingShards(p.seq) = {}
    BY DEF Init, RingShards
  <2>6. QED
    BY <2>4, <2>5 DEF NoSentinelSeq
<1>3. QED
  BY <1>2 DEF OpenGroupsKnowTheirShards

\* Every step keeps what the open groups know.
LEMMA NextKnowledge ==
  ASSUME NoSentinelSeq, SeqsFitReplayTable, SeqsFitGroupTable, OneCodePerSeq,
         EncoderHeaders
  PROVE  TypeOK /\ OpenGroupsKnowTheirShards /\ [Next]_vars
           => OpenGroupsKnowTheirShards'
<1> SUFFICES ASSUME TypeOK, OpenGroupsKnowTheirShards, [Next]_vars
             PROVE  OpenGroupsKnowTheirShards'
  OBVIOUS
<1>1. ASSUME UNCHANGED <<anti_replay, fec_data, group_table>>
      PROVE  OpenGroupsKnowTheirShards'
  BY <1>1 DEF OpenGroupsKnowTheirShards, IsValid, RingShards
<1>2. ASSUME NEW p \in Packets,
             \/ RejectHeader(p)
             \/ RejectReplay(p)
             \/ RefuseShard(p)
      PROVE  OpenGroupsKnowTheirShards'
  BY <1>1, <1>2 DEF RejectHeader, RejectReplay, RefuseShard
<1>3. ASSUME NEW p \in Packets, EvictSelf(p)
      PROVE  OpenGroupsKnowTheirShards'
  <2>1. /\ anti_replay' = ReplayAfterEviction
        /\ fec_data' = fec_data
        /\ Victim # Unused
        /\ Victim.seq = p.seq
        /\ group_table' = [group_table EXCEPT
             ![GroupSlot(p.seq)] = [Joined(p) EXCEPT !.seq = EmptySeq]]
    BY <1>3 DEF EvictSelf, OwnVictim
  <2>2. ASSUME NEW q \in Packets, IsValid(q.seq)'
        PROVE  /\ IsValid(q.seq)
               /\ group_table'[GroupSlot(q.seq)] = group_table[GroupSlot(q.seq)]
    <3>1. ReplayAfterEviction[ReplaySlot(q.seq)] # q.seq
      BY <2>1, <2>2 DEF IsValid
    <3>2. q.seq # p.seq /\ IsValid(q.seq)
      BY <2>1, <3>1, EvictionCloses, StaysOpen
    <3>3. GroupSlot(q.seq) # GroupSlot(p.seq)
      BY <3>2 DEF SeqsFitGroupTable
    <3>4. QED
      BY <2>1, <3>2, <3>3, PacketFields, SlotsInRange DEF TypeOK
  <2>3. ASSUME NEW q PROVE RingShards(q)' = RingShards(q)
    BY <2>1 DEF RingShards
  <2>4. ASSUME NEW q \in Packets, IsValid(q.seq)'
        PROVE  LET g == group_table'[GroupSlot(q.seq)]
             IN  /\ g.seq # q.seq => RingShards(q.seq)' = {}
                 /\ g.seq = q.seq =>
                      /\ \A k \in RingShards(q.seq)' :
                           /\ fec_data'[k].inner_index \in DOMAIN g.shards
                           /\ g.shards[fec_data'[k].inner_index] = k
                      /\ g.shard_count = Cardinality(DOMAIN g.shards)
                      /\ g.shard_count < g.data_num
                      /\ q.data_num # 0 => g.data_num = q.data_num
    <3>1. IsValid(q.seq) /\ fec_data' = fec_data
      BY <2>1, <2>2, <2>4
    <3>2. /\ group_table'[GroupSlot(q.seq)] = group_table[GroupSlot(q.seq)]
          /\ RingShards(q.seq)' = RingShards(q.seq)
      BY <2>2, <2>3, <2>4
    <3>3. QED
      BY <3>1, <3>2 DEF OpenGroupsKnowTheirShards
  <2>5. QED
    BY <2>4 DEF OpenGroupsKnowTheirShards
<1>4. ASSUME NEW p \in Packets, Buffer(p)
      PROVE  OpenGroupsKnowTheirShards'
  <2> DEFINE g == StoredGroup(p)
  <2>1. /\ Store(p)
        /\ ~AboutToFec(p, g)
        /\ group_table' = [GroupsAfterEviction EXCEPT ![GroupSlot(p.seq)] = g]
        /\ anti_replay' = IF Overfull(p, g)
                          THEN SetInvalid(ReplayAfterEviction, p.seq)
                          ELSE ReplayAfterEviction
    BY <1>4 DEF Buffer
  <2>2. g.seq = p.seq
    BY <2>1, StoredKnows
  <2>3. CASE Overfull(p, g)
    <3>1. ~IsValid(p.seq)'
      BY <2>1, <2>3, EvictionType, PacketFields, SlotsInRange
      DEF SetInvalid, IsValid
    <3>2. QED
      BY <2>1, <2>2, <2>3, <3>1, StoreKeepsKnowledge
  <2>4. CASE ~Overfull(p, g)
    <3>1. g.shard_count < g.data_num
      BY <2>1, <2>4, NotYetEnough
    <3>2. QED
      BY <2>1, <2>2, <2>4, <3>1, StoreKeepsKnowledge
  <2>5. QED
    BY <2>3, <2>4
<1>5. ASSUME NEW p \in Packets, Decode(p)
      PROVE  OpenGroupsKnowTheirShards'
  <2> DEFINE g == StoredGroup(p)
             h == [g EXCEPT !.fec_done =
                     (p.type = 1 => DataCheck(g, StoredRing(p)))]
  <2>1. /\ Store(p)
        /\ group_table' = [GroupsAfterEviction EXCEPT ![GroupSlot(p.seq)] = h]
        /\ anti_replay' = SetInvalid(ReplayAfterEviction, p.seq)
    BY <1>5 DEF Decode
  <2>2. g.seq = p.seq /\ g \in Groups
    BY <2>1, StoredKnows, StoreType
  <2>3. /\ h.seq = p.seq
        /\ h.data_num = g.data_num
        /\ h.shard_count = g.shard_count
        /\ h.shards = g.shards
    BY <2>2 DEF Groups
  <2>4. ~IsValid(p.seq)'
    BY <2>1, EvictionType, PacketFields, SlotsInRange DEF SetInvalid, IsValid
  <2>5. QED
    BY <2>1, <2>3, <2>4, StoreKeepsKnowledge
<1>6. QED
  BY <1>1, <1>2, <1>3, <1>4, <1>5 DEF Next, Receive, vars

\* Every group still open has its shards in the ring counted and mapped, and
\* is short of shards.
THEOREM OpenGroupsComplete ==
  ASSUME NoSentinelSeq, SeqsFitReplayTable, SeqsFitGroupTable, OneCodePerSeq,
         EncoderHeaders
  PROVE  Spec => []OpenGroupsKnowTheirShards
<1>1. Init => OpenGroupsKnowTheirShards
  BY InitKnowledge
<1>2. TypeOK /\ OpenGroupsKnowTheirShards /\ [Next]_vars
        => OpenGroupsKnowTheirShards'
  BY NextKnowledge
<1>3. QED
  BY <1>1, <1>2, TypeCorrect, PTL DEF Spec

\* Any data_num shards of a group are enough: as long as the groups in flight
\* fit the two tables and name one code each, the decoder has finished or given
\* up every group of which the ring holds data_num shards.
THEOREM EnoughIsEnough ==
  ASSUME NoSentinelSeq, SeqsFitReplayTable, SeqsFitGroupTable, OneCodePerSeq,
         EncoderHeaders
  PROVE  Spec => []RecoverableIsClosed
<1>1. TypeOK /\ OpenGroupsKnowTheirShards => RecoverableIsClosed
  <2> SUFFICES ASSUME TypeOK, OpenGroupsKnowTheirShards,
                      NEW p \in Packets, p.data_num # 0, IsValid(p.seq)
               PROVE  ~(Cardinality(RingShards(p.seq)) >= p.data_num)
    BY DEF RecoverableIsClosed
  <2> DEFINE g == group_table[GroupSlot(p.seq)]
             S == RingShards(p.seq)
  <2>1. p.data_num \in Nat
    BY PacketFields
  <2>2. CASE g.seq # p.seq
    <3>1. S = {}
      BY <2>2 DEF OpenGroupsKnowTheirShards
    <3>2. Cardinality(S) = 0
      BY <3>1, FS_EmptySet
    <3>3. QED
      BY <2>1, <3>2
  <2>3. CASE g.seq = p.seq
    <3>1. /\ \A k \in S : /\ fec_data[k].inner_index \in DOMAIN g.shards
                          /\ g.shards[fec_data[k].inner_index] = k
          /\ Cardinality(DOMAIN g.shards) < p.data_num
      BY <2>3 DEF OpenGroupsKnowTheirShards
    <3>2. IsFiniteSet(DOMAIN g.shards)
      BY ShardMapFinite, PacketFields, SlotsInRange DEF TypeOK
    <3>3. Cardinality(S) <= Cardinality(DOMAIN g.shards) /\ IsFiniteSet(S)
      <4> DEFINE f == [k \in S |-> fec_data[k].inner_index]
      <4>1. f \in Injection(S, DOMAIN g.shards)
        BY <3>1, Fun_IsInj
      <4>2. QED
        BY <3>2, <4>1, FS_Injection
    <3>4. Cardinality(S) \in Nat /\ Cardinality(DOMAIN g.shards) \in Nat
      BY <3>2, <3>3, FS_CardinalityType
    <3>5. QED
      BY <2>1, <3>1, <3>3, <3>4
  <2>4. QED
    BY <2>2, <2>3
<1>2. QED
  BY <1>1, TypeCorrect, OpenGroupsComplete, PTL
-----------------------------------------------------------------------------
(* Helpers about sequences and about the ring's arithmetic *)

\* A function on 1 .. n is a sequence of length n.
LEMMA FunctionSeq ==
  ASSUME NEW n \in Nat, NEW S, NEW f \in [1 .. n -> S]
  PROVE  f \in Seq(S) /\ Len(f) = n
OBVIOUS

\* And the other way round.
LEMMA SeqFunction ==
  ASSUME NEW S, NEW s \in Seq(S)
  PROVE  Len(s) \in Nat /\ s \in [1 .. Len(s) -> S]
OBVIOUS

\* Appending to a sequence, as a function.
LEMMA AppendIs ==
  ASSUME NEW S, NEW s \in Seq(S), NEW e \in S, NEW f \in [1 .. Len(s) + 1 -> S],
         \A i \in 1 .. Len(s) : f[i] = s[i],
         f[Len(s) + 1] = e
  PROVE  f = Append(s, e)
<1>1. Append(s, e) \in Seq(S) /\ Len(Append(s, e)) = Len(s) + 1
  OBVIOUS
<1>2. ASSUME NEW i \in 1 .. Len(s) + 1
      PROVE  f[i] = Append(s, e)[i]
  OBVIOUS
<1>3. Append(s, e) \in [1 .. Len(Append(s, e)) -> S]
  BY <1>1, SeqFunction, Zenon
<1>4. QED
  BY <1>1, <1>2, <1>3

\* The tail of a sequence, as a sequence.
LEMMA TailIs ==
  ASSUME NEW S, NEW s \in Seq(S), Len(s) # 0
  PROVE  /\ Tail(s) \in Seq(S)
         /\ Len(Tail(s)) = Len(s) - 1
         /\ \A i \in 1 .. Len(s) - 1 : Tail(s)[i] = s[i + 1]
         /\ Head(s) = s[1]
OBVIOUS

\* The slot k places after the first one, in a ring.
LEMMA RingStep ==
  ASSUME NEW i \in RingSlots, NEW k \in 1 .. FecBuffNum
  PROVE  (i + k - 1) % FecBuffNum
           = IF i + k - 1 < FecBuffNum THEN i + k - 1 ELSE i + k - 1 - FecBuffNum
BY SizesAssumption DEF RingSlots

-----------------------------------------------------------------------------
(* The ring as a sequence *)

\* Initially the ring is empty; a store fills the slot at index and moves on.
LEMMA InitRing == Init => RingFilled
<1> SUFFICES ASSUME Init PROVE RingFilled
  OBVIOUS
<1>1. index = 0 /\ \A k \in RingSlots : fec_data[k] = Unused
  BY DEF Init
<1>2. \A k \in RingSlots : fec_data[k] # Unused <=> k < index
  BY <1>1 DEF RingSlots
<1>3. QED
  BY <1>1, <1>2 DEF RingFilled

LEMMA StoreFillsRing ==
  ASSUME TypeOK, RingFilled, NEW p \in Packets, Store(p)
  PROVE  /\ RingFilled'
         /\ \A k \in RingSlots :
              fec_data'[k] = IF k = index THEN p ELSE fec_data[k]
<1>1. /\ index \in RingSlots
      /\ fec_data \in [RingSlots -> Packets \cup {Unused}]
      /\ fec_data' = [fec_data EXCEPT ![index] = p]
      /\ index' = IF index + 1 = FecBuffNum THEN 0 ELSE index + 1
      /\ p # Unused
      /\ ~Malformed(p)
  BY PacketFields DEF TypeOK, Store, StoredRing, Accepted
<1>2. \A k \in RingSlots :
        fec_data'[k] = IF k = index THEN p ELSE fec_data[k]
  BY <1>1
<1>3. CASE \A k \in RingSlots : fec_data[k] # Unused
  BY <1>1, <1>2, <1>3 DEF RingFilled
<1>4. CASE \A k \in RingSlots : fec_data[k] # Unused <=> k < index
  <2>1. \A k \in RingSlots : fec_data'[k] # Unused <=> k < index + 1
    BY <1>1, <1>2, <1>4 DEF RingSlots
  <2>2. \A k \in RingSlots : fec_data'[k] # Unused => ~Malformed(fec_data'[k])
    BY <1>1, <1>2 DEF RingFilled
  <2>3. CASE index + 1 = FecBuffNum
    <3>1. \A k \in RingSlots : fec_data'[k] # Unused
      BY <2>1, <2>3, SizesAssumption DEF RingSlots
    <3>2. QED
      BY <1>2, <2>2, <3>1 DEF RingFilled
  <2>4. CASE index + 1 # FecBuffNum
    BY <1>1, <2>1, <2>2, <2>4 DEF RingFilled
  <2>5. QED
    BY <2>3, <2>4
<1>5. QED
  BY <1>2, <1>3, <1>4 DEF RingFilled

LEMMA NextRing == TypeOK /\ RingFilled /\ [Next]_vars => RingFilled'
<1> SUFFICES ASSUME TypeOK, RingFilled, [Next]_vars PROVE RingFilled'
  OBVIOUS
<1>1. ASSUME UNCHANGED <<fec_data, index>>
      PROVE  RingFilled'
  BY <1>1 DEF RingFilled
<1>2. ASSUME NEW p \in Packets,
             \/ RejectHeader(p)
             \/ RejectReplay(p)
             \/ RefuseShard(p)
             \/ EvictSelf(p)
      PROVE  RingFilled'
  BY <1>1, <1>2 DEF RejectHeader, RejectReplay, RefuseShard, EvictSelf
<1>3. ASSUME NEW p \in Packets, Buffer(p) \/ Decode(p)
      PROVE  RingFilled'
  BY <1>3, StoreFillsRing DEF Buffer, Decode
<1>4. QED
  BY <1>1, <1>2, <1>3 DEF Next, Receive, vars

\* While the ring fills, its contents are the slots before index; once it is
\* full, they start at index.
LEMMA FillingRing ==
  ASSUME TypeOK, RingFilled, Victim = Unused
  PROVE  /\ RingContents \in [1 .. index -> Packets]
         /\ RingContents \in Seq(Packets)
         /\ Len(RingContents) = index
         /\ \A k \in 1 .. index : RingContents[k] = fec_data[k - 1]
         /\ \A k \in RingSlots : fec_data[k] # Unused <=> k < index
<1>1. /\ index \in RingSlots
      /\ fec_data \in [RingSlots -> Packets \cup {Unused}]
      /\ fec_data[index] = Unused
  BY DEF TypeOK, Victim
<1>2. \A k \in RingSlots : fec_data[k] # Unused <=> k < index
  BY <1>1 DEF RingFilled
<1>3. RingContents = [k \in 1 .. index |-> fec_data[k - 1]]
  BY DEF RingContents
<1>4. ASSUME NEW k \in 1 .. index
      PROVE  k - 1 \in RingSlots /\ fec_data[k - 1] \in Packets
  <2>1. k - 1 \in RingSlots /\ k - 1 < index
    BY <1>1, SizesAssumption DEF RingSlots
  <2>2. QED
    BY <1>1, <1>2, <2>1
<1>5. RingContents \in [1 .. index -> Packets]
  BY <1>3, <1>4
<1>6. index \in Nat
  BY <1>1 DEF RingSlots
<1>7. QED
  BY <1>2, <1>3, <1>5, <1>6, FunctionSeq

LEMMA FullRing ==
  ASSUME TypeOK, RingFilled, Victim # Unused
  PROVE  /\ RingContents \in [1 .. FecBuffNum -> Packets]
         /\ RingContents \in Seq(Packets)
         /\ Len(RingContents) = FecBuffNum
         /\ \A k \in 1 .. FecBuffNum :
              RingContents[k] = fec_data[IF index + k - 1 < FecBuffNum
                                         THEN index + k - 1
                                         ELSE index + k - 1 - FecBuffNum]
         /\ \A k \in RingSlots : fec_data[k] \in Packets
<1>1. /\ index \in RingSlots
      /\ fec_data \in [RingSlots -> Packets \cup {Unused}]
      /\ fec_data[index] # Unused
  BY DEF TypeOK, Victim
<1>2. \A k \in RingSlots : fec_data[k] \in Packets
  BY <1>1 DEF RingFilled, RingSlots
<1>3. RingContents
        = [k \in 1 .. FecBuffNum |-> fec_data[(index + k - 1) % FecBuffNum]]
  BY DEF RingContents
<1>4. \A k \in 1 .. FecBuffNum :
        /\ RingContents[k] = fec_data[IF index + k - 1 < FecBuffNum
                                      THEN index + k - 1
                                      ELSE index + k - 1 - FecBuffNum]
        /\ fec_data[(index + k - 1) % FecBuffNum] \in Packets
  <2> SUFFICES ASSUME NEW k \in 1 .. FecBuffNum
               PROVE  /\ RingContents[k] = fec_data[IF index + k - 1 < FecBuffNum
                                                    THEN index + k - 1
                                                    ELSE index + k - 1 - FecBuffNum]
                      /\ fec_data[(index + k - 1) % FecBuffNum] \in Packets
    OBVIOUS
  <2> DEFINE s == (index + k - 1) % FecBuffNum
  <2>1. s = IF index + k - 1 < FecBuffNum
            THEN index + k - 1 ELSE index + k - 1 - FecBuffNum
    BY <1>1, RingStep
  <2>2. s \in RingSlots
    BY <1>1, <2>1, SizesAssumption DEF RingSlots
  <2>3. RingContents[k] = fec_data[s]
    BY <1>3
  <2>4. QED
    BY <1>2, <2>1, <2>2, <2>3
<1>5. RingContents \in [1 .. FecBuffNum -> Packets]
  BY <1>3, <1>4
<1>6. QED
  BY <1>2, <1>4, <1>5, SizesAssumption, FunctionSeq

\* A store appends the datagram to the contents, after dropping the oldest one
\* when the ring is full.
LEMMA StoreAppends ==
  ASSUME TypeOK, RingFilled, NEW p \in Packets, Store(p)
  PROVE  RingContents'
           = Append(IF Victim = Unused THEN RingContents ELSE Tail(RingContents),
                    p)
<1>1. /\ index \in RingSlots
      /\ index' \in RingSlots
      /\ index' = IF index + 1 = FecBuffNum THEN 0 ELSE index + 1
      /\ \A k \in RingSlots : fec_data'[k] = IF k = index THEN p ELSE fec_data[k]
      /\ Victim' = fec_data'[index']
      /\ p # Unused
  BY StoreFillsRing, StoreType, PacketFields DEF TypeOK, Store, Victim
<1>2. CASE Victim = Unused
  <2> DEFINE s == RingContents
  <2>1. /\ s \in Seq(Packets)
        /\ Len(s) = index
        /\ \A k \in 1 .. index : s[k] = fec_data[k - 1]
        /\ \A k \in RingSlots : fec_data[k] # Unused <=> k < index
    BY <1>2, FillingRing
  <2>2. RingContents' = [k \in 1 .. index + 1 |-> fec_data'[k - 1]]
    <3>1. CASE index + 1 = FecBuffNum
      <4>1. index' = 0 /\ Victim' = fec_data'[0] /\ 0 \in RingSlots
        BY <1>1, <3>1
      <4>2. Victim' # Unused
        BY <1>1, <2>1, <4>1 DEF RingSlots
      <4>3. RingContents'
              = [k \in 1 .. FecBuffNum |-> fec_data'[(0 + k - 1) % FecBuffNum]]
        BY <1>1, <4>1, <4>2 DEF RingContents
      <4>4. ASSUME NEW k \in 1 .. FecBuffNum
            PROVE  (0 + k - 1) % FecBuffNum = k - 1
        <5>1. (0 + k - 1) % FecBuffNum
                = IF 0 + k - 1 < FecBuffNum THEN 0 + k - 1 ELSE 0 + k - 1 - FecBuffNum
          BY <4>1, RingStep
        <5>2. 0 + k - 1 = k - 1 /\ k - 1 < FecBuffNum
          BY SizesAssumption
        <5>3. QED
          BY <5>1, <5>2
      <4>5. QED
        BY <3>1, <4>3, <4>4
    <3>2. CASE index + 1 # FecBuffNum
      <4>1. index' = index + 1
        BY <1>1, <3>2
      <4>2. fec_data'[index + 1] = fec_data[index + 1]
        BY <1>1, <4>1 DEF RingSlots
      <4>3. Victim' = Unused
        BY <1>1, <2>1, <4>1, <4>2 DEF RingSlots
      <4>4. QED
        BY <4>1, <4>3 DEF RingContents
    <3>3. QED
      BY <3>1, <3>2
  <2>3. ASSUME NEW k \in 1 .. index
        PROVE  k - 1 \in RingSlots /\ k - 1 # index
    BY <1>1, SizesAssumption DEF RingSlots
  <2>4. \A k \in 1 .. index : fec_data'[k - 1] = s[k]
    BY <1>1, <2>1, <2>3
  <2>5. fec_data'[(index + 1) - 1] = p
    BY <1>1 DEF RingSlots
  <2>6. \A k \in 1 .. index : s[k] \in Packets
    BY <2>1
  <2>7. \A k \in 1 .. index + 1 : fec_data'[k - 1] \in Packets
    <3> SUFFICES ASSUME NEW k \in 1 .. index + 1 PROVE fec_data'[k - 1] \in Packets
      OBVIOUS
    <3>1. CASE k = index + 1
      BY <2>5, <3>1
    <3>2. CASE k # index + 1
      <4>1. k \in 1 .. index
        BY <1>1, <3>2 DEF RingSlots
      <4>2. QED
        BY <2>4, <2>6, <4>1
    <3>3. QED
      BY <3>1, <3>2
  <2>8. RingContents' \in [1 .. index + 1 -> Packets]
    BY <2>2, <2>7
  <2>9. /\ \A k \in 1 .. index : RingContents'[k] = s[k]
        /\ RingContents'[index + 1] = p
    <3>1. index \in Nat /\ index + 1 \in 1 .. index + 1
      BY <1>1 DEF RingSlots
    <3>2. RingContents'[index + 1] = p
      BY <2>2, <2>5, <3>1
    <3>3. ASSUME NEW k \in 1 .. index
          PROVE  RingContents'[k] = s[k]
      <4>1. k \in 1 .. index + 1
        BY <3>1
      <4>2. RingContents'[k] = fec_data'[k - 1]
        BY <2>2, <4>1
      <4>3. QED
        BY <2>4, <4>2
    <3>4. QED
      BY <3>2, <3>3
  <2>10. RingContents' = Append(s, p)
    BY <2>1, <2>8, <2>9, AppendIs
  <2>11. QED
    BY <1>2, <2>10
<1>3. CASE Victim # Unused
  <2> DEFINE s == RingContents
             t == Tail(s)
             N == FecBuffNum
             At(k) == IF index + k - 1 < N THEN index + k - 1 ELSE index + k - 1 - N
             AtNext(k) == IF index' + k - 1 < N THEN index' + k - 1 ELSE index' + k - 1 - N
  <2>1. /\ s \in Seq(Packets)
        /\ Len(s) = N
        /\ \A k \in 1 .. N : s[k] = fec_data[At(k)]
        /\ \A k \in RingSlots : fec_data[k] \in Packets
    BY <1>3, FullRing
  <2>2. N \in Nat \ {0}
    BY SizesAssumption
  <2>3. /\ t \in Seq(Packets)
        /\ Len(t) = N - 1
        /\ \A k \in 1 .. N - 1 : t[k] = s[k + 1]
    BY <2>1, <2>2, TailIs
  <2>4. \A k \in RingSlots : fec_data'[k] \in Packets
    BY <1>1, <2>1
  <2>5. Victim' # Unused
    BY <1>1, <2>4, PacketFields
  <2>6. RingContents' = [k \in 1 .. N |-> fec_data'[(index' + k - 1) % N]]
    BY <2>5 DEF RingContents
  <2>7. \A k \in 1 .. N : (index' + k - 1) % N = AtNext(k)
    BY <1>1, RingStep
  <2>8. \A k \in 1 .. N : AtNext(k) \in RingSlots
    BY <1>1, <2>2 DEF RingSlots
  <2>9. \A k \in 1 .. N : RingContents'[k] = fec_data'[AtNext(k)]
    BY <2>6, <2>7
  <2>10. RingContents' \in [1 .. N -> Packets]
    BY <2>4, <2>6, <2>7, <2>8
  <2>11. ASSUME NEW k \in 1 .. N - 1
         PROVE  RingContents'[k] = t[k]
    <3>1. AtNext(k) = At(k + 1) /\ AtNext(k) # index /\ k \in 1 .. N /\ k + 1 \in 1 .. N
      BY <1>1, <2>2 DEF RingSlots
    <3>2. fec_data'[AtNext(k)] = fec_data[At(k + 1)]
      BY <1>1, <2>8, <3>1
    <3>3. QED
      BY <2>1, <2>3, <2>9, <3>1, <3>2
  <2>12. RingContents'[N] = p
    <3>1. AtNext(N) = index /\ N \in 1 .. N
      BY <1>1, <2>2 DEF RingSlots
    <3>2. QED
      BY <1>1, <2>9, <3>1
  <2>13. (N - 1) + 1 = N
    BY <2>2
  <2>14. RingContents' \in [1 .. Len(t) + 1 -> Packets]
    BY <2>3, <2>10, <2>13
  <2>15. /\ \A k \in 1 .. Len(t) : RingContents'[k] = t[k]
         /\ RingContents'[Len(t) + 1] = p
    BY <2>3, <2>11, <2>12, <2>13
  <2>16. RingContents' = Append(t, p)
    <3> HIDE DEF t
    <3> QED  BY <2>3, <2>14, <2>15, AppendIs
  <2>17. QED
    BY <1>3, <2>16
<1>4. QED
  BY <1>2, <1>3

-----------------------------------------------------------------------------
(* What the window holds *)

\* The datagrams remembered by the window are those in the ring.
LEMMA WindowHolds ==
  ASSUME TypeOK, RingFilled, NEW seq
  PROVE  Window!Held(seq) = {fec_data[k].inner_index : k \in RingShards(seq)}
<1> DEFINE Used == {k \in RingSlots : fec_data[k] # Unused}
<1>1. index \in RingSlots /\ FecBuffNum \in Nat \ {0}
  BY SizesAssumption DEF TypeOK
<1>2. Window!Range(RingContents) = {fec_data[k] : k \in Used}
  <2>1. CASE Victim = Unused
    <3>1. /\ DOMAIN RingContents = 1 .. index
          /\ \A k \in 1 .. index : RingContents[k] = fec_data[k - 1]
          /\ \A k \in RingSlots : fec_data[k] # Unused <=> k < index
      BY <2>1, FillingRing
    <3>2. ASSUME NEW k \in 1 .. index
          PROVE  k - 1 \in Used
      <4>1. k - 1 \in RingSlots /\ k - 1 < index
        BY <1>1 DEF RingSlots
      <4>2. QED
        BY <3>1, <4>1
    <3>3. ASSUME NEW k \in Used
          PROVE  k + 1 \in 1 .. index /\ fec_data[k] = RingContents[k + 1]
      <4>1. k \in Nat /\ k < index /\ k + 1 \in 1 .. index /\ (k + 1) - 1 = k
        BY <1>1, <3>1 DEF RingSlots
      <4>2. QED
        BY <3>1, <4>1
    <3> HIDE DEF Used
    <3>4. QED
      BY <3>1, <3>2, <3>3 DEF Window!Range
  <2>2. CASE Victim # Unused
    <3> DEFINE At(k) == IF index + k - 1 < FecBuffNum THEN index + k - 1
                        ELSE index + k - 1 - FecBuffNum
               Place(k) == IF k >= index THEN k - index + 1
                           ELSE k - index + 1 + FecBuffNum
    <3>1. /\ DOMAIN RingContents = 1 .. FecBuffNum
          /\ \A k \in 1 .. FecBuffNum : RingContents[k] = fec_data[At(k)]
          /\ \A k \in RingSlots : fec_data[k] \in Packets
      BY <2>2, FullRing
    <3>2. Used = RingSlots
      BY <3>1, PacketFields
    <3>3. ASSUME NEW k \in 1 .. FecBuffNum
          PROVE  At(k) \in RingSlots
      BY <1>1 DEF RingSlots
    <3>4. ASSUME NEW k \in RingSlots
          PROVE  Place(k) \in 1 .. FecBuffNum /\ At(Place(k)) = k
      BY <1>1 DEF RingSlots
    <3> HIDE DEF At, Place, Used
    <3>5. QED
      BY <3>1, <3>2, <3>3, <3>4 DEF Window!Range
  <2>3. QED
    BY <2>1, <2>2
<1>3. RingShards(seq) = {k \in Used : fec_data[k].seq = seq}
  BY DEF RingShards
<1>4. QED
  BY <1>2, <1>3 DEF Window!Held

\* A full window is a full ring, and its oldest datagram the next victim.
LEMMA WindowFull ==
  ASSUME TypeOK, RingFilled
  PROVE  /\ Window!Full <=> Victim # Unused
         /\ Victim # Unused => Head(RingContents) = Victim
<1>1. index \in RingSlots /\ FecBuffNum \in Nat \ {0}
  BY SizesAssumption DEF TypeOK
<1>2. CASE Victim = Unused
  <2>1. Len(RingContents) = index
    BY <1>2, FillingRing
  <2>2. QED
    BY <1>1, <1>2, <2>1 DEF Window!Full, RingSlots
<1>3. CASE Victim # Unused
  <2>1. /\ Len(RingContents) = FecBuffNum
        /\ RingContents \in Seq(Packets)
        /\ \A k \in 1 .. FecBuffNum :
              RingContents[k] = fec_data[IF index + k - 1 < FecBuffNum
                                         THEN index + k - 1
                                         ELSE index + k - 1 - FecBuffNum]
    BY <1>3, FullRing
  <2>2. Head(RingContents) = RingContents[1]
    BY <1>1, <2>1, TailIs
  <2>3. RingContents[1] = fec_data[index]
    BY <1>1, <2>1 DEF RingSlots
  <2>4. QED
    BY <1>3, <2>1, <2>2, <2>3 DEF Window!Full, Victim
<1>4. QED
  BY <1>2, <1>3

\* What an open group has in the window is what its map has.
LEMMA HeldIsMap ==
  ASSUME TypeOK, RingFilled, GroupsPointIntoRing, OpenGroupsKnowTheirShards,
         NoSentinelSeq, NEW p \in Packets, IsValid(p.seq)
  PROVE  Window!Held(p.seq) = DOMAIN GroupFindOrCreate(p.seq).shards
<1> DEFINE g == group_table[GroupSlot(p.seq)]
<1>1. Window!Held(p.seq) = {fec_data[k].inner_index : k \in RingShards(p.seq)}
  BY WindowHolds
<1>2. GroupSlot(p.seq) \in 0 .. GroupSlots - 1 /\ p.seq # EmptySeq
  BY PacketFields, SlotsInRange DEF NoSentinelSeq
<1>3. CASE g.seq = p.seq
  <2>1. GroupFindOrCreate(p.seq) = g
    BY <1>3 DEF GroupFindOrCreate
  <2>2. \A k \in RingShards(p.seq) : fec_data[k].inner_index \in DOMAIN g.shards
    BY <1>3 DEF OpenGroupsKnowTheirShards
  <2>3. ASSUME NEW i \in DOMAIN g.shards
        PROVE  \E k \in RingShards(p.seq) : fec_data[k].inner_index = i
    <3>1. RingHolds(fec_data, g.shards[i], p.seq, i)
      BY <1>2, <1>3 DEF GroupsPointIntoRing
    <3>2. g \in Groups
      BY <1>2 DEF TypeOK
    <3>3. PICK D \in SUBSET ShardIdx : g.shards \in [D -> RingSlots]
      BY <3>2 DEF Groups, ShardMaps
    <3>4. g.shards[i] \in RingSlots
      BY <3>3
    <3>5. QED
      BY <3>1, <3>4 DEF RingHolds, RingShards
  <2>4. QED
    BY <1>1, <2>1, <2>2, <2>3
<1>4. CASE g.seq # p.seq
  <2>1. GroupFindOrCreate(p.seq) = NewGroup(p.seq)
    BY <1>4 DEF GroupFindOrCreate
  <2>2. DOMAIN GroupFindOrCreate(p.seq).shards = {}
    BY <2>1 DEF NewGroup
  <2>3. RingShards(p.seq) = {}
    BY <1>4 DEF OpenGroupsKnowTheirShards
  <2>4. QED
    BY <1>1, <2>2, <2>3
<1>5. QED
  BY <1>3, <1>4

\* An open group never has more shards than it needs, and the one that reaches
\* the number it needs is recovered.
LEMMA StoredCount ==
  ASSUME TypeOK, RingFilled, GroupsPointIntoRing, OpenGroupsKnowTheirShards,
         NoSentinelSeq, EncoderHeaders, NEW p \in Packets, Store(p)
  PROVE  /\ ~Overfull(p, StoredGroup(p))
         /\ AboutToFec(p, StoredGroup(p))
              <=> Cardinality(Window!Held(p.seq) \cup {p.inner_index}) = p.data_num
<1> DEFINE g == StoredGroup(p)
           o == GroupFindOrCreate(p.seq)
           n == Cardinality(DOMAIN o.shards)
<1>1. /\ IsValid(p.seq)
      /\ p.data_num \in Nat \ {0}
      /\ p.inner_index \notin DOMAIN o.shards
  BY AcceptedHeader DEF Store, Accepted, Refused, HasShard
<1>2. /\ g.data_num = p.data_num
      /\ g.shard_count = Cardinality(DOMAIN g.shards)
      /\ DOMAIN g.shards = DOMAIN o.shards \cup {p.inner_index}
  BY StoredKnows
<1>3. Window!Held(p.seq) = DOMAIN o.shards
  BY <1>1, HeldIsMap
<1>4. IsFiniteSet(DOMAIN o.shards)
  BY JoinedType, ShardMapFinite
<1>5. n \in Nat /\ Cardinality(DOMAIN o.shards \cup {p.inner_index}) = n + 1
  BY <1>1, <1>4, FS_AddElement, FS_CardinalityType
<1>6. n < p.data_num
  <2>1. CASE group_table[GroupSlot(p.seq)].seq = p.seq
    <3>1. o = group_table[GroupSlot(p.seq)]
      BY <2>1 DEF GroupFindOrCreate
    <3>2. QED
      BY <1>1, <2>1, <3>1 DEF OpenGroupsKnowTheirShards
  <2>2. CASE group_table[GroupSlot(p.seq)].seq # p.seq
    <3>1. DOMAIN o.shards = {}
      BY <2>2 DEF GroupFindOrCreate, NewGroup
    <3>2. n = 0
      BY <3>1, FS_EmptySet
    <3>3. QED
      BY <1>1, <3>2
  <2>3. QED
    BY <2>1, <2>2
<1>7. /\ g.shard_count = n + 1
      /\ Cardinality(Window!Held(p.seq) \cup {p.inner_index}) = n + 1
  BY <1>2, <1>3, <1>5
<1>8. p.type = 0 \/ p.type = 1
  BY PacketFields DEF TypeCode
<1> HIDE DEF n, g
<1>9. ~Overfull(p, g)
  BY <1>1, <1>2, <1>5, <1>6, <1>7, <1>8 DEF Overfull
<1>10. AboutToFec(p, g) <=> n + 1 = p.data_num
  BY <1>1, <1>2, <1>5, <1>6, <1>7, <1>8, <1>9 DEF AboutToFec
<1>11. QED
  BY <1>7, <1>9, <1>10 DEF g

\* The length check of a recovery never fails: all shards have their group's
\* length.
LEMMA LengthsAgree ==
  ASSUME TypeOK, RingFilled, GroupsPointIntoRing, OpenGroupsKnowTheirShards,
         NoSentinelSeq, EncoderHeaders, OneCodePerSeq,
         NEW p \in Packets, Store(p)
  PROVE  DataCheck(StoredGroup(p), StoredRing(p))
<1> DEFINE g == StoredGroup(p)
           r == StoredRing(p)
<1>1. /\ p.inner_index \in DOMAIN g.shards
      /\ \A i \in DOMAIN g.shards :
           /\ g.shards[i] \in RingSlots
           /\ r[g.shards[i]] \in Packets
           /\ r[g.shards[i]].seq = p.seq
  BY StoredShards
<1>2. g.len = p.len
  BY StoredKnows
<1>3. r = fec_data'
  BY DEF Store
<1>4. \A k \in RingSlots : fec_data'[k] # Unused => ~Malformed(fec_data'[k])
  BY StoreFillsRing DEF RingFilled
<1>5. ASSUME NEW i \in DOMAIN g.shards
      PROVE  r[g.shards[i]].len = p.len
  <2>1. r[g.shards[i]] \in Packets /\ ~Malformed(r[g.shards[i]])
    BY <1>1, <1>3, <1>4, PacketFields
  <2>2. r[g.shards[i]].data_num # 0 /\ p.data_num # 0
    BY <2>1, AcceptedHeader DEF Store, Accepted
  <2>3. QED
    BY <1>1, <2>1, <2>2 DEF OneCodePerSeq
<1>6. p.len \in Nat
  BY PacketFields
<1>7. QED
  BY <1>1, <1>2, <1>5, <1>6 DEF DataCheck

-----------------------------------------------------------------------------
(* Every step of the decoder is a step of the window, or none *)

\* What the window sees handed out.
Handed == IF output = NoOutput THEN NoOutput ELSE <<output.seq, output.word>>

\* The groups the eviction closes.
Gone == IF Victim = Unused THEN {} ELSE {Victim.seq}

\* The groups closed after a step, when the replay table remembers one more
\* sequence number for each of them.
LEMMA ClosedByEviction ==
  ASSUME TypeOK, SeqsFitReplayTable, NEW q \in Packets
  PROVE  ReplayAfterEviction[ReplaySlot(q.seq)] = q.seq
           <=> q.seq \in ClosedSeqs \cup Gone
<1>1. q.seq \in ClosedSeqs <=> ~IsValid(q.seq)
  BY DEF ClosedSeqs
<1>2. CASE Victim = Unused
  BY <1>1, <1>2 DEF ReplayAfterEviction, Gone, IsValid
<1>3. CASE Victim # Unused
  <2>1. /\ Victim \in Packets
        /\ ReplayAfterEviction[ReplaySlot(Victim.seq)] = Victim.seq
    BY <1>3, EvictionCloses
  <2>2. CASE q.seq = Victim.seq
    BY <1>3, <2>1, <2>2 DEF Gone
  <2>3. CASE q.seq # Victim.seq
    <3>1. ReplaySlot(q.seq) # ReplaySlot(Victim.seq)
      BY <2>1, <2>3 DEF SeqsFitReplayTable
    <3>2. ReplaySlot(q.seq) \in 0 .. ReplaySlots - 1
      BY PacketFields, SlotsInRange
    <3>3. ReplayAfterEviction[ReplaySlot(q.seq)] = anti_replay[ReplaySlot(q.seq)]
      BY <1>3, <3>1, <3>2 DEF ReplayAfterEviction, SetInvalid, TypeOK
    <3>4. QED
      BY <1>1, <1>3, <2>3, <3>3 DEF Gone, IsValid
  <2>4. QED
    BY <2>2, <2>3
<1>4. QED
  BY <1>2, <1>3

LEMMA ClosedAfter ==
  ASSUME TypeOK, SeqsFitReplayTable
  PROVE  /\ anti_replay' = ReplayAfterEviction
              => ClosedSeqs' = ClosedSeqs \cup Gone
         /\ \A p \in Packets :
              anti_replay' = SetInvalid(ReplayAfterEviction, p.seq)
                => ClosedSeqs' = ClosedSeqs \cup Gone \cup {p.seq}
<1>1. ASSUME NEW s
      PROVE  /\ s \in ClosedSeqs' <=>
                  \E q \in Packets : s = q.seq /\ anti_replay'[ReplaySlot(q.seq)] = q.seq
             /\ s \in ClosedSeqs \cup Gone => \E q \in Packets : s = q.seq
  <2>1. s \in ClosedSeqs' <=>
          \E q \in Packets : s = q.seq /\ anti_replay'[ReplaySlot(q.seq)] = q.seq
    BY DEF ClosedSeqs, IsValid
  <2>2. s \in ClosedSeqs => \E q \in Packets : s = q.seq
    BY DEF ClosedSeqs
  <2>3. s \in Gone => \E q \in Packets : s = q.seq
    BY EvictionCloses DEF Gone
  <2>4. QED
    BY <2>1, <2>2, <2>3
<1>2. ASSUME anti_replay' = ReplayAfterEviction
      PROVE  ClosedSeqs' = ClosedSeqs \cup Gone
  BY <1>1, <1>2, ClosedByEviction
<1>3. ASSUME NEW p \in Packets,
             anti_replay' = SetInvalid(ReplayAfterEviction, p.seq)
      PROVE  ClosedSeqs' = ClosedSeqs \cup Gone \cup {p.seq}
  <2>1. ASSUME NEW q \in Packets
        PROVE  anti_replay'[ReplaySlot(q.seq)] = q.seq
                 <=> q.seq \in ClosedSeqs \cup Gone \/ q.seq = p.seq
    <3>1. ReplayAfterEviction \in [0 .. ReplaySlots - 1 -> SeqNum]
      BY EvictionType
    <3>2. /\ ReplaySlot(q.seq) \in 0 .. ReplaySlots - 1
          /\ ReplaySlot(p.seq) \in 0 .. ReplaySlots - 1
      BY PacketFields, SlotsInRange
    <3>3. CASE q.seq = p.seq
      BY <1>3, <3>1, <3>2, <3>3 DEF SetInvalid
    <3>4. CASE q.seq # p.seq
      <4>1. ReplaySlot(q.seq) # ReplaySlot(p.seq)
        BY <3>4 DEF SeqsFitReplayTable
      <4>2. anti_replay'[ReplaySlot(q.seq)]
              = ReplayAfterEviction[ReplaySlot(q.seq)]
        BY <1>3, <3>1, <3>2, <4>1 DEF SetInvalid
      <4>3. QED
        BY <3>4, <4>2, ClosedByEviction
    <3>5. QED
      BY <3>3, <3>4
  <2>2. QED
    BY <1>1, <1>3, <2>1
<1>4. QED
  BY <1>2, <1>3

\* The window counts as the decoder does: its module brings a copy of the
\* library's definition.
LEMMA SameCardinality ==
  ASSUME NEW S
  PROVE  Window!Cardinality(S) = Cardinality(S)
BY DEF Window!Cardinality, Cardinality

\* The window as it is after a stored datagram, whatever is handed out.
LEMMA StoreIsTake ==
  ASSUME TypeOK, RingFilled, GroupsPointIntoRing, OpenGroupsKnowTheirShards,
         NoSentinelSeq, SeqsFitReplayTable, EncoderHeaders,
         NEW p \in Packets, Store(p),
         anti_replay' = IF AboutToFec(p, StoredGroup(p))
                        THEN SetInvalid(ReplayAfterEviction, p.seq)
                        ELSE ReplayAfterEviction,
         Handed' = IF AboutToFec(p, StoredGroup(p)) /\ p.word \notin Undecodable
                   THEN <<p.seq, p.word>> ELSE NoOutput
  PROVE  Window!Take(p)
<1> DEFINE shards == Window!Held(p.seq) \cup {p.inner_index}
           complete == Window!Cardinality(shards) = p.data_num
           gone == IF Window!Full THEN {Head(RingContents).seq} ELSE {}
<1>1. /\ IsValid(p.seq)
      /\ ~OwnVictim(p)
      /\ p.inner_index \notin DOMAIN GroupFindOrCreate(p.seq).shards
  BY DEF Store, Accepted, Refused, HasShard
<1>2. AboutToFec(p, StoredGroup(p)) <=> complete
  BY StoredCount, SameCardinality
<1>3. /\ Window!Full <=> Victim # Unused
      /\ Victim # Unused => Head(RingContents) = Victim
  BY WindowFull
<1>4. Gone = gone
  BY <1>3 DEF Gone
<1>5. p.seq \notin ClosedSeqs \cup gone
  BY <1>1, <1>4 DEF ClosedSeqs, Gone, OwnVictim
<1>6. p.inner_index \notin Window!Held(p.seq)
  BY <1>1, HeldIsMap
<1>7. RingContents'
        = Append(IF Window!Full THEN Tail(RingContents) ELSE RingContents, p)
  BY <1>3, StoreAppends
<1>8. ClosedSeqs'
        = ClosedSeqs \cup gone \cup (IF complete THEN {p.seq} ELSE {})
  BY <1>2, <1>4, ClosedAfter
<1>9. Handed' = IF complete /\ p.word \notin Undecodable
                THEN <<p.seq, p.word>> ELSE NoOutput
  BY <1>2
<1>10. QED
  BY <1>5, <1>6, <1>7, <1>8, <1>9, Zenon DEF Window!Take, Handed

\* A completing datagram hands out its word, unless that is undecodable.
LEMMA DecodeHands ==
  ASSUME TypeOK, RingFilled, GroupsPointIntoRing, OpenGroupsKnowTheirShards,
         NoSentinelSeq, OneWordPerSeq, EncoderHeaders, OneCodePerSeq,
         NEW p \in Packets, Store(p),
         output' = FecResult(p, StoredGroup(p), StoredRing(p))
  PROVE  Handed' = IF p.word \notin Undecodable THEN <<p.seq, p.word>> ELSE NoOutput
<1> DEFINE g == StoredGroup(p)
           D == DecodedPackets(p, g)
           o == [seq |-> p.seq, word |-> p.word, packets |-> D]
<1>1. output' = IF p.word \notin Undecodable THEN o ELSE NoOutput
  BY LengthsAgree, RecoveredWord DEF FecResult
<1>2. D \subseteq ShardIdx
  <2>1. g.data_num = p.data_num /\ p.data_num \in Nat
    BY StoredKnows, PacketFields
  <2>2. p.data_num < MaxFecPacketNum
    <3>1. ~(p.data_num + p.redundant_num >= MaxFecPacketNum)
      BY DEF Store, Accepted, Malformed
    <3>2. QED
      BY <3>1, PacketFields, SizesAssumption
  <2>3. 0 .. g.data_num - 1 \subseteq ShardIdx
    BY <2>1, <2>2, SizesAssumption DEF ShardIdx
  <2>4. QED
    BY <2>3 DEF DecodedPackets
<1>3. NoOutput # o
  BY <1>2, OutputAssumption
<1>4. QED
  BY <1>1, <1>3 DEF Handed

\* The refinement, step by step: refusals are ignored by the window, a self-
\* eviction gives the group up, a stored datagram is taken.
LEMMA NextRefines ==
  ASSUME NoSentinelSeq, OneWordPerSeq, SeqsFitReplayTable, SeqsFitGroupTable,
         OneCodePerSeq, EncoderHeaders
  PROVE  /\ TypeOK /\ RingFilled /\ GroupsPointIntoRing
         /\ OpenGroupsKnowTheirShards
         /\ [Next]_vars
         => [Window!Next]_<<RingContents, ClosedSeqs, Handed>>
<1> SUFFICES ASSUME TypeOK, RingFilled, GroupsPointIntoRing,
                    OpenGroupsKnowTheirShards, [Next]_vars
             PROVE  \/ Window!Next
                    \/ UNCHANGED <<RingContents, ClosedSeqs, Handed>>
  OBVIOUS
<1>1. ASSUME NEW p \in Packets,
             \/ RejectHeader(p)
             \/ RejectReplay(p)
             \/ RefuseShard(p)
      PROVE  Window!Ignore
  <2>1. output' = NoOutput /\ UNCHANGED <<anti_replay, fec_data, index>>
    BY <1>1 DEF RejectHeader, RejectReplay, RefuseShard, Output
  <2>2. UNCHANGED <<RingContents, ClosedSeqs>>
    BY <2>1 DEF RingContents, ClosedSeqs, IsValid, Victim
  <2>3. QED
    BY <2>1, <2>2 DEF Window!Ignore
<1>2. ASSUME NEW p \in Packets, EvictSelf(p)
      PROVE  Window!GiveUp(p)
  <2>1. /\ output' = NoOutput
        /\ anti_replay' = ReplayAfterEviction
        /\ UNCHANGED <<fec_data, index>>
        /\ Victim # Unused
        /\ Victim.seq = p.seq
        /\ IsValid(p.seq)
        /\ p.inner_index \notin DOMAIN GroupFindOrCreate(p.seq).shards
    BY <1>2 DEF EvictSelf, Output, OwnVictim, Accepted, Refused, HasShard
  <2>2. UNCHANGED RingContents
    BY <2>1 DEF RingContents, Victim
  <2>3. ClosedSeqs' = ClosedSeqs \cup {p.seq}
    BY <2>1, ClosedAfter DEF Gone
  <2>4. Window!Full /\ Head(RingContents).seq = p.seq
    BY <2>1, WindowFull
  <2>5. p.seq \notin ClosedSeqs /\ p.inner_index \notin Window!Held(p.seq)
    BY <2>1, HeldIsMap DEF ClosedSeqs
  <2>6. QED
    BY <2>1, <2>2, <2>3, <2>4, <2>5 DEF Window!GiveUp
<1>3. ASSUME NEW p \in Packets, Buffer(p)
      PROVE  Window!Take(p)
  <2>1. /\ Store(p)
        /\ ~AboutToFec(p, StoredGroup(p))
        /\ output' = FastSend(p, StoredGroup(p))
    BY <1>3 DEF Buffer, Output
  <2>2. anti_replay' = ReplayAfterEviction
    BY <1>3, <2>1, StoredCount DEF Buffer
  <2>3. p.data_num # 0
    BY <2>1, AcceptedHeader DEF Store, Accepted
  <2>4. Handed' = NoOutput
    BY <2>1, <2>3 DEF FastSend, Handed
  <2>5. QED
    BY <2>1, <2>2, <2>4, StoreIsTake
<1>4. ASSUME NEW p \in Packets, Decode(p)
      PROVE  Window!Take(p)
  <2>1. /\ Store(p)
        /\ AboutToFec(p, StoredGroup(p))
        /\ anti_replay' = SetInvalid(ReplayAfterEviction, p.seq)
        /\ output' = FecResult(p, StoredGroup(p), StoredRing(p))
    BY <1>4 DEF Decode, Output
  <2>2. Handed' = IF p.word \notin Undecodable THEN <<p.seq, p.word>> ELSE NoOutput
    BY <2>1, DecodeHands
  <2>3. QED
    BY <2>1, <2>2, StoreIsTake
<1>5. CASE UNCHANGED vars
  <2>1. UNCHANGED <<anti_replay, fec_data, index, output>>
    BY <1>5 DEF vars
  <2>2. UNCHANGED <<RingContents, ClosedSeqs, Handed>>
    BY <2>1 DEF RingContents, ClosedSeqs, IsValid, Victim, Handed
  <2>3. QED
    BY <2>2
<1>6. CASE Next
  BY <1>1, <1>2, <1>3, <1>4, <1>6 DEF Next, Receive, Window!Next
<1>7. QED
  BY <1>5, <1>6

LEMMA InitRefines ==
  ASSUME NoSentinelSeq
  PROVE  Init => Window!Init
<1> SUFFICES ASSUME Init PROVE Window!Init
  OBVIOUS
<1>1. index = 0 /\ 0 \in RingSlots /\ Victim = Unused
  BY SizesAssumption DEF Init, RingSlots, Victim
<1>2. RingContents = << >>
  BY <1>1 DEF RingContents
<1>3. ClosedSeqs = {}
  <2>1. ASSUME NEW p \in Packets
        PROVE  IsValid(p.seq)
    <3>1. ReplaySlot(p.seq) \in 0 .. ReplaySlots - 1
      BY PacketFields, SlotsInRange
    <3>2. QED
      BY <3>1 DEF Init, IsValid, NoSentinelSeq
  <2>2. QED
    BY <2>1 DEF ClosedSeqs
<1>4. QED
  BY <1>2, <1>3 DEF Init, Window!Init

\* The decoder implements the sliding window, for every size of its tables and
\* every traffic whose groups fit them: the ring, the group table, the bitmaps,
\* the counters and the anti-replay table together decide as a window of the
\* last FecBuffNum shards would.
THEOREM DecoderIsWindow ==
  ASSUME NoSentinelSeq, OneWordPerSeq, SeqsFitReplayTable, SeqsFitGroupTable,
         OneCodePerSeq, EncoderHeaders
  PROVE  Spec => ImplementsWindow
<1>1. Init => Window!Init
  BY InitRefines
<1>2. Init => RingFilled
  BY InitRing
<1>3. TypeOK /\ RingFilled /\ [Next]_vars => RingFilled'
  BY NextRing
<1>4. /\ TypeOK /\ RingFilled /\ GroupsPointIntoRing
      /\ OpenGroupsKnowTheirShards
      /\ [Next]_vars
      => [Window!Next]_<<RingContents, ClosedSeqs, Handed>>
  BY NextRefines
<1>5. Spec => []GroupsPointIntoRing
  BY MapsCorrect
<1>6. Spec => []OpenGroupsKnowTheirShards
  BY OpenGroupsComplete
<1>7. QED
  BY <1>1, <1>2, <1>3, <1>4, <1>5, <1>6, TypeCorrect, PTL
  DEF Spec, ImplementsWindow, Window!Spec, Handed
=============================================================================
