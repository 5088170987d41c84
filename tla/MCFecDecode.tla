---------------------------- MODULE MCFecDecode ----------------------------
(* Small instances of FecDecode for TLC. *)
EXTENDS FecDecode

CONSTANTS w0, w1, w2, w3

Word == <<w0, w1, w2, w3>>

Shard(seq, type, x, y, i, word) ==
  [seq |-> seq, type |-> type, data_num |-> x, redundant_num |-> y,
   inner_index |-> i, len |-> 2, word |-> word]

\* What the encoder sends in mode 0: x + y shards with the same header.
BlobGroup(seq, x, y, word) ==
  {Shard(seq, 0, x, y, i, word) : i \in 0 .. x + y - 1}

\* What it sends in mode 1: data packets whose header carries no x and y,
\* then y redundant shards that do.
PacketGroup(seq, x, y, word) ==
       {Shard(seq, 1, 0, 0, i, word) : i \in 0 .. x - 1}
  \cup {Shard(seq, 1, x, y, i, word) : i \in x .. x + y - 1}

NoneMisSized == {}

CleanHeap == {NewGroup(0)}

\* Two mode-0 groups and a mode-1 group, fewer groups apart than any table is
\* long.  The second group's word is undecodable in the run that says so.
WindowPackets ==
       BlobGroup(0, 2, 2, w0)
  \cup BlobGroup(1, 3, 1, w1)
  \cup PacketGroup(2, 2, 2, w2)

\* Groups 0, 4 and 8 share a replay slot, 0 and 8 also a slot of the group
\* table: what happens when more groups are in flight than the tables hold.
\* Group 4 cannot be decoded in the run that uses these.
ReusePackets ==
       BlobGroup(0, 2, 1, w0)
  \cup BlobGroup(8, 2, 1, w1)
  \cup BlobGroup(4, 1, 1, w2)

BadWords == {w2}
============================================================================
