----------------------------- MODULE ShardWindow -----------------------------
(***************************************************************************)
(* What the FEC decoder promises, without its tables: it looks at the last *)
(* Capacity shards it took, a group is handed out at the moment enough of  *)
(* its shards are among them, and a group that was handed out, or lost its *)
(* oldest shard, is closed for good.  FecDecode implements this with a     *)
(* ring, a direct-mapped group table, bitmaps, counters and a direct-      *)
(* mapped anti-replay table.                                               *)
(***************************************************************************)
EXTENDS Integers, FiniteSets, Sequences

CONSTANTS
  Shards,        \* the shards that may arrive: records with seq, inner_index
                 \* and data_num, the number of shards that is enough
  Capacity,      \* how many shards are remembered
  Undecodable,   \* words that cannot be handed out
  None           \* nothing was handed out

VARIABLES
  recent,   \* the remembered shards, oldest first
  closed,   \* groups that take no more shards
  out       \* the <<seq, word>> handed out by the last arrival, or None

Range(s) == {s[i] : i \in DOMAIN s}

Held(seq) == {e.inner_index : e \in {r \in Range(recent) : r.seq = seq}}

Full == Len(recent) = Capacity

\* The shard is taken; the oldest one makes room for it.
Take(p) ==
  LET gone     == IF Full THEN {Head(recent).seq} ELSE {}
      complete == Cardinality(Held(p.seq) \cup {p.inner_index}) = p.data_num
  IN  /\ p.seq \notin closed \cup gone
      /\ p.inner_index \notin Held(p.seq)
      /\ recent' = Append(IF Full THEN Tail(recent) ELSE recent, p)
      /\ closed' = closed \cup gone \cup (IF complete THEN {p.seq} ELSE {})
      /\ out' = IF complete /\ p.word \notin Undecodable
                THEN <<p.seq, p.word>> ELSE None

\* The shard that would have to make room belongs to the same group: the
\* group is lost and the shard is not taken.
GiveUp(p) ==
  /\ Full
  /\ Head(recent).seq = p.seq
  /\ p.seq \notin closed
  /\ p.inner_index \notin Held(p.seq)
  /\ closed' = closed \cup {p.seq}
  /\ out' = None
  /\ UNCHANGED recent

Ignore ==
  /\ out' = None
  /\ UNCHANGED <<recent, closed>>

Init == recent = << >> /\ closed = {} /\ out = None

Next == Ignore \/ \E p \in Shards : Take(p) \/ GiveUp(p)

Spec == Init /\ [][Next]_<<recent, closed, out>>
=============================================================================
