------------------------------ MODULE BlobCodec ------------------------------
(***************************************************************************)
(* blob_encode_t and blob_decode_t: the packets of a mode-0 group, one     *)
(* behind the other with their lengths, cut into n shards of equal length. *)
(***************************************************************************)
EXTENDS Bits, SequencesExt

CONSTANT max_blob_packet_num

\* The count is an int.
ASSUME CountAssumption ==
  max_blob_packet_num \in Nat \ {0} /\ max_blob_packet_num <= 2147483647

\* An error is not taken for packets.
ASSUME RefusedAssumption ==
  /\ Refused \notin [pos : Nat, packets : Seq([at : Nat, len : Nat])]
  /\ Refused \notin Seq([at : Nat, len : Nat])

u16(v) == << (v \div 256) % 256, v % 256 >>

u32(v) == u16(v \div 65536) \o u16(v)

read_u16(s) == s[1] * 256 + s[2]

\* A count of 2^31 and more becomes a negative int.
read_u32(s) ==
  (IF s[1] >= 128 THEN s[1] - 256 ELSE s[1]) * 16777216 + s[2] * 65536 + read_u16(<<s[3], s[4]>>)

round_up_div(a, b) == (a + b - 1) \div b

-----------------------------------------------------------------------------
(* Encoding.  The buffer starts with room for the count. *)

EncodeEmpty == [counter |-> 0, buf |-> <<0, 0, 0, 0>>]

\* Mutant of get_shard_len_next: the length field is forgotten.
get_shard_len_bare(blob, n, next_packet_len) ==
  round_up_div(Len(blob.buf) + next_packet_len, n)

get_shard_len_next(blob, n, next_packet_len) ==
  round_up_div(Len(blob.buf) + 2 + next_packet_len, n)

EncodeInput(blob, packet) ==
  [counter |-> blob.counter + 1,
   buf     |-> blob.buf \o u16(Len(packet)) \o packet]

Encoded(packets) ==
  LET blob[i \in 0 .. Len(packets)] ==
        IF i = 0 THEN EncodeEmpty ELSE EncodeInput(blob[i - 1], packets[i])
  IN  blob[Len(packets)]

\* n shards; behind the packets they hold what the buffer held before.
EncodeOutput(blob, n, old) ==
  LET len == round_up_div(Len(blob.buf), n)
      all == u32(blob.counter) \o SubSeq(blob.buf, 5, Len(blob.buf)) \o old
  IN  [i \in 1 .. n |-> SubSeq(all, len * (i - 1) + 1, len * i)]

-----------------------------------------------------------------------------
(* Decoding *)

DecodeInput(shards) == FlattenSeq(shards)

\* The packet at r.pos joins those before it.
ReadPacket(buf, r) ==
  IF r = Refused THEN Refused
  ELSE IF r.pos + 2 > Len(buf) THEN Refused
  ELSE LET len == read_u16(SubSeq(buf, r.pos + 1, r.pos + 2))
       IN  IF r.pos + 2 + len > Len(buf) THEN Refused
           ELSE [pos     |-> r.pos + 2 + len,
                 packets |-> Append(r.packets, [at |-> r.pos + 2, len |-> len])]

\* Where the packets lie in the buffer; a count below zero yields none.
DecodeOutput(buf) ==
  LET n == read_u32(buf)
      read[i \in 0 .. max_blob_packet_num] ==
        IF i = 0 THEN [pos |-> 4, packets |-> << >>] ELSE ReadPacket(buf, read[i - 1])
  IN  IF Len(buf) < 4 \/ n > max_blob_packet_num THEN Refused
      ELSE IF n <= 0 THEN << >>
      ELSE IF read[n] = Refused THEN Refused
      ELSE read[n].packets

PacketsIn(buf, packets) ==
  [i \in DOMAIN packets |-> SubSeq(buf, packets[i].at + 1, packets[i].at + packets[i].len)]
===============================================================================
