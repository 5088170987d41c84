------------------------------ MODULE PacketCook ------------------------------
(***************************************************************************)
(* packet_cook.cpp: the checksum, the obscuring and the xor with the key   *)
(* that a datagram goes through before it is sent, and their undoing; and  *)
(* the conversation header of packet.cpp.                                  *)
(***************************************************************************)
EXTENDS Bits, SequencesExt

CONSTANTS VecWidth,    \* COOK_VEC_WIDTH: bytes in a vector register
          crc32c(_)    \* the checksum of a sequence of bytes

-----------------------------------------------------------------------------
(* The tile: the pattern repeated up to a multiple of the vector width.  A    *)
(* loop is the sequence of its states, as long as it can be at most; `vec` is *)
(* the vector width of the platform.                                          *)

GcdRound(s) == IF s.b = 0 THEN s ELSE [a |-> s.b, b |-> s.a % s.b]

cook_gcd(a, b) ==
  LET round[k \in 0 .. b] == IF k = 0 THEN [a |-> a, b |-> b] ELSE GcdRound(round[k - 1])
  IN  round[b].a

cook_lcm(a, b) == (a \div cook_gcd(a, b)) * b

TileLength(pat_len, vec) == cook_lcm(pat_len, vec)

\* What is there is copied behind itself until the tile is full.
CopyRound(tile_len, tile) ==
  LET left == tile_len - Len(tile)
  IN  IF left <= 0 THEN tile
      ELSE tile \o SubSeq(tile, 1, IF left > Len(tile) THEN Len(tile) ELSE left)

expand_tile(tile_len, pat) ==
  LET rounds == tile_len \div Len(pat)
      round[k \in 0 .. rounds] == IF k = 0 THEN pat ELSE CopyRound(tile_len, round[k - 1])
  IN  round[rounds]

\* The tile with the padding that a vector load may run into.
Tile(pat, vec) ==
  LET len  == TileLength(Len(pat), vec)
      tile == expand_tile(len, pat)
  IN  [len |-> len, bytes |-> tile \o SubSeq(tile, 1, vec)]

-----------------------------------------------------------------------------
(* Xor with the tile *)

\* The offset after a load of `width` bytes at t.  The widest loops subtract the
\* tile's length, which is what t has then reached.
Advanced(t, width, tile) == IF t + width >= tile.len THEN 0 ELSE t + width

Load(t, width, tile) == SubSeq(tile.bytes, t + 1, t + width)

LoadRound(width, tile, s) ==
  [at |-> Advanced(s.at, width, tile), bytes |-> s.bytes \o Load(s.at, width, tile)]

\* n loads of `width` bytes, one behind the other.
Loads(t, width, n, tile) ==
  LET load[k \in 0 .. n] ==
        IF k = 0 THEN [at |-> t, bytes |-> << >>] ELSE LoadRound(width, tile, load[k - 1])
  IN  load[n]

\* As long as `width` bytes are left they meet as many of the tile, loaded `load` at
\* a time.
XorRound(load, width, data, tile, s) ==
  LET i   == Len(s.bytes)
      key == Loads(s.at, load, width \div load, tile)
  IN  IF i + width > Len(data) THEN s
      ELSE [at    |-> key.at,
            bytes |-> s.bytes \o XorBytes(SubSeq(data, i + 1, i + width), key.bytes)]

XorLoop(load, width, data, tile, s) ==
  LET rounds == (Len(data) - Len(s.bytes)) \div width
      round[k \in 0 .. rounds] ==
        IF k = 0 THEN s ELSE XorRound(load, width, data, tile, round[k - 1])
  IN  round[rounds]

AtHead == [at |-> 0, bytes |-> << >>]

ByteByByte(data, tile, s) == XorLoop(1, 1, data, tile, s).bytes

\* Mutant of xor_tile_avx2: the vectors start over at the head of the tile.
xor_tile_restarting(vec, data, tile) ==
  LET wide == XorLoop(vec, 2 * vec, data, tile, AtHead)
  IN  ByteByByte(data, tile, XorLoop(vec, vec, data, tile, [wide EXCEPT !.at = 0]))

xor_tile_avx2(vec, data, tile) ==
  LET wide == XorLoop(vec, 2 * vec, data, tile, AtHead)
  IN  ByteByByte(data, tile, XorLoop(vec, vec, data, tile, wide))

xor_tile_avx512(vec, data, tile) ==
  LET widest == XorLoop(vec, 4 * vec, data, tile, AtHead)
      wide   == XorLoop(vec, 2 * vec, data, tile, widest)
  IN  ByteByByte(data, tile, XorLoop(vec, vec, data, tile, wide))

\* SSE2, NEON and the machine words of other platforms.
xor_tile(vec, data, tile) == ByteByByte(data, tile, XorLoop(vec, vec, data, tile, AtHead))

\* Four doublewords at a time, then one; the tile's offset starts at 0.
xor_tile_spe(vec, data, tile) ==
  LET wide == XorLoop(vec, 4 * vec, data, tile, AtHead)
  IN  ByteByByte(data, tile, XorLoop(vec, vec, data, tile, wide))

\* The tile from offset t on, all around, with its padding.
Rotated(vec, tile, t) ==
  LET turned == SubSeq(tile.bytes, t + 1, tile.len) \o SubSeq(tile.bytes, 1, t)
  IN  [tile EXCEPT !.bytes = turned \o SubSeq(turned, 1, vec)]

\* On SPE the buffer has to be aligned: `head` bytes are done one by one, and the
\* tile is rotated so that the vectors start at its head.
xor_tile_aligned(vec, data, tile, misaligned) ==
  LET head == IF misaligned > Len(data) THEN Len(data) ELSE misaligned
      t    == head % tile.len
      rest == SubSeq(data, head + 1, Len(data))
  IN  ByteByByte(SubSeq(data, 1, head), tile, AtHead)
        \o CASE Len(rest) >= vec /\ t # 0 -> xor_tile_spe(vec, rest, Rotated(vec, tile, t))
             [] Len(rest) >= vec /\ t = 0 -> xor_tile_spe(vec, rest, tile)
             [] OTHER -> ByteByByte(rest, tile, [AtHead EXCEPT !.at = t])

xor_with_pattern(data, pat) ==
  IF pat = << >> \/ data = << >> THEN data ELSE xor_tile(VecWidth, data, Tile(pat, VecWidth))

-----------------------------------------------------------------------------
(* Cooking.  A context has the key's tile and the settings. *)

\* cook_ctx_prepare_key: no key, no tile.
prepare_key(key) == IF key = << >> THEN [len |-> 0, bytes |-> << >>] ELSE Tile(key, VecWidth)

encrypt_0(ctx, data) ==
  IF ctx.key_tile.len = 0 THEN data ELSE xor_tile(VecWidth, data, ctx.key_tile)

\* Big endian, as cook_write_u32 and htonl store a number.
write_u32(w) == [i \in 1 .. 4 |-> ByteOf(w, 4 - i)]

read_u32(bytes) == WordOf(Reverse(bytes))

put_crc32(ctx, data) ==
  IF ctx.disable_checksum THEN data ELSE data \o write_u32(crc32c(data))

rm_crc32(ctx, data) ==
  LET len == Len(data) - 4
      s   == SubSeq(data, 1, len)
  IN  CASE ctx.disable_checksum -> data
        [] ~ctx.disable_checksum /\ len < 0 -> Refused
        [] ~ctx.disable_checksum /\ len >= 0 ->
             IF read_u32(SubSeq(data, len + 1, Len(data))) = crc32c(s) THEN s ELSE Refused

\* The initial vector is sent behind the data, its length in the last byte.
do_obscure(data, iv) == xor_with_pattern(data, iv) \o iv \o << BitsOf(Len(iv)) >>

\* Mutant of de_obscure: the length byte is counted with the initial vector.
de_obscure_short(ctx, data) ==
  LET len    == Len(data)
      iv_len == CHOOSE n \in 0 .. 255 : BitsOf(n) = data[len]
  IN  IF len < 1 THEN Refused
      ELSE IF iv_len < ctx.iv_min \/ iv_len > ctx.iv_max \/ len < iv_len THEN Refused
      ELSE xor_with_pattern(SubSeq(data, 1, len - iv_len),
                            SubSeq(data, len - iv_len + 1, len))

de_obscure(ctx, data) ==
  LET len    == Len(data)
      iv_len == CHOOSE n \in 0 .. 255 : BitsOf(n) = data[len]
  IN  IF len < 1 THEN Refused
      ELSE IF iv_len < ctx.iv_min \/ iv_len > ctx.iv_max \/ len < 1 + iv_len THEN Refused
      ELSE xor_with_pattern(SubSeq(data, 1, len - 1 - iv_len),
                            SubSeq(data, len - iv_len, len - 1))

do_cook(ctx, data, iv) ==
  LET checked  == put_crc32(ctx, data)
      obscured == IF ctx.disable_obscure THEN checked ELSE do_obscure(checked, iv)
  IN  IF ctx.disable_xor THEN obscured ELSE encrypt_0(ctx, obscured)

de_cook(ctx, data) ==
  LET plain == IF ctx.disable_xor THEN data ELSE encrypt_0(ctx, data)
      clear == IF ctx.disable_obscure THEN plain ELSE de_obscure(ctx, plain)
  IN  IF clear = Refused THEN Refused ELSE rm_crc32(ctx, clear)

-----------------------------------------------------------------------------
(* The conversation number in front of a packet *)

put_conv(conv, data) == write_u32(conv) \o data

put_conv0(conv, data) == put_conv(conv, data) \o write_u32(crc32c(put_conv(conv, data)))

get_conv(packet) ==
  IF Len(packet) < 4 THEN Refused
  ELSE [conv |-> read_u32(SubSeq(packet, 1, 4)), data |-> SubSeq(packet, 5, Len(packet))]

get_conv0(packet) ==
  LET len == Len(packet) - 4
  IN  IF len < 4 THEN Refused
      ELSE IF read_u32(SubSeq(packet, len + 1, Len(packet))) # crc32c(SubSeq(packet, 1, len))
      THEN Refused
      ELSE [conv |-> read_u32(SubSeq(packet, 1, 4)), data |-> SubSeq(packet, 5, len)]
===============================================================================
