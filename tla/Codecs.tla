-------------------------------- MODULE Codecs --------------------------------
(***************************************************************************)
(* What the program computes without keeping state: checksums, cooking,    *)
(* the Reed-Solomon code, blobs, the redundancy table, the settings from   *)
(* the command line and the clock.  A step hands an input to one of them;  *)
(* the properties compare what it computes with a definition that is       *)
(* slower and simpler.                                                     *)
(***************************************************************************)
EXTENDS RsCode, BlobCodec, Options, Clock

CONSTANTS Messages,      \* byte sequences for the checksums
          Datagrams,     \* what is cooked: data, initial vector and context
          Bursts,        \* what happens to up to four neighbouring bytes
          Strings,       \* for -f
          Packings,      \* packets of a group, its shards and what the buffer held
          Buffers,       \* byte sequences for the blob parser
          CommandLines,  \* options with their arguments
          Uninitialized, \* what a variable without a value may hold
          Clocks,        \* successive readings of the wall clock
          Deadlines,     \* of the timers that are started one after another
          Products,      \* factors and lengths of packets that are multiplied
          PatternLens, DataLens, KeyLens, Codes, Matrices, Words

\* A group of packets the assertions of blob_encode_t::input let through, and enough of
\* what the buffer held before to fill the last shard (fec_manager.cpp:55-73).
IsPacking(p) ==
  /\ p.packets \in Seq(Seq(0 .. 255)) /\ Len(p.packets) \in 1 .. max_blob_packet_num
  /\ \A i \in DOMAIN p.packets : Len(p.packets[i]) <= 65535
  /\ p.n \in Nat \ {0} /\ p.old \in Seq(0 .. 255) /\ Len(p.old) >= p.n

\* What getopt_long and sscanf make of a line: every number is an int.
IsCommandLine(argv) ==
  /\ argv \in Seq({argv[i] : i \in DOMAIN argv})
  /\ \A i \in DOMAIN argv :
       /\ argv[i].arg.numbers \in Seq(MinInt .. MaxInt)
       /\ argv[i].arg.pairs \in Seq([x : Int, y : Int]) \cup {Unparsable}

\* A packet and what its cooking depends on: random_between gives the initial vector
\* its length, which has to fit a byte.
IsDatagram(d) ==
  /\ d.data \in Seq(Byte) /\ d.conv \in Word /\ d.key \in Seq(Byte) /\ d.iv \in Seq(Byte)
  /\ d.ctx \in [key_tile : {<< >>}, iv_min : Nat, iv_max : 0 .. 255, disable_checksum : BOOLEAN,
                 disable_obscure : BOOLEAN, disable_xor : BOOLEAN]
  /\ Len(d.iv) \in d.ctx.iv_min .. d.ctx.iv_max

NoBurst == [at |-> 0, flips |-> << >>]

\* What flips a bit at least, and bits of no more than four bytes.
IsBurst(b) ==
  /\ b.at \in Nat /\ b.flips \in Seq(Byte) /\ Len(b.flips) \in 1 .. 4
  /\ \E i \in DOMAIN b.flips : b.flips[i] # {}

\* Data that is refused is no data.
ASSUME DataAssumption == Refused \notin Seq(Byte)

ASSUME InputsAssumption ==
  /\ Messages \subseteq Seq(Byte)
  /\ DataLens \subseteq Nat /\ PatternLens \subseteq Nat \ {0} /\ KeyLens \subseteq 1 .. 999
  /\ \A d \in Datagrams : IsDatagram(d)
  /\ \A b \in Bursts : b = NoBurst \/ IsBurst(b)
  /\ \A p \in Packings : IsPacking(p)
  /\ Deadlines \subseteq Seq(Int) \ {<< >>}
  /\ Buffers \subseteq Seq(0 .. 255)
  /\ Strings \subseteq Seq([x : Int, y : Int]) \cup {Unparsable}
  /\ Clocks \subseteq Seq(Int)
  /\ \A argv \in CommandLines : IsCommandLine(argv)
  /\ Uninitialized \subseteq MinInt .. MaxInt

VARIABLE input    \* what is being computed, with its arguments

Kinds == {"checksum", "xor", "key", "transmit", "erase", "invert", "degree", "addmul",
          "pack", "unpack", "timers", "fec", "arguments", "clock"}

\* Before and after something of this kind is computed.
Idle(kind) == [kind |-> "idle", of |-> kind]

Zlib == {31, 30, 29, 27, 26, 24, 23, 21, 20, 19, 15, 9, 8, 5}

Castagnoli == {31, 25, 20, 19, 18, 16, 14, 13, 12, 11, 9, 8, 6, 5, 4, 3}

Crc32  == INSTANCE Crc WITH Polynomial <- Zlib
Crc32c == INSTANCE Crc WITH Polynomial <- Castagnoli

crc32c(data) == Crc32c!crc32c(Cpu.ecx1, data, {})

Cook == INSTANCE PacketCook WITH VecWidth <- 16, crc32c <- crc32c

Heap2 == INSTANCE TimerHeap WITH DHEAP <- 2
Heap4 == INSTANCE TimerHeap WITH DHEAP <- 4

-----------------------------------------------------------------------------
(* Inputs *)

Ready(kind) == input = Idle(kind)

Compute(kind, args) == input' = [kind |-> kind, args |-> args]

Checksum == Ready("checksum") /\ \E m \in Messages : Compute("checksum", m)

Spread ==
  /\ Ready("xor")
  /\ \E d \in DataLens, p \in PatternLens : Compute("xor", [data |-> d, pat |-> p])

PrepareKey == Ready("key") /\ \E n \in KeyLens : Compute("key", n)

Transmit ==
  /\ Ready("transmit")
  /\ \E d \in Datagrams, b \in Bursts : Compute("transmit", [sent |-> d, burst |-> b])

Erase ==
  /\ Ready("erase")
  /\ \E c \in Codes, w \in Words :
       \E lost \in SUBSET (0 .. c.n - 1) :
         Compute("erase", [code |-> c, word |-> w, lost |-> lost])

Invert == Ready("invert") /\ \E m \in Matrices : Compute("invert", m)

TakeDegree == Ready("degree") /\ \E d \in 2 .. 16 : Compute("degree", d)

AddPackets ==
  /\ Ready("addmul")
  /\ \E p \in Products :
       Compute("addmul",
               [c |-> p.c, src |-> [i \in 1 .. p.len |-> BitsOf((37 * i) % (GfSize + 1))],
                           dst |-> [i \in 1 .. p.len |-> BitsOf((3 * i) % (GfSize + 1))]])

Pack == Ready("pack") /\ \E p \in Packings : Compute("pack", p)

Unpack == Ready("unpack") /\ \E b \in Buffers : Compute("unpack", b)

StartTimers ==
  /\ Ready("timers")
  /\ \E d \in {2, 4}, ats \in Deadlines : Compute("timers", [dheap |-> d, ats |-> ats])

ParseFec == Ready("fec") /\ \E s \in Strings : Compute("fec", s)

Begin ==
  /\ Ready("arguments")
  /\ \E argv \in CommandLines, junk \in Uninitialized :
       Compute("arguments", [argv |-> argv, junk |-> junk])

ReadClock == Ready("clock") /\ \E raw \in Clocks : Compute("clock", raw)

Finish == input.kind # "idle" /\ input' = Idle(input.kind)

Init == input \in {Idle(kind) : kind \in Kinds}

Next == \/ Checksum \/ Spread \/ PrepareKey \/ Transmit \/ Erase \/ Invert \/ TakeDegree
        \/ AddPackets \/ Pack \/ Unpack \/ StartTimers \/ ParseFec \/ Begin \/ ReadClock
        \/ Finish

Spec == Init /\ [][Next]_input

-----------------------------------------------------------------------------
(* Checksums *)

\* Every implementation of a checksum agrees with the division bit by bit,
\* whatever the length leaves over for its last bytes, and the checksum of two
\* parts is that of the whole, both when the second is continued from the first
\* and when the two are combined (Crc32.cpp:144-694, crc32c.h:44-105).
ChecksumsAgree ==
  input.kind = "checksum" =>
    LET m == input.args
        bitwise == Crc32!crc32_bitwise(m, {})
    IN  /\ Crc32!crc32_halfbyte(m, {}) = bitwise
        /\ Crc32!crc32_1byte(m, {}) = bitwise
        /\ Crc32!crc32_1byte_tableless(m, {}) = bitwise
        /\ Crc32!crc32_1byte_tableless2(m, {}) = bitwise
        /\ Crc32!crc32_4bytes(m, {}) = bitwise
        /\ Crc32!crc32_8bytes(m, {}) = bitwise
        /\ Crc32!crc32_4x8bytes(m, {}) = bitwise
        /\ Crc32!crc32_16bytes_prefetch(m, {}, 8) = bitwise
        /\ Crc32!crc32_fast(m, {}) = bitwise
        /\ Crc32c!crc32c_hw(m, {}) = Crc32c!crc32_bitwise(m, {})
        /\ Crc32c!crc32c_sw(m, {}) = Crc32c!crc32_bitwise(m, {})
        /\ \A cut \in {0, 1, Len(m) \div 2, Len(m)} \cap (0 .. Len(m)) :
             LET first == Crc32!crc32_fast(SubSeq(m, 1, cut), {})
                 rest  == SubSeq(m, cut + 1, Len(m))
             IN  /\ Crc32!crc32_fast(rest, first) = bitwise
                 /\ Crc32!crc32_combine(first, Crc32!crc32_fast(rest, {}), Len(rest)) = bitwise

-----------------------------------------------------------------------------
(* Cooking *)

\* n bytes meet a pattern of p, of which byte j is marked {j}.
MeetThePattern(n, p) ==
  LET data == [i \in 1 .. n |-> {}]
      pat  == [j \in 1 .. p |-> {j}]
      met  == [i \in 1 .. n |-> pat[((i - 1) % p) + 1]]
      sse  == Cook!Tile(pat, 16)
  IN  /\ Cook!xor_tile(16, data, sse) = met
      /\ Cook!xor_tile_avx2(16, data, sse) = met
      /\ Cook!xor_tile_avx512(16, data, sse) = met
      /\ Cook!xor_tile(4, data, Cook!Tile(pat, 4)) = met
      /\ \A head \in 0 .. 7 : Cook!xor_tile_aligned(8, data, Cook!Tile(pat, 8), head) = met

\* A pattern of n bytes has a tile that fits its buffer.
TilesFit(n) ==
  \A vec \in {4, 8, 16} :
    /\ Cook!TileLength(n, vec) + vec <= 16000
    /\ n \in 4 .. 32 => Cook!TileLength(n, vec) <= 512

\* Byte i of a datagram meets byte i of the repeated pattern, however wide the
\* vectors are and wherever the buffer starts (packet_cook.cpp:88-315, xor_spe.S);
\* and a key of any length that cook_ctx_t::key can hold has a tile that fits
\* key_tile with its padding, and the tile of an initial vector fits the stack
\* buffer (the assertions at packet_cook.cpp:330 and 347).
XorFollowsThePattern ==
  /\ input.kind = "xor" => MeetThePattern(input.args.data, input.args.pat)
  /\ input.kind = "key" => TilesFit(input.args)

\* The datagram as it arrives: the burst flips bits of neighbouring bytes.
Arrived(cooked, burst) ==
  [i \in DOMAIN cooked |->
     IF i - burst.at \in DOMAIN burst.flips
     THEN Xor(cooked[i], burst.flips[i - burst.at]) ELSE cooked[i]]

Context(sent) == [sent.ctx EXCEPT !.key_tile = Cook!prepare_key(sent.key)]

Packet(sent) == Cook!put_conv(sent.conv, sent.data)

\* What the receiver makes of a datagram.
Delivered(sent, burst) ==
  Cook!de_cook(Context(sent), Arrived(Cook!do_cook(Context(sent), Packet(sent), sent.iv), burst))

Recovered(sent) ==
  /\ Delivered(sent, NoBurst) # Refused
  /\ Cook!get_conv(Delivered(sent, NoBurst)) = [conv |-> sent.conv, data |-> sent.data]
  /\ Cook!get_conv0(Cook!put_conv0(sent.conv, sent.data)) = [conv |-> sent.conv, data |-> sent.data]

\* With any settings and any initial vector a cooked datagram is recovered, with
\* the conversation it belongs to (packet_cook.cpp:402-435, packet.cpp:248-277).
CookedComesBack ==
  input.kind = "transmit" /\ input.args.burst = NoBurst => Recovered(input.args.sent)

\* And with the checksum on, one in which a burst damaged at most 32 bits of the
\* data, or any part of its checksum, is always refused.  A burst across the end of the
\* data need not be: the checksum is stored with its bytes the other way round.
CookRoundTrip ==
  /\ CookedComesBack
  /\ input.kind = "transmit" =>
       LET sent  == input.args.sent
           burst == input.args.burst
           len   == Len(Packet(sent))
       IN  /\ burst # NoBurst
           /\ ~sent.ctx.disable_checksum
           /\ \/ burst.at + Len(burst.flips) <= len
              \/ burst.at >= len /\ burst.at + Len(burst.flips) <= len + 4
           => Delivered(sent, burst) = Refused

-----------------------------------------------------------------------------
(* The Reed-Solomon code *)

\* What is left of a word when at most n - k packets are lost is decoded to the
\* data, and with fewer than k packets decoding fails and says so (rs.cpp:11-43,
\* fec.cpp:1061-1217).
AnyKDecode ==
  input.kind = "erase" =>
    LET c    == input.args.code
        data == [i \in 0 .. c.k - 1 |-> input.args.word[i]]
        sent == rs_encode2(c.k, c.n, data)
        got  == [i \in 0 .. c.n - 1 |-> IF i \in input.args.lost THEN Missing ELSE sent[i]]
        back == rs_decode2(c.k, c.n, got)
    IN  IF Cardinality(input.args.lost) > c.n - c.k THEN back = Refused
        ELSE /\ back # Refused
             /\ \A i \in 0 .. c.k - 1 : back[i] = data[i]
             /\ Cardinality({i \in 0 .. c.n - 1 : back[i] # Missing})
                  = c.n - Cardinality(input.args.lost)

\* Where minus is plus, the sum over all permutations of the rows.
Determinant(m, k) ==
  LET Permutation == {f \in [0 .. k - 1 -> 0 .. k - 1] : IsInjective(f)}
      product(f) == FoldFunction(gf_mul, One, [i \in 0 .. k - 1 |-> m[i][f[i]]])
  IN  XorOver(Permutation, product)

\* x^n modulo the polynomial of degree d, by squaring.
PowerOfX(d, n) ==
  LET timesX(a) == IF d - 1 \in a THEN Xor(ShiftLeft(a, 1, d), allPp[d] \ {d}) ELSE ShiftLeft(a, 1, d)
      shifted[i \in 0 .. d - 1, a \in SUBSET (0 .. d - 1)] ==
        IF i = 0 THEN a ELSE timesX(shifted[i - 1, a])
      square(a) == XorOver(a, LAMBDA b : shifted[b, a])
      power[e \in Nat] ==
        IF e = 0 THEN One
        ELSE IF e % 2 = 1 THEN timesX(square(power[e \div 2])) ELSE square(power[e \div 2])
  IN  power[n]

\* Elimination in place finds the inverse of every matrix that has one, also when
\* a pivot is off the diagonal, and reports the others; on the matrix of a code the
\* fast inversion agrees with it; the tables of logarithms multiply polynomials
\* modulo the primitive one, and every vector width with its two half-size tables
\* computes the same products (fec.cpp:171-342, 410-933).
FieldAndMatrices ==
  /\ input.kind = "invert" =>
       LET m == input.args
           k == Cardinality(DOMAIN m)
           inverse == invert_mat(m, k)
       IN  IF Determinant(m, k) = {} THEN inverse = Refused
           ELSE inverse # Refused /\ matmul(m, inverse, k) = Identity(k)
  /\ input.kind = "erase" /\ input.args.lost = {} =>
       LET k == input.args.code.k
           v == Vandermonde(k, k)
       IN  invert_vdm(v, k) = invert_mat(v, k)
  /\ input.kind = "addmul" =>
       LET c   == input.args.c
           src == input.args.src
           dst == input.args.dst
           scalar == addmul1_scalar(dst, src, c)
       IN  /\ addmul1_ssse3(dst, src, c) = scalar
           /\ addmul1_avx2(dst, src, c) = scalar
           /\ addmul1_avx512(dst, src, c) = scalar
           /\ addmul1_neon(dst, src, c) = scalar
           /\ c # {} => gf_mul(c, gf_inverse[c]) = One
           /\ gf_mul(c, One) = c
           /\ \A b \in 1 .. GfBits - 1 : gf_mul(c, {b}) = TimesAlpha(gf_mul(c, {b - 1}))
           /\ addmul1(dst, src, c) = scalar
           /\ gf_mul(c, {}) = {}
          /\ \A x \in Gf \ {{}} :
               LET b == CHOOSE b \in x : TRUE
               IN  gf_mul(c, x) = Xor(gf_mul(c, {b}), gf_mul(c, x \ {b}))
  /\ input.kind = "degree" =>
       LET d     == input.args
           order == 2 ^ d - 1
       IN  /\ PowerOfX(d, order) = One
           /\ \A n \in 1 .. order - 1 : order % n = 0 => PowerOfX(d, n) # One
           /\ d = GfBits => test_gf = [exp_log |-> {{}}, mul_inv |-> {}, mul_zero |-> {}]

-----------------------------------------------------------------------------
(* Blobs and redundancy *)

\* The packets of a group come back from its shards in order, whatever is behind
\* them in the buffer, and the shards are as long as was promised before the last
\* packet was added; and whatever else shards decode to, a packet handed on lies
\* inside them (fec_manager.cpp:35-129).
BlobRoundTrip ==
  /\ input.kind = "pack" =>
       LET p      == input.args
           blob   == Encoded(p.packets)
           shards == EncodeOutput(blob, p.n, p.old)
           buf    == DecodeInput(shards)
           last   == p.packets[Len(p.packets)]
       IN  /\ DecodeOutput(buf) # Refused
           /\ PacketsIn(buf, DecodeOutput(buf)) = p.packets
           /\ Len(shards[1]) = get_shard_len_next(Encoded(Front(p.packets)), p.n, Len(last))
  /\ input.kind = "unpack" /\ DecodeOutput(input.args) # Refused =>
       LET packets == DecodeOutput(input.args)
       IN  \A i \in DOMAIN packets : packets[i].at + packets[i].len <= Len(input.args)

NoTable == [version |-> 0, mtu |-> 0, queue_len |-> 0, timeout |-> 0, mode |-> 0,
            rs_cnt |-> 0, rs_par |-> [x \in 1 .. max_fec_packet_num |-> [x |-> 0, y |-> 0]]]

\* Every number of packets up to the tail has a group that the code can encode and
\* at least the redundancy of the line between its neighbours; and the table printed
\* as a string is the same table (fec_manager.h:40-152).
RedundancyIsInterpolated ==
  input.kind = "fec" /\ Acceptable(input.args) =>
    LET s   == input.args
        par == rs_from_str(NoTable, s)
    IN  /\ \A x \in 1 .. par.rs_cnt : /\ par.rs_par[x].x = x
                                      /\ par.rs_par[x].y \in 0 .. max_fec_packet_num - x
        /\ \A i \in DOMAIN s : par.rs_par[s[i].x] = s[i]
        /\ \A i \in 2 .. Len(s), x \in 1 .. max_fec_packet_num :
             s[i - 1].x <= x /\ x <= s[i].x =>
               (par.rs_par[x].y - s[i - 1].y) * (s[i].x - s[i - 1].x)
                 >= (s[i].y - s[i - 1].y) * (x - s[i - 1].x)
        /\ get_tail(par) = s[Len(s)]
        /\ rs_from_str(NoTable, rs_to_str(par)) = par

-----------------------------------------------------------------------------
(* Timers *)

Verified(d, h) == IF d = 2 THEN Heap2!verify_heap(h) ELSE Heap4!verify_heap(h)

Entries(h) == {h.timers[i] : i \in DOMAIN h.timers}

\* Timers started in any order of their deadlines, one of them stopped or the first
\* postponed, stay a heap in which everyone knows its place, and no other timer is
\* lost or changed, with either heap (ev.c:2240-2369, 3906-3958).
TimersStayHeap ==
  input.kind = "timers" =>
    LET d   == input.args.dheap
        ats == input.args.ats
        insert(h, i) == IF d = 2 THEN Heap2!HeapInsert(h, i, ats[i]) ELSE Heap4!HeapInsert(h, i, ats[i])
        remove(h, i) == IF d = 2 THEN Heap2!HeapRemove(h, i) ELSE Heap4!HeapRemove(h, i)
        postpone(h, at) == IF d = 2 THEN Heap2!HeapPostpone(h, at) ELSE Heap4!HeapPostpone(h, at)
        started[i \in 0 .. Len(ats)] ==
          IF i = 0 THEN [timers |-> << >>, active |-> [w \in DOMAIN ats |-> 0]]
          ELSE insert(started[i - 1], i)
        all   == started[Len(ats)]
        first == all.timers[1]
        later == postpone(all, first.at + 2)
    IN  /\ \A i \in DOMAIN ats : Verified(d, started[i])
        /\ Entries(all) = {[w |-> w, at |-> ats[w]] : w \in DOMAIN ats}
        /\ \A w \in DOMAIN ats :
             LET left == remove(all, w)
             IN  /\ Verified(d, left) /\ left.active[w] = 0
                 /\ Entries(left) = {e \in Entries(all) : e.w # w}
        /\ Verified(d, later)
        /\ Entries(later) = (Entries(all) \ {first}) \cup {[first EXCEPT !.at = @ + 2]}

-----------------------------------------------------------------------------
(* The command line and the clock *)

Pairs == {"jitter", "interval"}

MaxTimeout == 1000 * 1000

\* An argument that is read to its end, so that nothing of an earlier one is left.
Complete(option) ==
  LET arg == option.arg
  IN  CASE option.name \in Texts \cup {"out_interface"} -> arg.text # ""
        [] option.name \in Pairs /\ arg.colon -> Len(arg.numbers) = 2
        [] option.name \in Flags \cup Addresses \cup {"fec"} -> TRUE
        [] OTHER -> arg.numbers # << >>

\* More milliseconds than fit 32 bits when they become microseconds.
Overflows(option) ==
  /\ option.name \in Pairs /\ option.arg.colon
  /\ \E i \in DOMAIN option.arg.numbers : option.arg.numbers[i] > MaxInt \div 1000

\* Options about different settings.
Independent(name, other) ==
  name # other /\ {name, other} # {"enable_color", "disable_color"}

\* The option at i is given again at j, and not between them.
IsNext(argv, i, j) ==
  argv[j].name = argv[i].name /\ \A k \in i + 1 .. j - 1 : argv[k].name # argv[i].name

\* No later option has the name of the one at i.
IsLast(argv, i) == \A k \in i + 1 .. Len(argv) : argv[k].name # argv[i].name

\* Settings the two loops and the encoder are written for.
Mtus == 100 .. 2000

QueueLens == 1 .. 10000

WindowSizes == 300 .. 20000

DropRates == 0 .. 10000

InRange(s) ==
  /\ Cardinality({"client", "server"} \cap s.flags) = 1
  /\ NoAddress \notin {s.local_addr, s.remote_addr}
  /\ s.fec.mtu \in Mtus /\ s.fec.mode \in {0, 1}
  /\ s.fec.timeout \in 0 .. MaxTimeout /\ s.fec.queue_len \in QueueLens
  /\ s.fec.rs_cnt >= 1
  /\ LET slots == group_table_size(s.decode_buf)
     IN  /\ slots \in 2 * s.decode_buf .. 4 * s.decode_buf - 1
         /\ \E e \in 0 .. 16 : slots = 2 ^ e
  /\ s.decode_buf \in WindowSizes /\ s.random_drop \in DropRates

\* Of a group with x packets and its redundancy: the code can encode it, and the decoder
\* takes it as long as the pairs of the table are what the decoder takes.
GroupsCanBeSent(s) ==
  LET table == s.rs_par_str.pairs
      par   == s.fec
  IN  /\ \A x \in 1 .. par.rs_cnt : par.rs_par[x].y \in 0 .. max_fec_packet_num - x
      /\ (\A x \in 1 .. par.rs_cnt : TakenByDecoder(x, par.rs_par[x].y))
           <=> (\A i \in DOMAIN table : TakenByDecoder(table[i].x, table[i].y))

\* What random_between insists on, if the option is not given, or was the last time read
\* completely and without an overflow.
DelaysCanBeDrawn(s, argv) ==
  \A name \in Pairs :
    (\A i \in DOMAIN argv :
       argv[i].name = name /\ IsLast(argv, i) => Complete(argv[i]) /\ ~ Overflows(argv[i]))
      => 0 <= s[name].min /\ s[name].min <= s[name].max

Swapped(argv, i) == [argv EXCEPT ![i] = argv[i - 1], ![i - 1] = argv[i]]

\* What is started is either a client or a server with both addresses, with limits and a
\* window the encoder and decoder are written for, and a table of groups that is a power
\* of two of at least two slots for every datagram of the window.  Every group of the
\* table of -f can be encoded; the decoder takes all of them exactly if no pair was given
\* with x + y = max_fec_packet_num, which the parser lets through and the decoder does
\* not.  Delays can be drawn unless the option was the last time read in part or not at
\* all, or overflows.  The order of options about different settings does not matter,
\* and an option that is given again and then read completely does not count the first time
\* (misc.cpp:600-914, fec_manager.h:27-72, fec_manager.cpp:509).
SettingsAreSound ==
  input.kind = "arguments" =>
    LET argv == input.args.argv
        junk == input.args.junk
        s    == main(argv, junk)
    IN  s.exit = Running =>
          /\ InRange(s)
          /\ GroupsCanBeSent(s)
          /\ DelaysCanBeDrawn(s, argv)
          /\ \A i \in 2 .. Len(argv) :
               Independent(argv[i - 1].name, argv[i].name) => main(Swapped(argv, i), junk) = s
          /\ \A i \in DOMAIN argv :
               (\E j \in i + 1 .. Len(argv) : IsNext(argv, i, j) /\ Complete(argv[j])) =>
                 main(RemoveAt(argv, i), junk) = s

\* However often and however far the wall clock is set back, the time the timers and
\* the delays are counted in only stands still meanwhile, and goes on as fast as the
\* wall clock does (common.cpp:426-448).
TimeNeverGoesBack ==
  input.kind = "clock" =>
    LET raw  == input.args
        seen == Readings(raw)
    IN  \A i \in 2 .. Len(raw) :
          seen[i] - seen[i - 1] = (IF raw[i] > raw[i - 1] THEN raw[i] - raw[i - 1] ELSE 0)
===============================================================================
