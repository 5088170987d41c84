------------------------------- MODULE MCCodecs -------------------------------
EXTENDS Codecs, FiniteSetsExt, TLC

\* One with AVX2 but not AVX-512, whose crc32 instructions are used.
MCCpu ==
  [leaf1 |-> TRUE, ecx1 |-> {20, 27}, xcr0 |-> {1, 2}, leaf7 |-> TRUE, ebx7 |-> {5}]

\* Bytes that differ from their neighbours.
Octet(i) == BitsOf((i * 37 + i \div 7) % 256)

Message(len, from) == [i \in 1 .. len |-> Octet(i + from)]

MCMessages == {Message(len, 3) : len \in {0, 1, 3, 4, 7, 8, 15, 16, 31, 33, 40, 63, 64, 71, 73}}
                \cup {[i \in 1 .. 9 |-> {}], [i \in 1 .. 6 |-> 0 .. 7]}

MCDataLens == {0, 1, 7, 8, 15, 16, 17, 33, 49, 70, 131}
MCProducts ==
  {[c |-> c, len |-> 17] : c \in Gf}
    \cup {[c |-> c, len |-> 241] : c \in {x \in Gf : Cardinality(x) \in {1, 6}}}
MCPatternLens == {1, 3, 4, 5, 15, 16, 17, 31, 32}
MCKeyLens == 1 .. 999

Ctx(checksum, obscure, xor) ==
  [key_tile |-> << >>, iv_min |-> 4, iv_max |-> 32,
   disable_checksum |-> ~checksum, disable_obscure |-> ~obscure, disable_xor |-> ~xor]

MCDatagrams ==
  {d \in {[conv |-> BitsOf(77777), data |-> Message(len, 11), iv |-> Message(iv, 5), key |-> key,
           ctx |-> Ctx(checksum, obscure, xor)] :
             len \in {0, 1, 9, 20}, iv \in {4, 17, 32},
             key \in {<< >>, Message(6, 2), Message(19, 8)},
             checksum \in BOOLEAN, obscure \in BOOLEAN, xor \in BOOLEAN} :
     d.ctx.disable_xor => Len(d.key) = 6}

MCBursts ==
  {NoBurst} \cup {[at |-> at, flips |-> flips] : at \in {0, 3, 5, 8, 11, 24},
     flips \in {<<{0}>>, <<{7}>>, <<0 .. 7>>, <<{7}, {0}>>, <<{3}, {}, {4}>>, <<{1}, 0 .. 7, {}, {7}>>}}

MCCodes == {[k |-> k, n |-> n] : k \in 1 .. 4, n \in 1 .. 6} \cap
           {c \in [k : 1 .. 4, n : 1 .. 6] : c.k <= c.n}

MCWords == {[i \in 0 .. 3 |-> << {i}, {0, 3 - i}, {1, 2} >>]}

\* All matrices of two rows over a few elements, and some of three rows.
Few == {{}, {0}, {1}, {0, 3}}
MCMatrices == [0 .. 1 -> [0 .. 1 -> Few]]
                \cup [0 .. 2 -> {[i \in 0 .. 2 |-> IF i = j THEN {0} ELSE {}] : j \in 0 .. 2}
                                  \cup {[i \in 0 .. 2 |-> {i}], [i \in 0 .. 2 |-> {1, 2}]}]

MCPackings ==
  {[packets |-> packets, n |-> n, old |-> << 9, 9, 9, 9, 9, 9>>] :
     packets \in SeqOf({<< >>, << 5 >>, << 0, 255, 1>>}, 3) \ {<< >>}, n \in 1 .. 5}
     \cup {[packets |-> << [i \in 1 .. 300 |-> i % 256] >>, n |-> n, old |-> << 9, 9, 9 >>] : n \in {2, 3}}

MCBuffers ==
  {<< 0, 0, 0, n >> \o rest : n \in {0, 1, 2, 7}, rest \in SeqOf({0, 1, 2}, 5)}
    \cup {<< 0, 0, 1>>, <<255, 255, 255, 255>>, <<0, 0, 0, 2, 0, 1, 7, 1, 0>>}

Pair == [x : {1, 2, 3, 5, 10, 26, 30}, y : {0, 1, 4, 6}] \cup {[x |-> 0, y |-> 1], [x |-> 2, y |-> -1]}
MCStrings == {Unparsable, << >>} \cup {<<a>> : a \in Pair} \cup {<<a, b>> : a, b \in Pair}
               \cup {<<[x |-> 1, y |-> 3], a, [x |-> 10, y |-> 2]>> : a \in Pair}

\* Every order of up to six timers, and eleven, which fill two levels of a four-ary heap.
MCDeadlines ==
  (SeqOf(1 .. 3, 6) \ {<< >>})
    \cup {[i \in 1 .. 11 |-> IF i = 1 THEN 1 ELSE IF i \in late THEN 4 ELSE IF i > 5 THEN 2 + (i % 2) ELSE 2] :
            late \in SUBSET (2 .. 9)}

MCUninitialized == {-1, 0, 77}

MCClocks == {<<10>> \o raw : raw \in SeqOf({0, 3, 10, 14}, 5)}

-----------------------------------------------------------------------------

Numbers(n) == [NoText EXCEPT !.numbers = n]
PairOf(n) == [Numbers(n) EXCEPT !.colon = TRUE]
Text(t) == [NoText EXCEPT !.text = t]
Table(pairs) == [PairOf(<< >>) EXCEPT !.pairs = pairs]
At(port, version, bracketed) ==
  [address |-> [version |-> version, bracketed |-> bracketed]] @@ Numbers(<<port>>)

Opt(name, arg) == [name |-> name, arg |-> arg]

\* At, below and above each limit, and one that cannot be read.
Near(name) ==
  {Opt(name, Numbers(<<n>>)) :
     n \in {Limits[name].min - 1, Limits[name].min, Limits[name].max}
             \cup (IF Limits[name].max < MaxInt
                   THEN {Limits[name].max + 1} ELSE {})}
    \cup {Opt(name, NoText)}

Delays ==
  {Numbers(<< >>)} \cup {Numbers(<<n>>) : n \in {-1, 3, 10000, 10001}}
    \cup {PairOf(<<m, n>>) : m, n \in {-1, 5, 2147483, 4294968}}
    \cup {PairOf(<<7>>), PairOf(<< >>)}

Various ==
  UNION {Near(name) : name \in DOMAIN Limits}
    \cup {Opt(name, Numbers(<<n>>)) : name \in Unlimited, n \in {-5, 1400}}
    \cup {Opt(name, arg) : name \in Pairs, arg \in Delays}
    \cup {Opt(name, Numbers(n)) : name \in {"timeout", "sock_buf"},
            n \in {<< >>, <<-1>>, <<0>>, <<9>>, <<10>>, <<1000>>, <<1001>>, <<10240>>, <<10241>>}}
    \cup {Opt(name, Text(t)) : name \in Texts \cup {"out_interface"}, t \in {"", "one", "-h"}}
    \cup {Opt("fec", Table(p)) : p \in {Unparsable, <<[x |-> 3, y |-> 4], [x |-> 9, y |-> 2]>>,
                                     <<[x |-> 2, y |-> 29], [x |-> 20, y |-> 10]>>,
                                     <<[x |-> 24, y |-> 8]>>, <<[x |-> 24, y |-> 9]>>}}
    \cup {Opt("fec", Text("20")), Opt("unknown", NoText), Opt("--unit-test", NoText)}
    \cup {Opt("log_level", Numbers(<<n>>)) : n \in {-1, 0, 6, 7}}
    \cup {Opt(name, NoText) : name \in Flags \cup Ignored}
    \cup {Opt("out_addr", At(port, version, bracketed)) :
            port \in {0, 65535, 65536}, version \in {4, 6}, bracketed \in BOOLEAN}

\* What every command line needs, and what goes with it.
Client == <<Opt("client", NoText), Opt("local_addr", At(80, 4, FALSE)),
            Opt("remote_addr", At(90, 6, TRUE))>>

\* Given together with others and more than once.
More == {v \in Various : v.name \in {"jitter", "timeout", "fec", "key", "log_level", "queue_len"}}

\* Given three times, where the second time nothing can be read, and the colours.
Thrice ==
  {Opt("report", Numbers(n)) : n \in {<< >>, <<0>>, <<7>>}}
    \cup {Opt(name, NoText) : name \in {"enable_color", "disable_color"}}

MCCommandLines ==
  {<< >>, SubSeq(Client, 1, 2), SubSeq(Client, 2, 3), Client,
   Client \o <<Opt("server", NoText)>>}
    \cup {Client \o <<a>> : a \in Various}
    \cup {Client \o <<a, b>> : a \in More, b \in More}
    \cup {Client \o <<a, b, c>> : a, b, c \in Thrice}
===============================================================================
