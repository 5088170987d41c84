-------------------------------- MODULE RsCode --------------------------------
(***************************************************************************)
(* lib/fec.cpp and lib/rs.cpp: the finite field, the linear algebra over   *)
(* it, and the Reed-Solomon code.  A field element is the set of its one   *)
(* bits; sums are exclusive or.  A matrix is a function of rows.           *)
(***************************************************************************)
EXTENDS Bits, SequencesExt

CONSTANTS GfBits,    \* GF_BITS
          Cpu        \* what cpuid and xgetbv say of the processor

\* The processor: whether the leaves 1 and 7 exist, and the bits of their registers
\* and of xcr0 that matter.
Cpus ==
  [leaf1 : BOOLEAN, ecx1 : SUBSET {20, 27}, xcr0 : SUBSET {1, 2, 5, 6, 7},
   leaf7 : BOOLEAN, ebx7 : SUBSET {5, 30}]

ASSUME CpuAssumption == GfBits \in 2 .. 16 /\ Cpu \in Cpus

\* The exponents of the primitive polynomial of each degree; there is none of degree 1.
allPp ==
  << {}, 0 .. 2, {0, 1, 3}, {0, 1, 4}, {0, 2, 5}, {0, 1, 6}, {0, 3, 7}, {0, 2, 3, 4, 8},
     {0, 4, 9}, {0, 3, 10}, {0, 2, 11}, {0, 1, 4, 6, 12}, {0, 1, 3, 4, 13},
     {0, 1, 6, 10, 14}, {0, 1, 15}, {0, 1, 3, 12, 16} >>

\* What x^GfBits is.
Pp == allPp[GfBits] \ {GfBits}

GfSize == 2 ^ GfBits - 1

Gf == SUBSET (0 .. GfBits - 1)

One == {0}

-----------------------------------------------------------------------------
(* The field *)

TimesAlpha(x) ==
  IF GfBits - 1 \in x THEN Xor(Pp, ShiftLeft(x, 1, GfBits)) ELSE ShiftLeft(x, 1, GfBits)

\* The powers of alpha, twice over so that two logarithms can be added.
gf_exp ==
  LET powers[s \in Seq(Gf)] ==
        LET i    == Len(s)
            next == IF i < GfBits THEN {i} ELSE IF i = GfBits THEN Pp ELSE TimesAlpha(s[i])
        IN  IF i = GfSize THEN s ELSE powers[Append(s, next)]
      power == powers[<< >>]
  IN  [i \in 0 .. 2 * GfSize - 1 |-> power[(i % GfSize) + 1]]

gf_log ==
  [x \in Gf |-> IF x = {} THEN GfSize ELSE CHOOSE i \in 0 .. GfSize - 1 : gf_exp[i] = x]

gf_inverse ==
  [x \in Gf |-> CASE x = {} -> {}
                  [] x = One -> One
                  [] OTHER -> gf_exp[GfSize - gf_log[x]]]

\* x % GfSize without a division.
modnn[x \in Nat] ==
  IF x < GfSize THEN x
  ELSE LET y == x - GfSize IN modnn[(y \div (GfSize + 1)) + (y % (GfSize + 1))]

gf_mul_table ==
  [x \in Gf |-> [y \in Gf |->
     IF x = {} \/ y = {} THEN {} ELSE gf_exp[modnn[gf_log[x] + gf_log[y]]]]]

gf_mul(x, y) == gf_mul_table[x][y]

-----------------------------------------------------------------------------
(* dst + c * src for whole packets *)

\* The low and the high half of an element index two small tables.
Half == GfBits \div 2

gf_lo_table == [c \in Gf |-> [h \in SUBSET (0 .. Half - 1) |-> gf_mul(c, h)]]

gf_hi_table ==
  [c \in Gf |-> [h \in SUBSET (0 .. Half - 1) |-> gf_mul(c, ShiftLeft(h, Half, GfBits))]]

NibbleProduct(c, x) ==
  Xor(gf_lo_table[c][x \cap (0 .. Half - 1)], gf_hi_table[c][ShiftRight(x, Half)])

\* Where the vectors of these widths end, each taken as often as it fits.
Vectored(widths, sz) ==
  LET end[i \in 0 .. Len(widths)] ==
        IF i = 0 THEN 0
        ELSE end[i - 1] + ((sz - end[i - 1]) \div widths[i]) * widths[i]
  IN  end[Len(widths)]

AddMulSimd(widths, dst, src, c) ==
  LET end == Vectored(widths, Len(dst))
  IN  [i \in DOMAIN dst |->
         Xor(dst[i], IF i <= end THEN NibbleProduct(c, src[i]) ELSE gf_mul(c, src[i]))]

addmul1_ssse3(dst, src, c) == AddMulSimd(<<32, 16>>, dst, src, c)

addmul1_avx2(dst, src, c) == AddMulSimd(<<64, 32, 16>>, dst, src, c)

addmul1_avx512(dst, src, c) == AddMulSimd(<<128, 64, 32, 16>>, dst, src, c)

addmul1_neon(dst, src, c) == AddMulSimd(<<32, 16>>, dst, src, c)

\* The scalar loop, unrolled sixteen times.
addmul1_scalar(dst, src, c) == [i \in DOMAIN dst |-> Xor(dst[i], gf_mul(c, src[i]))]

\* The processor has it and the operating system saves its registers.
cpu_has_avx2(cpu) ==
  cpu.leaf1 /\ 27 \in cpu.ecx1 /\ {1, 2} \subseteq cpu.xcr0 /\ cpu.leaf7 /\ 5 \in cpu.ebx7

\* Switched off, whatever the processor has.
cpu_has_avx512bw(cpu) == FALSE

\* init_fec chooses once what every later product is computed with.
addmul1_x86_fn(cpu) ==
  CASE cpu_has_avx512bw(cpu) -> "avx512bw"
    [] ~cpu_has_avx512bw(cpu) /\ cpu_has_avx2(cpu) -> "avx2"
    [] OTHER -> "ssse3"

addmul1(dst, src, c) ==
  CASE addmul1_x86_fn(Cpu) = "avx512bw" -> addmul1_avx512(dst, src, c)
    [] addmul1_x86_fn(Cpu) = "avx2" -> addmul1_avx2(dst, src, c)
    [] OTHER -> addmul1_ssse3(dst, src, c)

addmul(dst, src, c) == IF c = {} THEN dst ELSE addmul1(dst, src, c)

\* The elements for which test_gf complains of the tables.
test_gf ==
  [exp_log |-> {x \in Gf : gf_exp[gf_log[x]] # x},
   mul_inv |-> {x \in Gf \ {{}} : gf_mul(x, gf_inverse[x]) # One},
   mul_zero |-> {x \in Gf : gf_mul({}, x) # {} \/ gf_mul(x, {}) # {}}]

-----------------------------------------------------------------------------
(* Matrices *)

matmul(a, b, k) ==
  [row \in DOMAIN a |-> [col \in 0 .. k - 1 |->
     XorOver(0 .. k - 1, LAMBDA i : gf_mul(a[row][i], b[i][col]))]]

Identity(k) == [row \in 0 .. k - 1 |-> [col \in 0 .. k - 1 |-> IF row = col THEN One ELSE {}]]

\* Row of the points 0, 1, alpha, alpha^2, ...
Vandermonde(k, n) ==
  [row \in 0 .. n - 1 |-> [col \in 0 .. k - 1 |->
     IF row = 0 THEN IF col = 0 THEN One ELSE {}
     ELSE gf_exp[modnn[(row - 1) * col]]]]

\* The coefficients of the product of the (x - p[i]), built factor by factor: c[j] is
\* that of x^j, the leading one is implicit, and the constant term c[0] stays {}
\* because p[0] is {}.
Coefficients(p, k) ==
  LET c[i \in 0 .. k - 1] ==
        IF i = 0 THEN [j \in 0 .. k - 1 |-> IF j = k - 1 THEN p[0] ELSE {}]
        ELSE [j \in 0 .. k - 1 |->
                CASE j \in k - i .. k - 2 -> Xor(c[i - 1][j], gf_mul(p[i], c[i - 1][j + 1]))
                  [] j = k - 1 -> Xor(c[i - 1][j], p[i])
                  [] OTHER -> c[i - 1][j]]
  IN  c[k - 1]

\* Synthetic division of the product by each (x - p[i]), whose value at p[i] is t.
\* The matrix of one row is left as it is.
invert_vdm(m, k) ==
  LET p == [i \in 0 .. k - 1 |-> m[i][1]]
      c == Coefficients(p, k)
      b[xx \in Gf, i \in 0 .. k - 1] ==
        IF i = k - 1 THEN One ELSE Xor(c[i + 1], gf_mul(xx, b[xx, i + 1]))
      t[xx \in Gf, i \in 0 .. k - 1] ==
        IF i = k - 1 THEN One ELSE Xor(gf_mul(xx, t[xx, i + 1]), b[xx, i])
  IN  IF k = 1 THEN m
      ELSE [col \in 0 .. k - 1 |-> [row \in 0 .. k - 1 |->
              gf_mul(gf_inverse[t[p[row], 0]], b[p[row], col])]]

-----------------------------------------------------------------------------
(* Gauss-Jordan, in place *)

NoPivot == << -1, -1>>

\* On the diagonal if possible, otherwise the first entry that is not zero in a
\* row and a column that were no pivots yet.
Pivot(m, used, col, k) ==
  LET free == {rc \in ((0 .. k - 1) \ used) \X ((0 .. k - 1) \ used) : m[rc[1]][rc[2]] # {}}
  IN  IF col \notin used /\ m[col][col] # {} THEN <<col, col>>
      ELSE IF free = {} THEN NoPivot
      ELSE CHOOSE rc \in free : \A o \in free : rc[1] * k + rc[2] <= o[1] * k + o[2]

SwapRows(m, r1, r2) == [m EXCEPT ![r1] = m[r2], ![r2] = m[r1]]

SwapCols(m, c1, c2) == [row \in DOMAIN m |-> [m[row] EXCEPT ![c1] = m[row][c2], ![c2] = m[row][c1]]]

\* The pivot becomes its own inverse and scales its row; the row is subtracted
\* from the others, unless it is a row of the identity.
Eliminate(m, at, k) ==
  LET c      == m[at][at]
      scaled == [ix \in 0 .. k - 1 |-> gf_mul(gf_inverse[c], IF ix = at THEN One ELSE m[at][ix])]
      pivot  == IF c = One THEN m[at] ELSE scaled
      others(p) == [ix \in 0 .. k - 1 |->
                      Xor(IF ix = at THEN {} ELSE p[ix], gf_mul(p[at], pivot[ix]))]
  IN  [row \in 0 .. k - 1 |->
         IF row = at THEN pivot
         ELSE IF pivot = Identity(k)[at] THEN m[row] ELSE others(m[row])]

\* Mutant of invert_mat: the columns are not swapped back.
invert_mat_unswapped(m0, k) ==
  LET column[col \in 0 .. k, m \in [0 .. k - 1 -> [0 .. k - 1 -> Gf]], used \in SUBSET (0 .. k - 1)] ==
        LET at == Pivot(m, used, col, k)
        IN  IF col = k THEN m
            ELSE IF at = NoPivot THEN Refused
            ELSE column[col + 1, Eliminate(SwapRows(m, at[1], at[2]), at[2], k), used \cup {at[2]}]
  IN  column[0, m0, {}]

\* After the last column the columns are swapped back, the last pivot first.
invert_mat(m0, k) ==
  LET Matrix == [0 .. k - 1 -> [0 .. k - 1 -> Gf]]
      column[col \in 0 .. k, m \in Matrix, ats \in Seq((0 .. k - 1) \X (0 .. k - 1))] ==
        LET at == Pivot(m, {ats[i][2] : i \in DOMAIN ats}, col, k)
        IN  IF col = k THEN FoldRight(LAMBDA rc, n : SwapCols(n, rc[1], rc[2]), ats, m)
            ELSE IF at = NoPivot THEN Refused
            ELSE column[col + 1, Eliminate(SwapRows(m, at[1], at[2]), at[2], k), Append(ats, at)]
  IN  column[0, m0, << >>]

-----------------------------------------------------------------------------
(* The code: k packets of data, n in all *)

\* The identity over the lower rows, made systematic.
fec_new(k, n) ==
  LET v == Vandermonde(k, n)
      lower == matmul([row \in k .. n - 1 |-> v[row]], invert_vdm(v, k), k)
  IN  [k |-> k, n |-> n,
       enc_matrix |-> [row \in 0 .. n - 1 |-> IF row < k THEN Identity(k)[row] ELSE lower[row]]]

Zeros(packet) == [i \in DOMAIN packet |-> {}]

\* The combination of packets that a row of a matrix asks for.
Combine(row, packets, k) ==
  LET sum[i \in 0 .. k, acc \in Seq(Gf)] ==
        IF i = k THEN acc ELSE sum[i + 1, addmul(acc, packets[i], row[i])]
  IN  sum[0, Zeros(packets[0])]

fec_encode(code, src, index) ==
  IF index < code.k THEN src[index] ELSE Combine(code.enc_matrix[index], src, code.k)

rs_encode(code, data) ==
  [i \in 0 .. code.n - 1 |-> fec_encode(code, data, i)]

\* Data packets move to their own places; a place that is taken is an error.
shuffle(pkt0, index0, k) ==
  LET Indices == [DOMAIN index0 -> Nat]
      from[i \in 0 .. k, pkt \in [DOMAIN pkt0 -> Seq(Gf)], index \in Indices] ==
        LET c == index[i]
        IN  IF i = k THEN [pkt |-> pkt, index |-> index]
            ELSE IF c >= k \/ c = i THEN from[i + 1, pkt, index]
            ELSE IF index[c] = c THEN Refused
            ELSE from[i, [pkt EXCEPT ![i] = pkt[c], ![c] = pkt[i]],
                         [index EXCEPT ![i] = index[c], ![c] = c]]
  IN  from[0, pkt0, index0]

build_decode_matrix(code, index) ==
  LET k == code.k
  IN  IF \E i \in 0 .. k - 1 : index[i] >= code.n THEN Refused
      ELSE invert_mat([i \in 0 .. k - 1 |-> IF index[i] < k THEN Identity(k)[i]
                                            ELSE code.enc_matrix[index[i]]], k)

\* Mutant of fec_decode: the matrix is built before the packets are moved.
fec_decode_unplaced(code, pkt, index) ==
  LET placed == shuffle(pkt, index, code.k)
      matrix == build_decode_matrix(code, index)
  IN  IF placed = Refused THEN Refused
      ELSE IF matrix = Refused THEN Refused
      ELSE [row \in DOMAIN pkt |->
              IF row < code.k /\ placed.index[row] >= code.k
              THEN Combine(matrix[row], placed.pkt, code.k) ELSE placed.pkt[row]]

\* Only the packets that are missing are computed.
fec_decode(code, pkt, index) ==
  LET placed == shuffle(pkt, index, code.k)
      matrix == build_decode_matrix(code, placed.index)
  IN  IF placed = Refused THEN Refused
      ELSE IF matrix = Refused THEN Refused
      ELSE [row \in DOMAIN pkt |->
              IF row < code.k /\ placed.index[row] >= code.k
              THEN Combine(matrix[row], placed.pkt, code.k) ELSE placed.pkt[row]]

Missing == << >>

\* The packets that arrived, moved to the front, with their indices.
rs_decode(code, data) ==
  LET here  == SetToSortSeq({i \in 0 .. code.n - 1 : data[i] # Missing}, <)
      front == [i \in 0 .. code.n - 1 |-> IF i < Len(here) THEN data[here[i + 1]] ELSE Missing]
  IN  IF Len(here) < code.k THEN Refused
      ELSE fec_decode(code, front, [i \in 0 .. Len(here) - 1 |-> here[i + 1]])

\* A code is made when it is first asked for, and kept.
get_code(k, n) == fec_new(k, n)

rs_encode2(k, n, data) == rs_encode(get_code(k, n), data)

rs_decode2(k, n, data) == rs_decode(get_code(k, n), data)
===============================================================================
