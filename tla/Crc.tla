---------------------------------- MODULE Crc ----------------------------------
(***************************************************************************)
(* The checksum of a reflected 32-bit polynomial, in the forms this        *)
(* repository has it: crc32c.h, which protects the datagrams, and the      *)
(* library crc32/Crc32.cpp.                                                *)
(***************************************************************************)
EXTENDS Bits

CONSTANT Polynomial    \* the set of its one bits

Ones == 0 .. 31

Not(w) == Ones \ w

\* One bit: crc = (crc >> 1) ^ (-(crc & 1) & Polynomial).
Step(crc) ==
  LET shifted == ShiftRight(crc, 1)
  IN  IF 0 \in crc THEN Xor(shifted, Polynomial) ELSE shifted

Steps(crc, n) ==
  LET step[k \in 0 .. n] == IF k = 0 THEN crc ELSE Step(step[k - 1])
  IN  step[n]

\* The register after each byte; `update` is what one byte does to it.
OverBytes(update, crc, data) ==
  LET register[i \in 0 .. Len(data)] ==
        IF i = 0 THEN crc ELSE update[register[i - 1]][data[i]]
  IN  register[Len(data)]

\* One byte, bit by bit.
BitwiseByte == [crc \in Word |-> [byte \in Byte |-> Steps(Xor(crc, byte), 8)]]

\* The register is inverted before and after.
crc32_bitwise(data, previous) ==
  Not(OverBytes(BitwiseByte, Not(previous), data))

-----------------------------------------------------------------------------
(* The lookup tables *)

Lookup0 == [byte \in Byte |-> Steps(byte, 8)]

NextSlice(w) == Xor(ShiftRight(w, 8), Lookup0[ByteOf(w, 0)])

\* The slices in `to`, each of them one zero byte further than the one before.  The
\* source holds their numbers; this recurrence, in its comment, gives the same.
Extended(slices, to) ==
  LET slice[s \in DOMAIN slices \cup to] ==
        IF s \in DOMAIN slices THEN slices[s]
        ELSE [byte \in Byte |-> NextSlice(slice[s - 1][byte])]
  IN  slice

\* Each way of slicing compiles in the slices it needs.
SlicingBy4 == Extended([s \in {0} |-> Lookup0], 1 .. 3)

SlicingBy8 == Extended(SlicingBy4, 4 .. 7)

SlicingBy16 == Extended(SlicingBy8, 8 .. 15)

MaxSlice(bytes) == IF bytes <= 4 THEN 4 ELSE IF bytes <= 8 THEN 8 ELSE 16

Lookup(bytes) ==
  IF MaxSlice(bytes) = 4 THEN SlicingBy4
  ELSE IF MaxSlice(bytes) = 8 THEN SlicingBy8 ELSE SlicingBy16

\* The half-byte table holds every sixteenth entry of slice 0.
HalfByteTable == [half \in SUBSET (0 .. 3) |-> Lookup0[{b + 4 : b \in half}]]

-----------------------------------------------------------------------------
(* Byte by byte *)

Low(w) == w \cap (0 .. 3)

HalfByte == [crc \in Word |-> [byte \in Byte |->
  LET first == Xor(HalfByteTable[Low(Xor(crc, byte))], ShiftRight(crc, 4))
  IN  Xor(HalfByteTable[Low(Xor(first, ShiftRight(byte, 4)))], ShiftRight(first, 4))]]

crc32_halfbyte(data, previous) ==
  Not(OverBytes(HalfByte, Not(previous), data))

TableByte == [crc \in Word |-> [byte \in Byte |->
  Xor(ShiftRight(crc, 8), Lookup0[Xor(ByteOf(crc, 0), byte)])]]

crc32_1byte(data, previous) ==
  Not(OverBytes(TableByte, Not(previous), data))

\* A product with a sum of powers of two whose terms do not overlap.
Times(w, shifts) == UNION {ShiftLeft(w, s, 32) : s \in shifts}

Tableless == [crc \in Word |-> [byte \in Byte |->
  LET s   == Xor(ByteOf(crc, 0), byte)
      low == Xor(s, {b \in ShiftLeft(s, 6, 14) : b < 8})
      a   == Times(low, {23, 14, 2})
  IN  XorAll(<<ShiftRight(crc, 8), Times(low, {24, 16, 8}), a, ShiftRight(a, 1),
               Times(low, {20, 12}), ShiftLeft(low, 19, 32), ShiftLeft(low, 17, 32),
               ShiftRight(low, 2)>>)]]

\* Written for the polynomial of zlib.
crc32_1byte_tableless(data, previous) ==
  Not(OverBytes(Tableless, Not(previous), data))

\* What bit b of the low byte adds: the polynomial, shifted once more for the
\* bits that come back into the low byte.
BitTerm(b) ==
  IF b <= 1
  THEN Xor(ShiftRight(Polynomial, 7 - b),
           IF b = 0 THEN ShiftRight(Polynomial, 1) ELSE Polynomial)
  ELSE ShiftRight(Polynomial, 7 - b)

Tableless2 == [crc \in Word |-> [byte \in Byte |->
  LET c == Xor(crc, byte)
  IN  Xor(ShiftRight(c, 8), XorAll([i \in 1 .. 8 |-> IF i - 1 \in c THEN BitTerm(i - 1) ELSE {}]))]]

crc32_1byte_tableless2(data, previous) ==
  Not(OverBytes(Tableless2, Not(previous), data))

-----------------------------------------------------------------------------
(* Several bytes at once *)

\* Mutant of SlicedBlock: the slices in the order of the bytes.
SlicedBlockReversed(crc, block) ==
  LET n == Len(block)
      byte(i) == IF i <= 4 THEN Xor(block[i], ByteOf(crc, i - 1)) ELSE block[i]
  IN  XorAll([i \in 1 .. n |-> Lookup(n)[i - 1][byte(i)]])

\* The register is added to the first four bytes; byte i of n goes through
\* slice n - i.
SlicedBlock(crc, block) ==
  LET n == Len(block)
      byte(i) == IF i <= 4 THEN Xor(block[i], ByteOf(crc, i - 1)) ELSE block[i]
  IN  XorAll([i \in 1 .. n |-> Lookup(n)[n - i][byte(i)]])

\* The register after each of the first `count` blocks of n bytes.
OverBlocks(n, count, update, crc, data) ==
  LET register[k \in 0 .. count] ==
        IF k = 0 THEN crc ELSE update[register[k - 1]][SubSeq(data, n * (k - 1) + 1, n * k)]
  IN  register[count]

Behind(n, count, data) == SubSeq(data, n * count + 1, Len(data))

\* Blocks of n bytes, taken while `least` bytes are left and `once` at a time;
\* what is left goes byte by byte.
Sliced(n, once, least, data, previous) ==
  LET rounds == IF Len(data) < least THEN 0 ELSE (Len(data) - least) \div once + 1
      blocks == rounds * (once \div n)
      block  == [crc \in Word |-> [bytes \in Seq(Byte) |-> SlicedBlock(crc, bytes)]]
      sliced == OverBlocks(n, blocks, block, Not(previous), data)
  IN  Not(OverBytes(TableByte, sliced, Behind(n, blocks, data)))

crc32_4bytes(data, previous) == Sliced(4, 4, 4, data, previous)

crc32_8bytes(data, previous) == Sliced(8, 8, 8, data, previous)

crc32_4x8bytes(data, previous) == Sliced(8, 32, 32, data, previous)

crc32_16bytes(data, previous) == Sliced(16, 64, 64, data, previous)

crc32_16bytes_prefetch(data, previous, ahead) ==
  Sliced(16, 64, 64 + ahead, data, previous)

crc32_fast(data, previous) == crc32_16bytes(data, previous)

crc32c_sw(data, previous) == Sliced(8, 8, 8, data, previous)

\* The crc32 instructions take a register and 8, 4 or 1 bytes.
Instruction ==
  [crc \in Word |-> [bytes \in Seq(Byte) |-> OverBytes(BitwiseByte, crc, bytes)]]

\* While width bytes are left.
InstructionLoop(width, s) ==
  LET count == Len(s.left) \div width
  IN  [crc  |-> OverBlocks(width, count, Instruction, s.crc, s.left),
       left |-> Behind(width, count, s.left)]

crc32c_hw(data, previous) ==
  LET eights == InstructionLoop(8, [crc |-> Not(previous), left |-> data])
      fours  == InstructionLoop(4, eights)
  IN  Not(InstructionLoop(1, fours).crc)

\* Bit 20 of ecx of cpuid's leaf 1: the processor has the instructions.
crc32c_has_hw(ecx) == 20 \in ecx

\* The first call resolves which one all calls use.
crc32c(ecx, data, previous) ==
  IF crc32c_has_hw(ecx) THEN crc32c_hw(data, previous) ELSE crc32c_sw(data, previous)

-----------------------------------------------------------------------------
(* crc32_combine *)

\* A linear map on words is the sequence of the images of the 32 bits.
Apply(map, w) == XorAll([i \in 1 .. 32 |-> IF i - 1 \in w THEN map[i - 1] ELSE {}])

Square(map) == [b \in Ones |-> Apply(map, map[b])]

OneZeroBit == [b \in Ones |-> IF b = 0 THEN Polynomial ELSE {b - 1}]

FourZeroBits == Square(Square(OneZeroBit))

\* The map is that of 4 zero bits, then of 8, 16, ...: bit by bit of the length it is
\* squared, and applied if the bit is set.
CombineRound(s) ==
  LET squared == Square(s.map)
  IN  [left |-> s.left \div 2, map |-> squared,
       crc  |-> IF s.left % 2 = 1 THEN Apply(squared, s.crc) ELSE s.crc]

\* Until no bit of the length is left.
crc32_combine(crcA, crcB, lengthB) ==
  LET left[k \in 0 .. lengthB] == IF k = 0 THEN lengthB ELSE left[k - 1] \div 2
      rounds == CHOOSE k \in 0 .. lengthB : left[k] = 0
      round[k \in 0 .. rounds] ==
        IF k = 0 THEN [left |-> lengthB, map |-> FourZeroBits, crc |-> crcA]
        ELSE CombineRound(round[k - 1])
  IN  IF lengthB = 0 THEN crcA ELSE Xor(round[rounds].crc, crcB)
================================================================================
