--------------------------------- MODULE Bits ---------------------------------
(***************************************************************************)
(* Machine words as the sets of their one bits: 0 is the least significant *)
(* bit, exclusive or is the symmetric difference, and a byte is a subset   *)
(* of 0 .. 7.                                                              *)
(***************************************************************************)
EXTENDS Integers, Sequences, Folds

CONSTANT Refused    \* the answer of a function that returns an error

Byte == SUBSET (0 .. 7)

Word == SUBSET (0 .. 31)

Xor(a, b) == (a \ b) \cup (b \ a)

ShiftRight(w, n) == {b - n : b \in {c \in w : c >= n}}

\* Bits that leave a word of the given width are lost.
ShiftLeft(w, n, width) == {b + n : b \in {c \in w : c + n < width}}

\* The k-th byte, counted from the least significant.
ByteOf(w, k) == {b - 8 * k : b \in {c \in w : c \div 8 = k}}

\* The word whose k-th byte is bytes[k + 1].
WordOf(bytes) == UNION {{b + 8 * (k - 1) : b \in bytes[k]} : k \in DOMAIN bytes}

XorOver(S, f(_)) == MapThenFoldSet(Xor, {}, f, LAMBDA T : CHOOSE x \in T : TRUE, S)

\* The sum of a sequence of words, by halves: sum[<<from, to>>] is that of the words
\* after number `from`, up to number `to`.
XorAll(words) ==
  LET sum[part \in (0 .. Len(words)) \X (0 .. Len(words))] ==
        LET from == part[1]
            to   == part[2]
            mid  == (from + to) \div 2
        IN  IF to = from THEN {}
            ELSE IF to = from + 1 THEN words[to]
            ELSE Xor(sum[<<from, mid>>], sum[<<mid, to>>])
  IN  sum[<<0, Len(words)>>]

XorBytes(a, b) == [i \in DOMAIN a |-> Xor(a[i], b[i])]

\* The bits of a number below 2^31.
BitsOf(n) == {b \in 0 .. 30 : (n \div 2 ^ b) % 2 = 1}
===============================================================================
