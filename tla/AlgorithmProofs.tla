---------------------------- MODULE AlgorithmProofs ----------------------------
(***************************************************************************)
(* Proofs about the two algorithms that have a parameter: the checksums,   *)
(* for any polynomial, and libev's heap of timers, with two children per   *)
(* entry or four.  Nothing connects the two; what repeats an operation is  *)
(* reasoned about in the same way.                                         *)
(***************************************************************************)
EXTENDS Crc, TimerHeap, TLAPS, NaturalsInduction, WellFoundedInduction

-----------------------------------------------------------------------------
(* Repetitions *)

\* A set of natural numbers has a least element.
LEMMA LeastElement ==
  ASSUME NEW S, S \subseteq Nat, S # {}
  PROVE  \E m \in S : \A n \in S : m <= n
<1>1. IsWellFoundedOn(OpToRel(<, Nat), Nat)
  BY NatLessThanWellFounded, Zenon
<1>2. PICK m \in S : \A n \in S : ~ (<<n, m>> \in OpToRel(<, Nat))
  BY <1>1, WFMin, Zenon
<1>3. ASSUME NEW n \in S
      PROVE  m <= n
  <2>1. n \in Nat /\ m \in Nat
    OBVIOUS
  <2>2. ~ (n < m)
    BY <1>2, <2>1, Zenon DEF OpToRel
  <2>3. QED
    BY <2>1, <2>2
<1>4. QED
  BY <1>3

\* What holds at 0 and from each number to the next holds up to n.
LEMMA Climb ==
  ASSUME NEW n \in Nat, NEW S, 0 \in S, \A i \in 1 .. n : i - 1 \in S => i \in S
  PROVE  n \in S /\ \A i \in 0 .. n : i \in S
<1> DEFINE missing == {i \in 0 .. n : i \notin S}
<1>1. ASSUME missing # {}
      PROVE  FALSE
  <2>1. missing \subseteq Nat
    OBVIOUS
  <2>2. PICK m \in missing : \A i \in missing : m <= i
    <3> HIDE DEF missing
    <3> QED  BY <1>1, <2>1, LeastElement
  <2>3. m \in 0 .. n /\ m \notin S /\ m # 0
    BY <2>2
  <2>4. m \in 1 .. n /\ m - 1 \in 0 .. n /\ ~ (m <= m - 1)
    BY <2>3
  <2>5. m - 1 \in S
    BY <2>2, <2>4
  <2>6. QED
    BY <2>3, <2>4, <2>5
<1>2. n \in 0 .. n
  OBVIOUS
<1> QED  BY <1>1, <1>2

\* f[i] is what F makes of q in i rounds.
Rounds(f, n, Q, q, F) ==
  /\ f \in [0 .. n -> Q] /\ f[0] = q
  /\ \A i \in 1 .. n : f[i] = F[i][f[i - 1]]

\* A function defined by rounds exists and is what each round makes of the one before.
LEMMA Iteration ==
  ASSUME NEW n \in Nat, NEW Q, NEW q \in Q, NEW F \in [1 .. n -> [Q -> Q]]
  PROVE  \E f : Rounds(f, n, Q, q, F)
<1> DEFINE Solves(f, m) == Rounds(f, m, Q, q, F)
           S == {m \in 0 .. n : \E f : Solves(f, m)}
<1>1. 0 \in S
  <2>1. Solves([i \in 0 .. 0 |-> q], 0)
    BY DEF Rounds
  <2>2. 0 \in 0 .. n
    OBVIOUS
  <2> HIDE DEF Solves
  <2>3. QED
    BY <2>1, <2>2
<1>2. ASSUME NEW m \in 1 .. n, m - 1 \in S
      PROVE  m \in S
  <2>1. PICK f : Solves(f, m - 1)
    BY <1>2
  <2> DEFINE x == F[m][f[m - 1]]
             g == [i \in 0 .. m |-> IF i = m THEN x ELSE f[i]]
  <2>2. f \in [0 .. m - 1 -> Q] /\ f[0] = q /\ f[m - 1] \in Q /\ x \in Q
    BY <2>1 DEF Rounds
  <2> HIDE DEF x
  <2>3. g \in [0 .. m -> Q] /\ g[0] = q
    BY <2>2
  <2>4. ASSUME NEW i \in 1 .. m
        PROVE  g[i] = F[i][g[i - 1]]
    <3>1. i - 1 \in 0 .. m /\ i - 1 # m /\ g[i - 1] = f[i - 1]
      OBVIOUS
    <3>2. CASE i = m
      BY <3>1, <3>2 DEF x
    <3>3. CASE i # m
      <4>1. i \in 1 .. m - 1
        BY <3>3
      <4>2. f[i] = F[i][f[i - 1]]
        BY <2>1, <4>1 DEF Rounds
      <4>3. g[i] = f[i]
        BY <3>3
      <4>4. QED
        BY <3>1, <4>2, <4>3
    <3>4. QED
      BY <3>2, <3>3
  <2> HIDE DEF g
  <2>5. Solves(g, m) /\ m \in 0 .. n
    BY <2>3, <2>4 DEF Rounds
  <2> HIDE DEF Solves
  <2>6. QED
    BY <2>5
<1>3. n \in S
  <2> HIDE DEF S
  <2> QED  BY <1>1, <1>2, Climb
<1> QED  BY <1>3

\* The states of a loop: f[k] is what k rounds of G make of q.
Runs(f, n, Q, q, G) ==
  f \in [0 .. n -> Q] /\ f[0] = q /\ \A k \in 1 .. n : f[k] = G[f[k - 1]]

LEMMA LoopExists ==
  ASSUME NEW n \in Nat, NEW Q, NEW q \in Q, NEW G \in [Q -> Q]
  PROVE  \E f : Runs(f, n, Q, q, G)
<1> DEFINE F == [i \in 1 .. n |-> G]
<1>1. F \in [1 .. n -> [Q -> Q]]
  OBVIOUS
<1> HIDE DEF F
<1>2. PICK f : Rounds(f, n, Q, q, F)
  BY <1>1, Iteration
<1>3. Runs(f, n, Q, q, G)
  BY <1>2 DEF Rounds, F, Runs
<1> QED  BY <1>3

-----------------------------------------------------------------------------
(* Sums of words *)

LEMMA FunctionIsSeq ==
  ASSUME NEW n \in Nat, NEW Q, NEW f, f \in [1 .. n -> Q]
  PROVE  f \in Seq(Q) /\ Len(f) = n
OBVIOUS

LEMMA XorIsWord == \A a, b \in Word : Xor(a, b) \in Word
  BY DEF Xor, Word

LEMMA XorAlgebra ==
  ASSUME NEW a, NEW b, NEW c
  PROVE  /\ Xor(a, b) = Xor(b, a) /\ Xor(Xor(a, b), c) = Xor(a, Xor(b, c))
         /\ Xor(a, {}) = a /\ Xor(a, a) = {} /\ Xor({}, a) = a
BY DEF Xor

\* The sums of the first words.
LEMMA XorAllUnfolds ==
  ASSUME NEW words \in Seq(Word)
  PROVE  \E sum \in [0 .. Len(words) -> Word] :
           /\ sum[0] = {} /\ XorAll(words) = sum[Len(words)]
           /\ \A k \in 1 .. Len(words) : sum[k] = Xor(sum[k - 1], words[k])
<1> DEFINE n == Len(words)
           F == [k \in 1 .. n |-> [w \in Word |-> Xor(w, words[k])]]
<1>1. n \in Nat /\ {} \in Word /\ \A k \in 1 .. n : words[k] \in Word
  <2>1. {} \in Word
    BY DEF Word
  <2>2. QED
    BY <2>1
<1> HIDE DEF n
<1> n \in Nat
  BY <1>1
<1>2. F \in [1 .. n -> [Word -> Word]]
  BY <1>1, XorIsWord
<1> HIDE DEF F
<1>3. PICK s : Rounds(s, n, Word, {}, F)
  BY <1>1, <1>2, Iteration
<1>4. s \in [0 .. n -> Word] /\ s[0] = {} /\ \A k \in 1 .. n : s[k] = F[k][s[k - 1]]
  BY <1>3 DEF Rounds
<1>5. ASSUME NEW k \in 1 .. n
      PROVE  s[k] = Xor(s[k - 1], words[k])
  <2>1. k - 1 \in 0 .. n
    BY <1>1
  <2>2. s[k - 1] \in Word
    BY <1>4, <2>1
  <2>3. QED
    BY <1>4, <2>2 DEF F
<1> DEFINE Cell(g, from, to) ==
             LET mid == (from + to) \div 2
             IN  IF to = from THEN {}
                 ELSE IF to = from + 1 THEN words[to]
                 ELSE Xor(g[<<from, mid>>], g[<<mid, to>>])
           Half(g) == [part \in (0 .. n) \X (0 .. n) |-> Cell(g, part[1], part[2])]
           h == [part \in (0 .. n) \X (0 .. n) |-> Xor(s[part[1]], s[part[2]])]
<1>8. h = Half(h)
  <2>1. ASSUME NEW from \in 0 .. n, NEW to \in 0 .. n
        PROVE  Xor(s[from], s[to]) = Cell(h, from, to)
    <3> DEFINE mid == (from + to) \div 2
    <3>1. mid \in 0 .. n
      BY <1>1
    <3>2. h[<<from, mid>>] = Xor(s[from], s[mid]) /\ h[<<mid, to>>] = Xor(s[mid], s[to])
      <4> HIDE DEF mid
      <4> QED  BY <3>1
    <3> HIDE DEF mid, h
    <3>3. CASE to = from
      BY <3>3, XorAlgebra
    <3>4. CASE to = from + 1
      <4>1. to \in 1 .. n /\ to - 1 = from
        BY <3>4
      <4>2. s[to] = Xor(s[from], words[to])
        BY <1>5, <4>1
      <4>3. Xor(s[from], Xor(s[from], words[to])) = words[to]
        BY DEF Xor
      <4>4. to # from
        BY <4>1
      <4>5. QED
        BY <3>4, <4>2, <4>3, <4>4
    <3>5. CASE to # from /\ to # from + 1
      <4>1. Xor(Xor(s[from], s[mid]), Xor(s[mid], s[to])) = Xor(s[from], s[to])
        BY DEF Xor
      <4>2. QED
        BY <3>2, <3>5, <4>1 DEF mid
    <3>6. QED
      BY <3>3, <3>4, <3>5
  <2> HIDE DEF Cell
  <2>2. \A part \in (0 .. n) \X (0 .. n) : Xor(s[part[1]], s[part[2]]) = Cell(h, part[1], part[2])
    <3> HIDE DEF h
    <3> QED  BY <2>1
  <2> DEFINE c == [part \in (0 .. n) \X (0 .. n) |-> Cell(h, part[1], part[2])]
  <2>3. h = c
    <3>1. \A part \in (0 .. n) \X (0 .. n) : h[part] = c[part]
      BY <2>2
    <3>2. QED
      BY <3>1
  <2>4. QED
    BY <2>3
<1> DEFINE t == CHOOSE g : g = Half(g)
<1>9. t = Half(t)
  <2> HIDE DEF Half
  <2> QED  BY <1>8
<1>10. XorAll(words) = t[<<0, n>>]
  BY DEF XorAll, n
<1> HIDE DEF t, h
<1> DEFINE Near(m) == \A from \in 0 .. n, to \in 0 .. n :
             from <= to /\ to - from <= m => t[<<from, to>>] = Xor(s[from], s[to])
           S == {m \in 0 .. n : Near(m)}
<1>11. ASSUME NEW from \in 0 .. n, NEW to \in 0 .. n
       PROVE  /\ to = from => t[<<from, to>>] = {}
              /\ to = from + 1 => t[<<from, to>>] = words[to]
              /\ to # from /\ to # from + 1
                   => t[<<from, to>>] = Xor(t[<<from, (from + to) \div 2>>], t[<<(from + to) \div 2, to>>])
  <2>1. t[<<from, to>>] = Half(t)[<<from, to>>]
    <3> HIDE DEF Half
    <3> QED  BY <1>9
  <2>2. Half(t)[<<from, to>>] = Cell(t, from, to)
    <3> HIDE DEF Cell
    <3>1. <<from, to>> \in (0 .. n) \X (0 .. n)
      OBVIOUS
    <3>2. QED
      BY <3>1
  <2> HIDE DEF Half
  <2>3. from # from + 1
    BY <1>1
  <2>4. QED
    BY <2>1, <2>2, <2>3
<1> HIDE DEF Half
<1>12. 0 \in S
  <2>1. ASSUME NEW from \in 0 .. n, NEW to \in 0 .. n, from <= to, to - from <= 0
        PROVE  t[<<from, to>>] = Xor(s[from], s[to])
    <3>1. to = from
      BY <1>1, <2>1
    <3>2. QED
      BY <1>11, <3>1, XorAlgebra
  <2>2. QED
    BY <1>1, <2>1
<1>13. ASSUME NEW m \in 1 .. n, m - 1 \in S
       PROVE  m \in S
  <2>1. ASSUME NEW from \in 0 .. n, NEW to \in 0 .. n, from <= to, to - from <= m
        PROVE  t[<<from, to>>] = Xor(s[from], s[to])
    <3>1. CASE to = from
      BY <1>11, <3>1, XorAlgebra
    <3>2. CASE to = from + 1
      <4>1. to \in 1 .. n /\ to - 1 = from
        BY <3>2
      <4>2. s[to] = Xor(s[from], words[to])
        BY <1>5, <4>1
      <4>3. Xor(s[from], Xor(s[from], words[to])) = words[to]
        BY DEF Xor
      <4>4. QED
        BY <1>11, <3>2, <4>2, <4>3
    <3>3. CASE to # from /\ to # from + 1
      <4> DEFINE mid == (from + to) \div 2
      <4>1. /\ mid \in 0 .. n /\ from <= mid /\ mid <= to
            /\ mid - from <= m - 1 /\ to - mid <= m - 1
        BY <2>1, <3>3
      <4>2. t[<<from, to>>] = Xor(t[<<from, mid>>], t[<<mid, to>>])
        BY <1>11, <3>3
      <4> HIDE DEF mid
      <4>3. t[<<from, mid>>] = Xor(s[from], s[mid]) /\ t[<<mid, to>>] = Xor(s[mid], s[to])
        BY <1>13, <4>1
      <4>4. Xor(Xor(s[from], s[mid]), Xor(s[mid], s[to])) = Xor(s[from], s[to])
        BY DEF Xor
      <4>5. QED
        BY <4>2, <4>3, <4>4
    <3>4. QED
      BY <3>1, <3>2, <3>3
  <2>2. m \in 0 .. n
    BY <1>1
  <2>3. QED
    BY <2>1, <2>2
<1>14. n \in S
  <2> HIDE DEF S
  <2> QED  BY <1>1, <1>12, <1>13, Climb
<1>15. t[<<0, n>>] = s[n]
  <2>1. 0 \in 0 .. n /\ n \in 0 .. n /\ 0 <= n /\ n - 0 <= n
    BY <1>1
  <2>2. t[<<0, n>>] = Xor(s[0], s[n])
    BY <1>14, <2>1
  <2>3. QED
    BY <1>4, <2>2, XorAlgebra
<1>16. /\ s[0] = {} /\ XorAll(words) = s[n]
       /\ \A k \in 1 .. n : s[k] = Xor(s[k - 1], words[k])
  BY <1>4, <1>5, <1>10, <1>15
<1> QED  BY <1>4, <1>16 DEF n

-----------------------------------------------------------------------------
(* Shifts *)

LEMMA InShiftRight ==
  ASSUME NEW w \in Word, NEW n \in Nat, NEW x
  PROVE  x \in ShiftRight(w, n) <=> x \in Nat /\ x + n \in w
BY DEF ShiftRight, Word

LEMMA ShiftRightIsWord ==
  ASSUME NEW w \in Word, NEW n \in Nat
  PROVE  ShiftRight(w, n) \in Word
BY DEF ShiftRight, Word

LEMMA ShiftsAdd ==
  ASSUME NEW w \in Word, NEW m \in Nat, NEW n \in Nat
  PROVE  ShiftRight(ShiftRight(w, m), n) = ShiftRight(w, m + n)
<1>1. ShiftRight(w, m) \in Word
  BY ShiftRightIsWord
<1>2. ASSUME NEW x
      PROVE  x \in ShiftRight(ShiftRight(w, m), n) <=> x \in ShiftRight(w, m + n)
  <2>1. x \in ShiftRight(ShiftRight(w, m), n) <=> x \in Nat /\ x + n \in ShiftRight(w, m)
    BY <1>1, InShiftRight
  <2>2. x + n \in ShiftRight(w, m) <=> x + n \in Nat /\ (x + n) + m \in w
    BY InShiftRight
  <2>3. x \in ShiftRight(w, m + n) <=> x \in Nat /\ x + (m + n) \in w
    BY InShiftRight
  <2>4. x \in Nat => (x + n) + m = x + (m + n) /\ x + n \in Nat
    OBVIOUS
  <2>5. QED
    BY <2>1, <2>2, <2>3, <2>4
<1>3. QED
  BY <1>2

LEMMA ShiftIsLinear ==
  ASSUME NEW v \in Word, NEW w \in Word, NEW n \in Nat
  PROVE  ShiftRight(Xor(v, w), n) = Xor(ShiftRight(v, n), ShiftRight(w, n))
<1>1. Xor(v, w) \in Word
  BY XorIsWord
<1>2. ASSUME NEW x
      PROVE  x \in ShiftRight(Xor(v, w), n) <=> x \in Xor(ShiftRight(v, n), ShiftRight(w, n))
  <2>1. x \in ShiftRight(Xor(v, w), n) <=> x \in Nat /\ x + n \in Xor(v, w)
    BY <1>1, InShiftRight
  <2>2. x \in ShiftRight(v, n) <=> x \in Nat /\ x + n \in v
    BY InShiftRight
  <2>3. x \in ShiftRight(w, n) <=> x \in Nat /\ x + n \in w
    BY InShiftRight
  <2>4. QED
    BY <2>1, <2>2, <2>3 DEF Xor
<1>3. QED
  BY <1>2

LEMMA NoShift ==
  ASSUME NEW w \in Word
  PROVE  ShiftRight(w, 0) = w
<1>1. ASSUME NEW x
      PROVE  x \in ShiftRight(w, 0) <=> x \in w
  <2>1. x \in ShiftRight(w, 0) <=> x \in Nat /\ x + 0 \in w
    BY InShiftRight, 0 \in Nat
  <2>2. x \in w => x \in Nat
    BY DEF Word
  <2>3. x \in Nat => x + 0 = x
    OBVIOUS
  <2>4. QED
    BY <2>1, <2>2, <2>3
<1>2. QED
  BY <1>1

-----------------------------------------------------------------------------
(* One bit *)

\* One step is linear.
LEMMA StepIsLinear ==
  ASSUME Polynomial \in Word, NEW v \in Word, NEW w \in Word
  PROVE  Step(v) \in Word /\ Step(Xor(v, w)) = Xor(Step(v), Step(w))
<1>1. ShiftRight(Xor(v, w), 1) = Xor(ShiftRight(v, 1), ShiftRight(w, 1))
  BY ShiftIsLinear
<1>2. ShiftRight(v, 1) \in Word
  BY ShiftRightIsWord
<1>3. Step(v) \in Word
  BY <1>2, XorIsWord DEF Step
<1>4. 0 \in Xor(v, w) <=> ~ (0 \in v <=> 0 \in w)
  BY DEF Xor
<1> DEFINE p == Polynomial  sv == ShiftRight(v, 1)  sw == ShiftRight(w, 1)
<1>5. /\ Step(v) = IF 0 \in v THEN Xor(sv, p) ELSE sv
      /\ Step(w) = IF 0 \in w THEN Xor(sw, p) ELSE sw
      /\ Step(Xor(v, w)) = IF 0 \in Xor(v, w) THEN Xor(Xor(sv, sw), p) ELSE Xor(sv, sw)
  BY <1>1 DEF Step
<1> HIDE DEF p, sv, sw
<1>6. Step(Xor(v, w)) = Xor(Step(v), Step(w))
  <2>1. CASE 0 \in v /\ 0 \in w
    <3>1. Step(Xor(v, w)) = Xor(sv, sw) /\ Step(v) = Xor(sv, p) /\ Step(w) = Xor(sw, p)
      BY <1>4, <1>5, <2>1
    <3>2. Xor(Xor(sv, p), Xor(sw, p)) = Xor(sv, sw)
      BY DEF Xor
    <3>3. QED
      BY <3>1, <3>2
  <2>2. CASE 0 \in v /\ 0 \notin w
    <3>1. /\ Step(Xor(v, w)) = Xor(Xor(sv, sw), p) /\ Step(v) = Xor(sv, p)
          /\ Step(w) = sw
      BY <1>4, <1>5, <2>2
    <3>2. Xor(Xor(sv, p), sw) = Xor(Xor(sv, sw), p)
      BY DEF Xor
    <3>3. QED
      BY <3>1, <3>2
  <2>3. CASE 0 \notin v /\ 0 \in w
    <3>1. /\ Step(Xor(v, w)) = Xor(Xor(sv, sw), p) /\ Step(v) = sv
          /\ Step(w) = Xor(sw, p)
      BY <1>4, <1>5, <2>3
    <3>2. Xor(sv, Xor(sw, p)) = Xor(Xor(sv, sw), p)
      BY DEF Xor
    <3>3. QED
      BY <3>1, <3>2
  <2>4. CASE 0 \notin v /\ 0 \notin w
    BY <1>4, <1>5, <2>4
  <2>5. QED
    BY <2>1, <2>2, <2>3, <2>4
<1>7. QED
  BY <1>3, <1>6

-----------------------------------------------------------------------------
(* Several bits *)

\* The words the steps pass through.
LEMMA StepsUnfold ==
  ASSUME Polynomial \in Word, NEW w \in Word, NEW n \in Nat
  PROVE  \E f \in [0 .. n -> Word] :
           f[0] = w /\ (\A k \in 1 .. n : f[k] = Step(f[k - 1])) /\ Steps(w, n) = f[n]
<1> DEFINE G == [v \in Word |-> Step(v)]
           Body(f) == [k \in 0 .. n |-> IF k = 0 THEN w ELSE Step(f[k - 1])]
<1>1. G \in [Word -> Word]
  BY StepIsLinear
<1>2. PICK f : Runs(f, n, Word, w, G)
  <2> HIDE DEF G
  <2> QED  BY <1>1, LoopExists
<1>3. f \in [0 .. n -> Word] /\ f[0] = w
  BY <1>2 DEF Runs
<1>4. \A k \in 1 .. n : f[k] = Step(f[k - 1])
  <2> TAKE k \in 1 .. n
  <2>1. k - 1 \in 0 .. n
    OBVIOUS
  <2>2. f[k] = G[f[k - 1]] /\ f[k - 1] \in Word
    <3> HIDE DEF G, Body
    <3> QED  BY <1>2, <2>1 DEF Runs
  <2>3. QED
    BY <2>2
<1>5. f = Body(f)
  <2>1. \A k \in 0 .. n : k = 0 \/ k \in 1 .. n
    OBVIOUS
  <2>2. \A k \in 0 .. n : f[k] = IF k = 0 THEN w ELSE Step(f[k - 1])
    BY <1>3, <1>4, <2>1
  <2>3. QED
    BY <1>3, <2>2
<1> DEFINE t == CHOOSE g : g = Body(g)
<1>6. t = Body(t)
  <2> HIDE DEF Body
  <2> QED  BY <1>5
<1>7. Steps(w, n) = t[n]
  BY DEF Steps
<1> HIDE DEF t
<1>8. t[0] = w /\ \A k \in 1 .. n : t[k] = Step(t[k - 1])
  <2>1. 0 \in 0 .. n /\ \A k \in 1 .. n : k \in 0 .. n /\ k # 0
    OBVIOUS
  <2>2. QED
    BY <1>6, <2>1
<1> DEFINE S == {k \in 0 .. n : t[k] = f[k]}
<1>9. n \in S
  <2>1. 0 \in S
    BY <1>3, <1>8
  <2>2. ASSUME NEW k \in 1 .. n, k - 1 \in S
        PROVE  k \in S
    BY <1>4, <1>8, <2>2
  <2> HIDE DEF S
  <2>3. QED
    BY <2>1, <2>2, Climb
<1>10. Steps(w, n) = f[n]
  BY <1>7, <1>9
<1> QED  BY <1>3, <1>4, <1>10

\* Steps by steps.
LEMMA StepsByStep ==
  ASSUME Polynomial \in Word, NEW w \in Word, NEW n \in Nat
  PROVE  Steps(w, n) \in Word /\ Steps(w, 0) = w /\ Steps(w, n + 1) = Step(Steps(w, n))
<1>1. PICK f \in [0 .. n -> Word] :
        f[0] = w /\ (\A k \in 1 .. n : f[k] = Step(f[k - 1])) /\ Steps(w, n) = f[n]
  BY StepsUnfold
<1>2. PICK g \in [0 .. n + 1 -> Word] :
        g[0] = w /\ (\A k \in 1 .. n + 1 : g[k] = Step(g[k - 1])) /\ Steps(w, n + 1) = g[n + 1]
  BY n + 1 \in Nat, StepsUnfold
<1>3. PICK z \in [0 .. 0 -> Word] : z[0] = w /\ Steps(w, 0) = z[0]
  BY 0 \in Nat, StepsUnfold
<1> DEFINE S == {k \in 0 .. n : f[k] = g[k]}
<1>4. n \in S
  <2>1. 0 \in S
    BY <1>1, <1>2
  <2>2. ASSUME NEW k \in 1 .. n, k - 1 \in S
        PROVE  k \in S
    BY <1>1, <1>2, <2>2
  <2> HIDE DEF S
  <2>3. QED
    BY <2>1, <2>2, Climb
<1>5. n + 1 \in 1 .. n + 1 /\ (n + 1) - 1 = n /\ n \in 0 .. n
  OBVIOUS
<1>6. Steps(w, n + 1) = Step(g[n])
  BY <1>2, <1>5
<1>7. QED
  BY <1>1, <1>3, <1>4, <1>5, <1>6

LEMMA StepsAdd ==
  ASSUME Polynomial \in Word, NEW w \in Word, NEW m \in Nat, NEW n \in Nat
  PROVE  Steps(Steps(w, m), n) = Steps(w, m + n)
<1> DEFINE v == Steps(w, m)
           S == {k \in 0 .. n : Steps(v, k) = Steps(w, m + k)}
<1>1. v \in Word
  BY StepsByStep
<1> HIDE DEF v
<1>2. 0 \in S
  <2>1. Steps(v, 0) = v
    BY <1>1, StepsByStep, 0 \in Nat
  <2>2. m + 0 = m /\ 0 \in 0 .. n
    OBVIOUS
  <2>3. QED
    BY <2>1, <2>2 DEF v
<1>3. ASSUME NEW k \in 1 .. n, k - 1 \in S
      PROVE  k \in S
  <2>1. k - 1 \in Nat /\ m + (k - 1) \in Nat /\ (k - 1) + 1 = k /\ (m + (k - 1)) + 1 = m + k /\ k \in 0 .. n
    OBVIOUS
  <2>2. Steps(v, (k - 1) + 1) = Step(Steps(v, k - 1))
    BY <1>1, <2>1, StepsByStep
  <2>3. Steps(w, (m + (k - 1)) + 1) = Step(Steps(w, m + (k - 1)))
    BY <2>1, StepsByStep
  <2>4. Steps(v, k - 1) = Steps(w, m + (k - 1))
    BY <1>3
  <2>5. QED
    BY <2>1, <2>2, <2>3, <2>4
<1>4. n \in S
  <2> HIDE DEF S
  <2> QED  BY <1>2, <1>3, Climb
<1> QED  BY <1>4 DEF v

LEMMA StepsAreLinear ==
  ASSUME Polynomial \in Word, NEW v \in Word, NEW w \in Word, NEW n \in Nat
  PROVE  Steps(Xor(v, w), n) = Xor(Steps(v, n), Steps(w, n))
<1> DEFINE S == {k \in 0 .. n : Steps(Xor(v, w), k) = Xor(Steps(v, k), Steps(w, k))}
<1>1. Xor(v, w) \in Word
  BY XorIsWord
<1>2. 0 \in S
  <2>1. Steps(Xor(v, w), 0) = Xor(v, w) /\ Steps(v, 0) = v /\ Steps(w, 0) = w
    BY <1>1, StepsByStep, 0 \in Nat
  <2>2. QED
    BY <2>1
<1>3. ASSUME NEW k \in 1 .. n, k - 1 \in S
      PROVE  k \in S
  <2>1. k - 1 \in Nat /\ (k - 1) + 1 = k /\ k \in 0 .. n
    OBVIOUS
  <2>2. /\ Steps(Xor(v, w), (k - 1) + 1) = Step(Steps(Xor(v, w), k - 1))
        /\ Steps(v, (k - 1) + 1) = Step(Steps(v, k - 1)) /\ Steps(v, k - 1) \in Word
        /\ Steps(w, (k - 1) + 1) = Step(Steps(w, k - 1)) /\ Steps(w, k - 1) \in Word
    BY <1>1, <2>1, StepsByStep
  <2>3. Steps(Xor(v, w), k - 1) = Xor(Steps(v, k - 1), Steps(w, k - 1))
    BY <1>3
  <2>4. /\ Step(Xor(Steps(v, k - 1), Steps(w, k - 1)))
              = Xor(Step(Steps(v, k - 1)), Step(Steps(w, k - 1)))
    BY <2>2, StepIsLinear
  <2>5. Steps(Xor(v, w), k) = Xor(Steps(v, k), Steps(w, k))
    BY <2>1, <2>2, <2>3, <2>4
  <2>6. QED
    BY <2>1, <2>5
<1>4. n \in S
  <2> HIDE DEF S
  <2> QED  BY <1>2, <1>3, Climb
<1> QED  BY <1>4

\* Steps that find no one in bit 0 only shift.
LEMMA StepsShift ==
  ASSUME Polynomial \in Word, NEW w \in Word, NEW n \in Nat, \A b \in w : b >= n
  PROVE  Steps(w, n) = ShiftRight(w, n)
<1> DEFINE S == {k \in 0 .. n : Steps(w, k) = ShiftRight(w, k)}
<1>1. 0 \in S
  <2>1. Steps(w, 0) = w
    BY StepsByStep, 0 \in Nat
  <2>2. QED
    BY <2>1, NoShift
<1>2. ASSUME NEW k \in 1 .. n, k - 1 \in S
      PROVE  k \in S
  <2>1. k - 1 \in Nat /\ (k - 1) + 1 = k /\ k \in 0 .. n /\ ~ (k - 1 >= n) /\ k \in Nat
    OBVIOUS
  <2> DEFINE v == ShiftRight(w, k - 1)
  <2>2. v \in Word /\ Steps(w, k - 1) = v
    BY <1>2, <2>1, ShiftRightIsWord
  <2>3. 0 \notin v
    <3>1. 0 \in v <=> 0 \in Nat /\ 0 + (k - 1) \in w
      BY <2>1, InShiftRight
    <3>2. 0 + (k - 1) = k - 1
      OBVIOUS
    <3>3. QED
      BY <2>1, <3>1, <3>2
  <2>4. Step(v) = ShiftRight(v, 1)
    BY <2>3 DEF Step
  <2>5. ShiftRight(v, 1) = ShiftRight(w, (k - 1) + 1)
    BY <2>1, ShiftsAdd, 1 \in Nat
  <2>6. Steps(w, (k - 1) + 1) = Step(Steps(w, k - 1))
    BY <2>1, StepsByStep
  <2>7. Steps(w, k) = ShiftRight(w, k)
    BY <2>1, <2>2, <2>4, <2>5, <2>6
  <2>8. QED
    BY <2>1, <2>7
<1>3. n \in S
  <2> HIDE DEF S
  <2> QED  BY <1>1, <1>2, Climb
<1> QED  BY <1>3

LEMMA NothingStays ==
  ASSUME Polynomial \in Word, NEW n \in Nat
  PROVE  Steps({}, n) = {}
<1>1. {} \in Word
  BY DEF Word
<1>2. Steps({}, n) = ShiftRight({}, n)
  BY <1>1, StepsShift
<1>3. QED
  BY <1>2 DEF ShiftRight

\* The upper bits are shifted, the lower n are divided.
LEMMA StepsSplit ==
  ASSUME Polynomial \in Word, NEW w \in Word, NEW n \in Nat, NEW low, low = {b \in w : b < n}
  PROVE  low \in Word /\ Steps(w, n) = Xor(ShiftRight(w, n), Steps(low, n))
<1> DEFINE high == {b \in w : b >= n}
<1>1. low \in Word /\ high \in Word /\ \A b \in high : b >= n
  BY DEF Word
<1>2. Xor(high, low) = w
  <2>1. \A b \in w : b \in Int
    BY DEF Word
  <2>2. \A b \in w : b >= n <=> ~ (b < n)
    BY <2>1
  <2>3. \A b : b \in high <=> b \in w /\ b >= n
    OBVIOUS
  <2>4. \A b : b \in low <=> b \in w /\ b < n
    OBVIOUS
  <2> HIDE DEF high
  <2>5. \A b : b \in Xor(high, low) <=> b \in w
    BY <2>2, <2>3, <2>4 DEF Xor
  <2>6. QED
    BY <2>5
<1>3. ShiftRight(high, n) = ShiftRight(w, n)
  BY DEF ShiftRight
<1> HIDE DEF high
<1>4. Steps(high, n) = ShiftRight(high, n)
  BY <1>1, StepsShift
<1>5. Steps(Xor(high, low), n) = Xor(Steps(high, n), Steps(low, n))
  BY <1>1, StepsAreLinear
<1>6. QED
  BY <1>1, <1>2, <1>3, <1>4, <1>5

-----------------------------------------------------------------------------
(* One byte *)

LEMMA BytesAreWords ==
  ASSUME NEW byte \in Byte
  PROVE  byte \in Word /\ ShiftRight(byte, 8) = {} /\ \A b \in byte : b \in 0 .. 7
<1>1. byte \in Word /\ \A b \in byte : b \in 0 .. 7
  BY DEF Byte, Word
<1>2. \A x : x \in ShiftRight(byte, 8) <=> x \in Nat /\ x + 8 \in byte
  BY <1>1, InShiftRight, 8 \in Nat
<1>3. \A x \in Nat : x + 8 \notin 0 .. 7
  OBVIOUS
<1>4. QED
  BY <1>1, <1>2, <1>3

\* The lowest byte of a word.
LEMMA LowestByte ==
  ASSUME NEW w \in Word
  PROVE  ByteOf(w, 0) = {b \in w : b < 8} /\ ByteOf(w, 0) \in Byte
<1>1. \A b \in w : b \in Nat /\ (b \div 8 = 0 <=> b < 8) /\ b - 8 * 0 = b
  BY DEF Word
<1>2. ByteOf(w, 0) = {b \in w : b < 8}
  <2>1. \A x : x \in ByteOf(w, 0) <=> \E b \in w : b \div 8 = 0 /\ x = b - 8 * 0
    BY DEF ByteOf
  <2>2. \A x : x \in ByteOf(w, 0) <=> x \in w /\ x < 8
    BY <1>1, <2>1
  <2>3. QED
    BY <2>2
<1>3. {b \in w : b < 8} \in Byte
  <2>1. \A b \in Nat : b < 8 => b \in 0 .. 7
    OBVIOUS
  <2>2. QED
    BY <1>1, <2>1 DEF Byte
<1>4. QED
  BY <1>2, <1>3

LEMMA LowestOfSum ==
  ASSUME NEW w \in Word, NEW byte \in Byte
  PROVE  /\ Xor(w, byte) \in Word
         /\ ByteOf(Xor(w, byte), 0) = Xor(ByteOf(w, 0), byte)
         /\ ShiftRight(Xor(w, byte), 8) = ShiftRight(w, 8)
<1>1. Xor(w, byte) \in Word /\ byte \in Word /\ ShiftRight(byte, 8) = {}
  BY BytesAreWords, XorIsWord
<1>2. ByteOf(Xor(w, byte), 0) = {b \in Xor(w, byte) : b < 8} /\ ByteOf(w, 0) = {b \in w : b < 8}
  BY <1>1, LowestByte
<1>3. \A b \in byte : b < 8
  BY BytesAreWords
<1>4. {b \in Xor(w, byte) : b < 8} = Xor({b \in w : b < 8}, byte)
  BY <1>3 DEF Xor
<1>5. ShiftRight(Xor(w, byte), 8) = Xor(ShiftRight(w, 8), {})
  BY <1>1, ShiftIsLinear, 8 \in Nat
<1>6. Xor(ShiftRight(w, 8), {}) = ShiftRight(w, 8)
  BY XorAlgebra
<1>7. QED
  BY <1>1, <1>2, <1>4, <1>5, <1>6

LEMMA XorOfBytes ==
  ASSUME NEW a \in Byte, NEW b \in Byte
  PROVE  Xor(a, b) \in Byte
BY DEF Xor, Byte

\* Eight steps by the table.
LEMMA ByTable ==
  ASSUME Polynomial \in Word, NEW w \in Word
  PROVE  Steps(w, 8) = Xor(ShiftRight(w, 8), Lookup0[ByteOf(w, 0)])
<1>1. ByteOf(w, 0) = {b \in w : b < 8} /\ ByteOf(w, 0) \in Byte
  BY LowestByte
<1>2. Steps(w, 8) = Xor(ShiftRight(w, 8), Steps(ByteOf(w, 0), 8))
  BY <1>1, StepsSplit, 8 \in Nat
<1>3. Lookup0[ByteOf(w, 0)] = Steps(ByteOf(w, 0), 8)
  BY <1>1 DEF Lookup0
<1>4. QED
  BY <1>2, <1>3

\* The table finds what the division of the byte does.
LEMMA TableIsBitwise ==
  ASSUME Polynomial \in Word
  PROVE  TableByte = BitwiseByte
<1>1. ASSUME NEW crc \in Word, NEW byte \in Byte
      PROVE  Xor(ShiftRight(crc, 8), Lookup0[Xor(ByteOf(crc, 0), byte)]) = Steps(Xor(crc, byte), 8)
  <2>1. /\ Xor(crc, byte) \in Word
        /\ ByteOf(Xor(crc, byte), 0) = Xor(ByteOf(crc, 0), byte)
        /\ ShiftRight(Xor(crc, byte), 8) = ShiftRight(crc, 8)
    BY LowestOfSum
  <2>2. QED
    BY <2>1, ByTable
<1>2. QED
  BY <1>1 DEF TableByte, BitwiseByte

-----------------------------------------------------------------------------
(* Half a byte *)

LEMMA LowHalf ==
  ASSUME NEW w \in Word
  PROVE  Low(w) = {b \in w : b < 4} /\ Low(w) \in SUBSET (0 .. 3) /\ Low(w) \in Word
<1>1. \A b \in w : b \in Nat
  BY DEF Word
<1>2. \A b : b \in Low(w) <=> b \in w /\ b \in 0 .. 3
  BY DEF Low
<1>3. \A b \in Nat : b \in 0 .. 3 <=> b < 4
  OBVIOUS
<1>4. Low(w) = {b \in w : b < 4}
  BY <1>1, <1>2, <1>3
<1>5. Low(w) \in Word
  BY <1>2 DEF Word
<1>6. QED
  BY <1>2, <1>4, <1>5

\* The small table does four steps.
LEMMA HalfTable ==
  ASSUME Polynomial \in Word, NEW half \in SUBSET (0 .. 3)
  PROVE  HalfByteTable[half] = Steps(half, 4)
<1> DEFINE h == {b + 4 : b \in half}
<1>1. h \in Byte /\ h \in Word /\ \A b \in h : b >= 4
  BY DEF Byte, Word
<1>2. HalfByteTable[half] = Lookup0[h]
  BY DEF HalfByteTable
<1>3. ShiftRight(h, 4) = half
  <2>1. \A x : x \in ShiftRight(h, 4) <=> x \in Nat /\ x + 4 \in h
    <3> HIDE DEF h
    <3> QED  BY <1>1, InShiftRight, 4 \in Nat
  <2>2. \A x : x \in h <=> \E b \in half : x = b + 4
    OBVIOUS
  <2>3. \A b \in half : b \in Nat
    OBVIOUS
  <2> HIDE DEF h
  <2>4. \A x \in Nat : x + 4 \in h <=> x \in half
    BY <2>2, <2>3
  <2>5. QED
    BY <2>1, <2>3, <2>4
<1> HIDE DEF h
<1>4. Lookup0[h] = Steps(h, 8)
  BY <1>1 DEF Lookup0
<1>5. Steps(h, 4) = half
  BY <1>1, <1>3, StepsShift, 4 \in Nat
<1>6. Steps(Steps(h, 4), 4) = Steps(h, 4 + 4)
  BY <1>1, StepsAdd, 4 \in Nat
<1>7. 4 + 4 = 8
  OBVIOUS
<1>8. QED
  BY <1>2, <1>4, <1>5, <1>6, <1>7

\* Four steps by the small table.
LEMMA ByHalfTable ==
  ASSUME Polynomial \in Word, NEW w \in Word
  PROVE  Steps(w, 4) = Xor(ShiftRight(w, 4), HalfByteTable[Low(w)])
<1>1. Low(w) = {b \in w : b < 4} /\ Low(w) \in SUBSET (0 .. 3)
  BY LowHalf
<1>2. Steps(w, 4) = Xor(ShiftRight(w, 4), Steps(Low(w), 4))
  BY <1>1, StepsSplit, 4 \in Nat
<1>3. HalfByteTable[Low(w)] = Steps(Low(w), 4)
  BY <1>1, HalfTable
<1>4. QED
  BY <1>2, <1>3

\* Two halves are a byte.
LEMMA HalvesAreBitwise ==
  ASSUME Polynomial \in Word
  PROVE  HalfByte = BitwiseByte
<1> DEFINE First(crc, byte) == Xor(HalfByteTable[Low(Xor(crc, byte))], ShiftRight(crc, 4))
           Second(first, byte) == Xor(HalfByteTable[Low(Xor(first, ShiftRight(byte, 4)))], ShiftRight(first, 4))
<1>1. ASSUME NEW crc \in Word, NEW byte \in Byte
      PROVE  Second(First(crc, byte), byte) = Steps(Xor(crc, byte), 8)
  <2> DEFINE c == Xor(crc, byte)
             first == First(crc, byte)
             high == ShiftRight(byte, 4)
             d == Xor(first, high)
             e == HalfByteTable[Low(c)]
  <2>1. byte \in Word /\ ShiftRight(byte, 8) = {} /\ c \in Word
    BY BytesAreWords, XorIsWord
  <2>2. high \in Word /\ ShiftRight(crc, 4) \in Word
    BY <2>1, ShiftRightIsWord, 4 \in Nat
  <2>3. ShiftRight(c, 4) = Xor(ShiftRight(crc, 4), high)
    BY <2>1, ShiftIsLinear, 4 \in Nat
  <2>4. ShiftRight(high, 4) = {}
    <3>1. ShiftRight(high, 4) = ShiftRight(byte, 4 + 4)
      BY <2>1, ShiftsAdd, 4 \in Nat
    <3>2. 4 + 4 = 8
      OBVIOUS
    <3>3. QED
      BY <2>1, <3>1, <3>2
  <2>5. e \in Word
    <3>1. Low(c) \in SUBSET (0 .. 3) /\ Low(c) \in Word
      BY <2>1, LowHalf
    <3>2. e = Steps(Low(c), 4)
      BY <3>1, HalfTable
    <3>3. QED
      BY <3>1, <3>2, StepsByStep, 4 \in Nat
  <2>6. Steps(c, 4) = Xor(ShiftRight(c, 4), e)
    BY <2>1, ByHalfTable
  <2>7. first = Xor(e, ShiftRight(crc, 4))
    OBVIOUS
  <2> HIDE DEF c, first, high, e
  <2>8. first \in Word
    BY <2>2, <2>5, <2>7, XorIsWord
  <2>9. Steps(c, 4) = d
    <3>1. Xor(Xor(ShiftRight(crc, 4), high), e) = Xor(Xor(e, ShiftRight(crc, 4)), high)
      BY DEF Xor
    <3>2. QED
      BY <2>3, <2>6, <2>7, <3>1
  <2>10. d \in Word
    BY <2>2, <2>8, XorIsWord
  <2>11. Steps(d, 4) = Xor(ShiftRight(d, 4), HalfByteTable[Low(d)])
    <3> HIDE DEF d
    <3> QED  BY <2>10, ByHalfTable
  <2>12. ShiftRight(d, 4) = ShiftRight(first, 4)
    <3>1. ShiftRight(d, 4) = Xor(ShiftRight(first, 4), ShiftRight(high, 4))
      BY <2>2, <2>8, ShiftIsLinear, 4 \in Nat
    <3>2. QED
      BY <2>4, <3>1, XorAlgebra
  <2>13. Steps(c, 8) = Steps(d, 4)
    <3>1. Steps(Steps(c, 4), 4) = Steps(c, 4 + 4)
      BY <2>1, StepsAdd, 4 \in Nat
    <3>2. 4 + 4 = 8
      OBVIOUS
    <3>3. QED
      BY <2>9, <3>1, <3>2
  <2>14. Second(first, byte) = Xor(HalfByteTable[Low(d)], ShiftRight(first, 4))
    BY DEF high
  <2>15. Second(first, byte) = Steps(c, 8)
    <3> HIDE DEF d, Second
    <3> QED  BY <2>11, <2>12, <2>13, <2>14, XorAlgebra
  <2>16. QED
    <3> HIDE DEF Second, First
    <3> QED  BY <2>15 DEF first, c
<1>2. HalfByte = [crc \in Word |-> [byte \in Byte |-> Second(First(crc, byte), byte)]]
  BY DEF HalfByte
<1> HIDE DEF First, Second
<1>3. QED
  BY <1>1, <1>2 DEF BitwiseByte

-----------------------------------------------------------------------------
(* Bit by bit *)

\* Word i is what bit i - 1 of w adds in m steps.
AreOfBits(words, w, m) ==
  \A i \in 1 .. Len(words) : words[i] = IF i - 1 \in w THEN Steps({i - 1}, m) ELSE {}

\* The steps of a word are the sum of those of its bits.
LEMMA BitByBit ==
  ASSUME Polynomial \in Word, NEW w \in Word, NEW m \in Nat, NEW words \in Seq(Word),
         AreOfBits(words, w, m)
  PROVE  XorAll(words) = Steps({b \in w : b < Len(words)}, m)
<1> DEFINE n == Len(words)
           Below(k) == {b \in w : b < k}
<1>1. n \in Nat /\ \A k : Below(k) \in Word
  <2>1. n \in Nat
    OBVIOUS
  <2>2. \A k : Below(k) \in Word
    BY DEF Word
  <2>3. QED
    BY <2>1, <2>2
<1>2. PICK sum \in [0 .. n -> Word] :
        /\ sum[0] = {} /\ XorAll(words) = sum[n]
        /\ \A k \in 1 .. n : sum[k] = Xor(sum[k - 1], words[k])
  BY XorAllUnfolds
<1> DEFINE S == {k \in 0 .. n : sum[k] = Steps(Below(k), m)}
<1>3. 0 \in S
  <2>1. \A b \in w : b \in Nat
    BY DEF Word
  <2>2. Below(0) = {}
    BY <2>1
  <2>3. 0 \in 0 .. n
    BY <1>1
  <2>4. Steps(Below(0), m) = {}
    BY <2>2, NothingStays
  <2> HIDE DEF Below, n
  <2>5. QED
    BY <1>2, <2>3, <2>4
<1>4. ASSUME NEW k \in 1 .. n, k - 1 \in S
      PROVE  k \in S
  <2>1. k \in 0 .. n /\ k \in Nat /\ sum[k] = Xor(Steps(Below(k - 1), m), words[k])
    BY <1>1, <1>2, <1>4
  <2>2. \A b \in w : b \in Nat
    BY DEF Word
  <2>3. \A b \in Nat : b < k <=> b < k - 1 \/ b = k - 1
    BY <1>1
  <2>4. CASE k - 1 \in w
    <3>1. {k - 1} \in Word
      BY <2>4 DEF Word
    <3>2. \A b : b \in Xor(Below(k - 1), {k - 1}) <=> b \in Below(k)
      <4>1. ~ (k - 1 < k - 1)
        BY <1>1
      <4>2. QED
        BY <2>2, <2>3, <2>4, <4>1 DEF Xor
    <3> HIDE DEF Below, n
    <3>3. Xor(Below(k - 1), {k - 1}) = Below(k)
      BY <3>2
    <3>4. Steps(Below(k), m) = Xor(Steps(Below(k - 1), m), Steps({k - 1}, m))
      BY <1>1, <3>1, <3>3, StepsAreLinear
    <3>5. words[k] = Steps({k - 1}, m)
      BY <2>4 DEF n, AreOfBits
    <3>6. QED
      BY <2>1, <3>4, <3>5
  <2>5. CASE k - 1 \notin w
    <3>1. \A b : b \in Below(k - 1) <=> b \in Below(k)
      BY <2>2, <2>3, <2>5
    <3> HIDE DEF Below, n
    <3>2. Below(k - 1) = Below(k)
      BY <3>1
    <3>3. words[k] = {}
      BY <2>5 DEF n, AreOfBits
    <3>4. QED
      BY <2>1, <3>2, <3>3, XorAlgebra
  <2>6. QED
    BY <2>4, <2>5
<1>5. n \in S
  <2> HIDE DEF S, n
  <2> QED  BY <1>1, <1>3, <1>4, Climb
<1> QED  BY <1>2, <1>5

\* A polynomial whose lower bits are those of zlib's.
LowBitsOfZlib == Polynomial \in Word /\ \A b \in 0 .. 6 : b \in Polynomial <=> b = 5

LEMMA PolynomialShifts ==
  ASSUME LowBitsOfZlib, NEW n \in 0 .. 5
  PROVE  Steps(Polynomial, n) = ShiftRight(Polynomial, n)
<1>1. \A b \in Polynomial : b >= n
  BY DEF LowBitsOfZlib, Word
<1>2. QED
  BY <1>1, StepsShift DEF LowBitsOfZlib

\* Eight steps of one bit of the lowest byte.
LEMMA EightStepsOfABit ==
  ASSUME LowBitsOfZlib, NEW b \in 0 .. 7
  PROVE  Steps({b}, 8) = BitTerm(b)
<1> DEFINE P == Polynomial
<1>1. P \in Word /\ {b} \in Word /\ {0} \in Word
  BY DEF LowBitsOfZlib, Word
<1>2. Steps({b}, b) = {0}
  <2>1. Steps({b}, b) = ShiftRight({b}, b)
    BY <1>1, StepsShift
  <2>2. ShiftRight({b}, b) = {0}
    BY DEF ShiftRight
  <2>3. QED
    BY <2>1, <2>2
<1>3. Steps({0}, 1) = P
  <2>1. Steps({0}, 0 + 1) = Step(Steps({0}, 0)) /\ Steps({0}, 0) = {0}
    BY <1>1, StepsByStep, 0 \in Nat
  <2>2. ShiftRight({0}, 1) = {}
    BY DEF ShiftRight
  <2>3. Step({0}) = Xor({}, P)
    BY <2>2 DEF Step
  <2>4. Xor({}, P) = P /\ 0 + 1 = 1
    BY XorAlgebra
  <2>5. QED
    BY <2>1, <2>3, <2>4
<1>4. Steps({b}, 8) = Steps(P, 7 - b)
  <2>1. b \in Nat /\ 7 - b \in Nat /\ b + 1 \in Nat /\ (b + 1) + (7 - b) = 8
    OBVIOUS
  <2>2. Steps(Steps({b}, b), 1) = Steps({b}, b + 1)
    BY <1>1, <2>1, StepsAdd, 1 \in Nat
  <2>3. Steps(Steps({b}, b + 1), 7 - b) = Steps({b}, (b + 1) + (7 - b))
    BY <1>1, <2>1, StepsAdd
  <2>4. QED
    BY <1>2, <1>3, <2>1, <2>2, <2>3
<1> DEFINE v == ShiftRight(P, 5)
<1>5. Steps(P, 5) = v /\ v \in Word
  BY <1>1, PolynomialShifts, ShiftRightIsWord, 5 \in Nat
<1>6. Steps(P, 6) = Xor(ShiftRight(P, 6), P)
  <2>1. Steps(P, 5 + 1) = Step(Steps(P, 5))
    BY <1>1, StepsByStep, 5 \in Nat
  <2>2. 0 \in v
    <3>1. 0 \in v <=> 0 \in Nat /\ 0 + 5 \in P
      BY <1>1, InShiftRight, 5 \in Nat
    <3>2. 5 \in P
      BY DEF LowBitsOfZlib
    <3>3. QED
      BY <3>1, <3>2
  <2>3. ShiftRight(v, 1) = ShiftRight(P, 5 + 1)
    BY <1>1, ShiftsAdd, 5 \in Nat, 1 \in Nat
  <2>4. Step(v) = Xor(ShiftRight(v, 1), P)
    BY <2>2 DEF Step
  <2>5. 5 + 1 = 6
    OBVIOUS
  <2>6. QED
    BY <1>5, <2>1, <2>3, <2>4, <2>5
<1>7. Steps(P, 7) = Xor(ShiftRight(P, 7), ShiftRight(P, 1))
  <2> DEFINE u == ShiftRight(P, 6)
  <2>1. Steps(P, 6 + 1) = Step(Steps(P, 6))
    BY <1>1, StepsByStep, 6 \in Nat
  <2>2. u \in Word
    BY <1>1, ShiftRightIsWord, 6 \in Nat
  <2>3. 0 \notin u
    <3>1. 0 \in u <=> 0 \in Nat /\ 0 + 6 \in P
      BY <1>1, InShiftRight, 6 \in Nat
    <3>2. 6 \notin P
      BY DEF LowBitsOfZlib
    <3>3. QED
      BY <3>1, <3>2
  <2>4. Step(u) = ShiftRight(P, 7)
    <3>1. ShiftRight(u, 1) = ShiftRight(P, 6 + 1)
      BY <1>1, ShiftsAdd, 6 \in Nat, 1 \in Nat
    <3>2. Step(u) = ShiftRight(u, 1)
      BY <2>3 DEF Step
    <3>3. 6 + 1 = 7
      OBVIOUS
    <3>4. QED
      BY <3>1, <3>2, <3>3
  <2>5. Step(P) = ShiftRight(P, 1)
    <3>1. 0 \notin P
      BY DEF LowBitsOfZlib
    <3>2. QED
      BY <3>1 DEF Step
  <2>6. Step(Xor(u, P)) = Xor(Step(u), Step(P))
    BY <1>1, <2>2, StepIsLinear
  <2>7. 6 + 1 = 7
    OBVIOUS
  <2>8. QED
    BY <1>6, <2>1, <2>4, <2>5, <2>6, <2>7
<1>8. CASE b >= 2
  <2>1. 7 - b \in 0 .. 5 /\ ~ (b <= 1)
    BY <1>8
  <2>2. QED
    BY <1>4, <2>1, PolynomialShifts DEF BitTerm
<1>9. CASE b = 1
  <2>1. BitTerm(b) = Xor(ShiftRight(P, 7 - 1), P) /\ 7 - 1 = 6
    BY <1>9 DEF BitTerm
  <2>2. QED
    BY <1>4, <1>6, <1>9, <2>1
<1>10. CASE b = 0
  <2>1. BitTerm(b) = Xor(ShiftRight(P, 7 - 0), ShiftRight(P, 1)) /\ 7 - 0 = 7
    BY <1>10 DEF BitTerm
  <2>2. QED
    BY <1>4, <1>7, <1>10, <2>1
<1> QED  BY <1>8, <1>9, <1>10

\* Bit by bit without the table.
LEMMA Tableless2IsBitwise ==
  ASSUME LowBitsOfZlib
  PROVE  Tableless2 = BitwiseByte
<1>1. ASSUME NEW crc \in Word, NEW byte \in Byte
      PROVE  LET c == Xor(crc, byte)
             IN  Xor(ShiftRight(c, 8), XorAll([i \in 1 .. 8 |-> IF i - 1 \in c THEN BitTerm(i - 1) ELSE {}]))
                   = Steps(Xor(crc, byte), 8)
  <2> DEFINE c == Xor(crc, byte)
             words == [i \in 1 .. 8 |-> IF i - 1 \in c THEN BitTerm(i - 1) ELSE {}]
             low == {b \in c : b < 8}
  <2>1. c \in Word /\ Polynomial \in Word
    BY LowestOfSum DEF LowBitsOfZlib
  <2> HIDE DEF c
  <2>2. ASSUME NEW i \in 1 .. 8
        PROVE  words[i] \in Word /\ words[i] = IF i - 1 \in c THEN Steps({i - 1}, 8) ELSE {}
    <3>1. i - 1 \in 0 .. 7 /\ {i - 1} \in Word /\ {} \in Word
      BY DEF Word
    <3>2. Steps({i - 1}, 8) = BitTerm(i - 1)
      BY <3>1, EightStepsOfABit
    <3>3. Steps({i - 1}, 8) \in Word
      BY <2>1, <3>1, StepsByStep, 8 \in Nat
    <3>4. QED
      BY <3>1, <3>2, <3>3
  <2>3. words \in Seq(Word) /\ Len(words) = 8
    <3>1. words = [i \in 1 .. 8 |-> words[i]] /\ DOMAIN words = 1 .. 8
      OBVIOUS
    <3> HIDE DEF words
    <3>2. words \in [1 .. 8 -> Word]
      BY <2>2, <3>1
    <3>3. QED
      BY ONLY <3>2, FunctionIsSeq, 8 \in Nat
  <2>4. XorAll(words) = Steps(low, 8)
    <3> HIDE DEF words
    <3>1. AreOfBits(words, c, 8)
      BY <2>2, <2>3 DEF AreOfBits
    <3>2. XorAll(words) = Steps({b \in c : b < Len(words)}, 8)
      BY <2>1, <2>3, <3>1, BitByBit, 8 \in Nat
    <3>3. QED
      BY <2>3, <3>2
  <2>5. Steps(c, 8) = Xor(ShiftRight(c, 8), Steps(low, 8))
    BY <2>1, StepsSplit, 8 \in Nat
  <2>6. Xor(ShiftRight(c, 8), XorAll(words)) = Steps(c, 8)
    BY <2>4, <2>5
  <2>7. QED
    BY <2>6 DEF c
<1>2. QED
  BY <1>1 DEF Tableless2, BitwiseByte

-----------------------------------------------------------------------------
(* Without a table *)

LEMMA InShiftLeft ==
  ASSUME NEW w \in Byte, NEW n \in Nat, NEW width \in Nat, NEW x
  PROVE  x \in ShiftLeft(w, n, width) <=> x \in Nat /\ x < width /\ x - n \in w
<1>1. \A b \in w : b \in Nat
  BY DEF Byte
<1>2. x \in ShiftLeft(w, n, width) <=> \E b \in w : b + n < width /\ x = b + n
  BY DEF ShiftLeft
<1>3. QED
  BY <1>1, <1>2

LEMMA InTimes ==
  ASSUME NEW w \in Byte, NEW shifts \in SUBSET Nat, NEW x
  PROVE  x \in Times(w, shifts) <=> x \in Nat /\ x < 32 /\ \E s \in shifts : x - s \in w
<1>1. x \in Times(w, shifts) <=> \E s \in shifts : x \in ShiftLeft(w, s, 32)
  BY DEF Times
<1>2. QED
  BY <1>1, InShiftLeft, 32 \in Nat

\* The bytes of a product do not overlap.
Apart(shifts) == shifts \in SUBSET Nat /\ \A s, t \in shifts : s = t \/ s - t >= 8 \/ t - s >= 8

LEMMA TimesIsLinear ==
  ASSUME NEW v \in Byte, NEW w \in Byte, NEW shifts, Apart(shifts)
  PROVE  /\ Times(v, shifts) \in Word
         /\ Times(Xor(v, w), shifts) = Xor(Times(v, shifts), Times(w, shifts))
<1>1. Xor(v, w) \in Byte /\ shifts \in SUBSET Nat
  BY XorOfBytes DEF Apart
<1>2. \A x : x \in Times(v, shifts) <=> x \in Nat /\ x < 32 /\ \E s \in shifts : x - s \in v
  BY <1>1, InTimes
<1>3. \A x : x \in Times(w, shifts) <=> x \in Nat /\ x < 32 /\ \E s \in shifts : x - s \in w
  BY <1>1, InTimes
<1>4. \A x : x \in Times(Xor(v, w), shifts)
               <=> x \in Nat /\ x < 32 /\ \E s \in shifts : x - s \in Xor(v, w)
  BY <1>1, InTimes
<1>5. Times(v, shifts) \in Word
  <2>1. \A x \in Nat : x < 32 => x \in 0 .. 31
    OBVIOUS
  <2>2. QED
    BY <1>2, <2>1 DEF Word
<1>6. ASSUME NEW x \in Nat, NEW s \in shifts, NEW t \in shifts, x - s \in v \cup w, x - t \in v \cup w
      PROVE  s = t
  <2>1. s \in Nat /\ t \in Nat /\ (s = t \/ s - t >= 8 \/ t - s >= 8)
    BY DEF Apart
  <2>2. x - s \in 0 .. 7 /\ x - t \in 0 .. 7
    BY <1>6 DEF Byte
  <2>3. QED
    BY <2>1, <2>2
<1>7. ASSUME NEW x \in Nat
      PROVE  (\E s \in shifts : x - s \in Xor(v, w))
               <=> ~ ((\E s \in shifts : x - s \in v) <=> \E s \in shifts : x - s \in w)
  <2>1. \A s, t \in shifts : x - s \in v \cup w /\ x - t \in v \cup w => s = t
    BY <1>6
  <2>2. \A b : b \in Xor(v, w) <=> ~ (b \in v <=> b \in w)
    BY DEF Xor
  <2>3. \A b : b \in v \cup w <=> b \in v \/ b \in w
    OBVIOUS
  <2>4. QED
    BY <2>1, <2>2, <2>3, Zenon
<1>8. \A x : x \in Times(Xor(v, w), shifts) <=> ~ (x \in Times(v, shifts) <=> x \in Times(w, shifts))
  BY <1>2, <1>3, <1>4, <1>7
<1>9. Times(Xor(v, w), shifts) = Xor(Times(v, shifts), Times(w, shifts))
  BY <1>8 DEF Xor
<1>10. QED
  BY <1>5, <1>9

LEMMA OneShift ==
  ASSUME NEW w \in Byte, NEW n \in Nat
  PROVE  ShiftLeft(w, n, 32) = Times(w, {n})
BY DEF Times

\* What the lower byte adds, after its own correction.
Spread(low) ==
  LET a == Times(low, {23, 14, 2})
  IN  Xor(Times(low, {24, 16, 8}),
          Xor(a, Xor(ShiftRight(a, 1),
                     Xor(Times(low, {20, 12}),
                         Xor(Times(low, {19}), Xor(Times(low, {17}), ShiftRight(low, 2)))))))

LEMMA ShiftsApart ==
  /\ Apart({23, 14, 2}) /\ Apart({24, 16, 8}) /\ Apart({20, 12}) /\ Apart({19}) /\ Apart({17})
BY DEF Apart

LEMMA SpreadIsLinear ==
  ASSUME NEW v \in Byte, NEW w \in Byte
  PROVE  Spread(v) \in Word /\ Spread(Xor(v, w)) = Xor(Spread(v), Spread(w))
<1> DEFINE A(u) == Times(u, {23, 14, 2})
           B(u) == Times(u, {24, 16, 8})
           C(u) == ShiftRight(A(u), 1)
           D(u) == Times(u, {20, 12})
           E(u) == Times(u, {19})
           F(u) == Times(u, {17})
           G(u) == ShiftRight(u, 2)
           Sum(a, b, c, d, e, f, g) == Xor(b, Xor(a, Xor(c, Xor(d, Xor(e, Xor(f, g))))))
<1>1. v \in Word /\ w \in Word
  BY BytesAreWords
<1>2. A(v) \in Word /\ A(w) \in Word /\ A(Xor(v, w)) = Xor(A(v), A(w))
  BY ShiftsApart, TimesIsLinear
<1>3. B(v) \in Word /\ B(w) \in Word /\ B(Xor(v, w)) = Xor(B(v), B(w))
  BY ShiftsApart, TimesIsLinear
<1>4. C(v) \in Word /\ C(w) \in Word /\ C(Xor(v, w)) = Xor(C(v), C(w))
  <2> HIDE DEF A
  <2> QED  BY <1>2, ShiftRightIsWord, ShiftIsLinear, 1 \in Nat
<1>5. D(v) \in Word /\ D(w) \in Word /\ D(Xor(v, w)) = Xor(D(v), D(w))
  BY ShiftsApart, TimesIsLinear
<1>6. E(v) \in Word /\ E(w) \in Word /\ E(Xor(v, w)) = Xor(E(v), E(w))
  BY ShiftsApart, TimesIsLinear
<1>7. F(v) \in Word /\ F(w) \in Word /\ F(Xor(v, w)) = Xor(F(v), F(w))
  BY ShiftsApart, TimesIsLinear
<1>8. G(v) \in Word /\ G(w) \in Word /\ G(Xor(v, w)) = Xor(G(v), G(w))
  BY <1>1, ShiftRightIsWord, ShiftIsLinear, 2 \in Nat
<1>9. \A u : Spread(u) = Sum(A(u), B(u), C(u), D(u), E(u), F(u), G(u))
  BY DEF Spread
<1> HIDE DEF A, B, C, D, E, F, G
<1>10. Spread(v) \in Word
  BY <1>2, <1>3, <1>4, <1>5, <1>6, <1>7, <1>8, <1>9, XorIsWord
<1>11. \A a, b, c, d : Xor(Xor(a, b), Xor(c, d)) = Xor(Xor(a, c), Xor(b, d))
  BY DEF Xor
<1>12. Spread(Xor(v, w)) = Xor(Spread(v), Spread(w))
  <2> HIDE DEF Sum
  <2>1. Spread(Xor(v, w)) = Sum(A(Xor(v, w)), B(Xor(v, w)), C(Xor(v, w)), D(Xor(v, w)),
                                E(Xor(v, w)), F(Xor(v, w)), G(Xor(v, w)))
    BY <1>9
  <2>2. @ = Sum(Xor(A(v), A(w)), Xor(B(v), B(w)), Xor(C(v), C(w)), Xor(D(v), D(w)),
                Xor(E(v), E(w)), Xor(F(v), F(w)), Xor(G(v), G(w)))
    BY <1>2, <1>3, <1>4, <1>5, <1>6, <1>7, <1>8
  <2>3. @ = Xor(Sum(A(v), B(v), C(v), D(v), E(v), F(v), G(v)),
                Sum(A(w), B(w), C(w), D(w), E(w), F(w), G(w)))
    BY <1>11 DEF Sum
  <2>4. @ = Xor(Spread(v), Spread(w))
    BY <1>9
  <2>5. QED
    BY <2>1, <2>2, <2>3, <2>4
<1> QED  BY <1>10, <1>12

Zlibs == {31, 30, 29, 27, 26, 24, 23, 21, 20, 19, 15, 9, 8, 5}

\* Of one bit it is the polynomial, shifted.
LEMMA SpreadOfABit ==
  ASSUME Polynomial = Zlibs, NEW b \in 0 .. 7
  PROVE  Spread({b}) = ShiftRight(Polynomial, 7 - b)
<1>1. {b} \in Byte /\ {b} \in Word /\ Polynomial \in Word
  BY DEF Byte, Word, Zlibs
<1> DEFINE a == Times({b}, {23, 14, 2})
           P == ShiftRight(Polynomial, 7 - b)
<1>2. a \in Word
  BY <1>1, TimesIsLinear, ShiftsApart
<1>3. \A x : x \in a <=> x \in Nat /\ x < 32 /\ x - b \in {23, 14, 2}
  <2>1. \A x : x \in a <=> x \in Nat /\ x < 32 /\ \E s \in {23, 14, 2} : x - s \in {b}
    BY <1>1, InTimes
  <2>2. \A x \in Nat : (\E s \in {23, 14, 2} : x - s \in {b}) <=> x - b \in {23, 14, 2}
    OBVIOUS
  <2>3. QED
    BY <2>1, <2>2
<1>4. \A x : x \in Times({b}, {24, 16, 8}) <=> x \in Nat /\ x < 32 /\ x - b \in {24, 16, 8}
  <2>1. \A x : x \in Times({b}, {24, 16, 8}) <=> x \in Nat /\ x < 32 /\ \E s \in {24, 16, 8} : x - s \in {b}
    BY <1>1, InTimes
  <2>2. \A x \in Nat : (\E s \in {24, 16, 8} : x - s \in {b}) <=> x - b \in {24, 16, 8}
    OBVIOUS
  <2>3. QED
    BY <2>1, <2>2
<1>5. \A x : x \in Times({b}, {20, 12}) <=> x \in Nat /\ x < 32 /\ x - b \in {20, 12}
  <2>1. \A x : x \in Times({b}, {20, 12}) <=> x \in Nat /\ x < 32 /\ \E s \in {20, 12} : x - s \in {b}
    BY <1>1, InTimes
  <2>2. \A x \in Nat : (\E s \in {20, 12} : x - s \in {b}) <=> x - b \in {20, 12}
    OBVIOUS
  <2>3. QED
    BY <2>1, <2>2
<1>6. \A x : x \in Times({b}, {19}) <=> x \in Nat /\ x < 32 /\ x - b = 19
  <2>1. \A x : x \in Times({b}, {19}) <=> x \in Nat /\ x < 32 /\ \E s \in {19} : x - s \in {b}
    BY <1>1, InTimes
  <2>2. \A x \in Nat : (\E s \in {19} : x - s \in {b}) <=> x - b = 19
    OBVIOUS
  <2>3. QED
    BY <2>1, <2>2
<1>7. \A x : x \in Times({b}, {17}) <=> x \in Nat /\ x < 32 /\ x - b = 17
  <2>1. \A x : x \in Times({b}, {17}) <=> x \in Nat /\ x < 32 /\ \E s \in {17} : x - s \in {b}
    BY <1>1, InTimes
  <2>2. \A x \in Nat : (\E s \in {17} : x - s \in {b}) <=> x - b = 17
    OBVIOUS
  <2>3. QED
    BY <2>1, <2>2
<1>8. \A x : x \in ShiftRight({b}, 2) <=> x \in Nat /\ x - b = -2
  <2>1. \A x : x \in ShiftRight({b}, 2) <=> x \in Nat /\ x + 2 \in {b}
    BY <1>1, InShiftRight, 2 \in Nat
  <2>2. QED
    BY <2>1
<1>9. \A x : x \in P <=> x \in Nat /\ x + (7 - b) \in Polynomial
  BY <1>1, InShiftRight, 7 - b \in Nat
<1> HIDE DEF a
<1>10. \A x : x \in ShiftRight(a, 1) <=> x \in Nat /\ x - b \in {22, 13, 1}
  <2>1. \A x : x \in ShiftRight(a, 1) <=> x \in Nat /\ x + 1 \in a
    BY <1>2, InShiftRight, 1 \in Nat
  <2>2. QED
    BY <1>3, <2>1
<1>11. \A x \in Nat : x + (7 - b) \in Polynomial
          <=> x - b \in {24, 23, 22, 20, 19, 17, 16, 14, 13, 12, 8, 2, 1, -2}
  BY DEF Zlibs
<1>12. \A x \in Nat : x - b \in {24, 23, 22, 20, 19, 17, 16, 14, 13, 12, 8, 2, 1, -2} => x < 32
  OBVIOUS
<1> HIDE DEF P
<1>13. Spread({b}) = Xor(Times({b}, {24, 16, 8}),
                         Xor(a, Xor(ShiftRight(a, 1),
                           Xor(Times({b}, {20, 12}),
                             Xor(Times({b}, {19}), Xor(Times({b}, {17}), ShiftRight({b}, 2)))))))
  BY DEF Spread, a
<1> DEFINE B == Times({b}, {24, 16, 8})  C == ShiftRight(a, 1)  D == Times({b}, {20, 12})
           E == Times({b}, {19})  F == Times({b}, {17})  G == ShiftRight({b}, 2)
<1> HIDE DEF B, C, D, E, F, G
<1>14. ASSUME NEW x
       PROVE  x \in Spread({b}) <=> x \in P
  <2>1. x \in Spread({b}) <=>
          ~ (x \in B <=> ~ (x \in a <=> ~ (x \in C <=> ~ (x \in D <=> ~ (x \in E <=> ~ (x \in F <=> x \in G))))))
    BY <1>13 DEF Xor, B, C, D, E, F, G
  <2>2. CASE x \in Nat
    <3> DEFINE d == x - b
    <3>1. d \in Int
      BY <2>2
    <3>2. x \in P <=> d \in {24, 23, 22, 20, 19, 17, 16, 14, 13, 12, 8, 2, 1, -2}
      BY <1>9, <1>11, <2>2
    <3>3. CASE x < 32
      <4>1. /\ x \in a <=> d \in {23, 14, 2}
            /\ x \in B <=> d \in {24, 16, 8}
            /\ x \in C <=> d \in {22, 13, 1}
            /\ x \in D <=> d \in {20, 12}
            /\ x \in E <=> d = 19
            /\ x \in F <=> d = 17
            /\ x \in G <=> d = -2
        BY <1>3, <1>4, <1>5, <1>6, <1>7, <1>8, <1>10, <2>2, <3>3 DEF B, C, D, E, F, G
      <4> HIDE DEF d
      <4>2. QED
        BY <2>1, <3>1, <3>2, <4>1
    <3>4. CASE ~ (x < 32)
      <4>1. x \notin a /\ x \notin B /\ x \notin D /\ x \notin E /\ x \notin F
        BY <1>3, <1>4, <1>5, <1>6, <1>7, <3>4 DEF B, D, E, F
      <4>2. d \notin {24, 23, 22, 20, 19, 17, 16, 14, 13, 12, 8, 2, 1, -2}
        BY <1>12, <2>2, <3>4
      <4>3. x \notin C /\ x \notin G
        BY <1>8, <1>10, <4>2 DEF C, G
      <4>4. QED
        BY <2>1, <3>2, <4>1, <4>2, <4>3
    <3>5. QED
      BY <3>3, <3>4
  <2>3. CASE x \notin Nat
    <3>1. x \notin a /\ x \notin B /\ x \notin C /\ x \notin D /\ x \notin E /\ x \notin F /\ x \notin G /\ x \notin P
      BY <1>3, <1>4, <1>5, <1>6, <1>7, <1>8, <1>9, <1>10, <2>3 DEF B, C, D, E, F, G
    <3>2. QED
      BY <2>1, <3>1
  <2>4. QED
    BY <2>2, <2>3
<1> QED  BY <1>14 DEF P

\* A sum is kept by the exclusive or.
Additive(f, D, E) == f \in [D -> E] /\ \A v, w \in D : f[Xor(v, w)] = Xor(f[v], f[w])

\* Two such functions of a byte that agree on its bits agree.
LEMMA SameOnBits ==
  ASSUME NEW f, NEW g, Additive(f, Byte, Word), Additive(g, Byte, Word), \A b \in 0 .. 7 : f[{b}] = g[{b}]
  PROVE  f = g
<1> DEFINE Below(k) == {w \in Byte : \A b \in w : b < k}
           S == {k \in 0 .. 8 : \A w \in Below(k) : f[w] = g[w]}
<1>1. 0 \in S
  <2>1. \A w \in Below(0) : w = {}
    <3>1. \A w \in Below(0) : \A b \in w : b \in 0 .. 7 /\ b < 0
      BY DEF Byte
    <3>2. QED
      BY <3>1
  <2>2. {} \in Byte /\ Xor({}, {}) = {} /\ Xor(f[{}], f[{}]) = {} /\ Xor(g[{}], g[{}]) = {}
    BY DEF Byte, Xor
  <2>3. f[Xor({}, {})] = Xor(f[{}], f[{}]) /\ g[Xor({}, {})] = Xor(g[{}], g[{}])
    BY <2>2, Zenon DEF Additive
  <2>4. f[{}] = g[{}]
    BY <2>2, <2>3
  <2>5. \A w \in Below(0) : f[w] = g[w]
    BY <2>1, <2>4
  <2> HIDE DEF Below
  <2>6. QED
    BY <2>5
<1>2. ASSUME NEW k \in 1 .. 8, k - 1 \in S
      PROVE  k \in S
  <2>1. ASSUME NEW w \in Below(k)
        PROVE  f[w] = g[w]
    <3> DEFINE v == w \ {k - 1}
    <3>1. v \in Below(k - 1)
      <4>1. \A b \in w : b \in Nat /\ b < k
        BY DEF Byte
      <4>2. v \in Byte
        BY DEF Byte
      <4>3. \A b \in v : b < k - 1
        BY <4>1
      <4>4. QED
        BY <4>2, <4>3
    <3>2. f[v] = g[v]
      BY <1>2, <3>1
    <3>3. CASE k - 1 \in w
      <4>1. w = Xor(v, {k - 1})
        BY <3>3 DEF Xor
      <4>2. {k - 1} \in Byte /\ v \in Byte /\ k - 1 \in 0 .. 7
        BY DEF Byte
      <4>3. f[w] = Xor(f[v], f[{k - 1}]) /\ g[w] = Xor(g[v], g[{k - 1}])
        <5> HIDE DEF v
        <5> QED  BY <4>1, <4>2 DEF Additive
      <4>4. QED
        BY <3>2, <4>2, <4>3
    <3>4. CASE k - 1 \notin w
      <4>1. w = v
        BY <3>4
      <4>2. QED
        BY <3>2, <4>1
    <3>5. QED
      BY <3>3, <3>4
  <2>2. QED
    BY <2>1
<1>3. 8 \in S
  <2> HIDE DEF S
  <2> QED  BY <1>1, <1>2, Climb, 8 \in Nat
<1>4. \A w \in Byte : w \in Below(8)
  BY DEF Byte
<1>5. \A w \in Byte : f[w] = g[w]
  BY <1>3, <1>4
<1>6. QED
  BY <1>5 DEF Additive

\* The correction for what comes back into the lowest byte.
Corrected(s) == Xor(s, {b \in ShiftLeft(s, 6, 14) : b < 8})

LEMMA InCorrected ==
  ASSUME NEW s \in Byte, NEW x
  PROVE  x \in Corrected(s) <=> ~ (x \in s <=> x \in Nat /\ x < 8 /\ x - 6 \in s)
<1>1. x \in ShiftLeft(s, 6, 14) <=> x \in Nat /\ x < 14 /\ x - 6 \in s
  BY InShiftLeft, 6 \in Nat, 14 \in Nat
<1>2. x \in Nat /\ x < 8 => x < 14
  OBVIOUS
<1>3. QED
  BY <1>1, <1>2 DEF Corrected, Xor

LEMMA CorrectionIsLinear ==
  ASSUME NEW s \in Byte, NEW t \in Byte
  PROVE  Corrected(s) \in Byte /\ Corrected(Xor(s, t)) = Xor(Corrected(s), Corrected(t))
<1>1. Xor(s, t) \in Byte
  BY XorOfBytes
<1>2. \A x : x \in Corrected(s) <=> ~ (x \in s <=> x \in Nat /\ x < 8 /\ x - 6 \in s)
  BY InCorrected
<1>3. \A x : x \in Corrected(t) <=> ~ (x \in t <=> x \in Nat /\ x < 8 /\ x - 6 \in t)
  BY InCorrected
<1>4. \A x : x \in Corrected(Xor(s, t))
               <=> ~ (x \in Xor(s, t) <=> x \in Nat /\ x < 8 /\ x - 6 \in Xor(s, t))
  BY <1>1, InCorrected
<1>5. Corrected(s) \in Byte
  <2>1. \A x \in Nat : x < 8 => x \in 0 .. 7
    OBVIOUS
  <2>2. \A x \in s : x \in 0 .. 7
    BY DEF Byte
  <2>3. \A x \in Corrected(s) : x \in 0 .. 7
    BY <1>2, <2>1, <2>2
  <2>4. QED
    BY <2>3 DEF Byte
<1>6. \A a, b, x : x \in Xor(a, b) <=> ~ (x \in a <=> x \in b)
  BY DEF Xor
<1>7. \A x : x \in Corrected(Xor(s, t)) <=> x \in Xor(Corrected(s), Corrected(t))
  BY <1>2, <1>3, <1>4, <1>6
<1>8. Corrected(Xor(s, t)) = Xor(Corrected(s), Corrected(t))
  BY <1>7
<1>9. QED
  BY <1>5, <1>8

LEMMA CorrectedBit ==
  ASSUME NEW b \in 0 .. 7
  PROVE  Corrected({b}) = IF b <= 1 THEN Xor({b}, {b + 6}) ELSE {b}
<1>1. {b} \in Byte
  BY DEF Byte
<1>2. \A x : x \in Corrected({b}) <=> ~ (x \in {b} <=> x \in Nat /\ x < 8 /\ x - 6 \in {b})
  BY <1>1, InCorrected
<1>3. \A x : x \in Nat /\ x < 8 /\ x - 6 \in {b} <=> b <= 1 /\ x = b + 6
  OBVIOUS
<1>4. QED
  BY <1>2, <1>3 DEF Xor

\* The byte without a table, as two linear maps.
LEMMA TablelessSplits ==
  ASSUME NEW crc \in Word, NEW byte \in Byte
  PROVE  /\ Xor(ByteOf(crc, 0), byte) \in Byte
         /\ Tableless[crc][byte]
              = Xor(ShiftRight(crc, 8), Spread(Corrected(Xor(ByteOf(crc, 0), byte))))
<1> DEFINE s == Xor(ByteOf(crc, 0), byte)
           low == Corrected(s)
           a == Times(low, {23, 14, 2})
           words == <<ShiftRight(crc, 8), Times(low, {24, 16, 8}), a, ShiftRight(a, 1),
                      Times(low, {20, 12}), ShiftLeft(low, 19, 32), ShiftLeft(low, 17, 32),
                      ShiftRight(low, 2)>>
<1>1. s \in Byte
  BY LowestByte, XorOfBytes
<1>2. Tableless[crc][byte] = XorAll(words)
  BY Zenon DEF Tableless, Corrected
<1>3. low \in Byte /\ low \in Word
  <2> HIDE DEF s
  <2>1. low \in Byte
    BY <1>1, CorrectionIsLinear
  <2> HIDE DEF low
  <2>2. QED
    BY <2>1, BytesAreWords
<1> DEFINE X == ShiftRight(crc, 8)  B == Times(low, {24, 16, 8})  C == ShiftRight(a, 1)
           D == Times(low, {20, 12})  E == Times(low, {19})  F == Times(low, {17})
           G == ShiftRight(low, 2)
<1>4. X \in Word
  BY ShiftRightIsWord, 8 \in Nat
<1> HIDE DEF low
<1>5. B \in Word /\ a \in Word /\ D \in Word /\ E \in Word /\ F \in Word
  BY <1>3, TimesIsLinear, ShiftsApart
<1>6. G \in Word
  BY <1>3, ShiftRightIsWord, 2 \in Nat
<1>7. C \in Word
  <2> HIDE DEF a
  <2> QED  BY <1>5, ShiftRightIsWord, 1 \in Nat
<1>8. words = <<X, B, a, C, D, E, F, G>>
  BY <1>3, OneShift, 19 \in Nat, 17 \in Nat
<1>9. Spread(low) = Xor(B, Xor(a, Xor(C, Xor(D, Xor(E, Xor(F, G))))))
  BY DEF Spread
<1> HIDE DEF X, a, B, C, D, E, F, G, words
<1>10. XorAll(words) = Xor(Xor(Xor(Xor(Xor(Xor(Xor(X, B), a), C), D), E), F), G)
  <2>1. words \in Seq(Word) /\ Len(words) = 8
    BY <1>4, <1>5, <1>6, <1>7, <1>8
  <2>2. PICK sum \in [0 .. Len(words) -> Word] :
          /\ sum[0] = {} /\ XorAll(words) = sum[Len(words)]
          /\ \A k \in 1 .. Len(words) : sum[k] = Xor(sum[k - 1], words[k])
    BY <2>1, XorAllUnfolds
  <2>3. /\ sum[1] = Xor(sum[0], words[1]) /\ sum[2] = Xor(sum[1], words[2])
        /\ sum[3] = Xor(sum[2], words[3]) /\ sum[4] = Xor(sum[3], words[4])
        /\ sum[5] = Xor(sum[4], words[5]) /\ sum[6] = Xor(sum[5], words[6])
        /\ sum[7] = Xor(sum[6], words[7]) /\ sum[8] = Xor(sum[7], words[8])
    <3>1. /\ 1 \in 1 .. Len(words) /\ 2 \in 1 .. Len(words) /\ 3 \in 1 .. Len(words)
          /\ 4 \in 1 .. Len(words) /\ 5 \in 1 .. Len(words) /\ 6 \in 1 .. Len(words)
          /\ 7 \in 1 .. Len(words) /\ 8 \in 1 .. Len(words)
      BY <2>1
    <3>2. 1 - 1 = 0 /\ 2 - 1 = 1 /\ 3 - 1 = 2 /\ 4 - 1 = 3 /\ 5 - 1 = 4 /\ 6 - 1 = 5 /\ 7 - 1 = 6 /\ 8 - 1 = 7
      OBVIOUS
    <3>3. \A k \in 1 .. Len(words) : sum[k] = Xor(sum[k - 1], words[k])
      BY <2>2
    <3>4. QED
      BY ONLY <3>1, <3>2, <3>3, Zenon
  <2>4. /\ words[1] = X /\ words[2] = B /\ words[3] = a /\ words[4] = C
        /\ words[5] = D /\ words[6] = E /\ words[7] = F /\ words[8] = G
    BY <1>8
  <2>5. Xor({}, X) = X
    BY XorAlgebra
  <2>6. QED
    BY <2>1, <2>2, <2>3, <2>4, <2>5
<1>11. \A u, v, w : Xor(Xor(u, v), w) = Xor(u, Xor(v, w))
  BY XorAlgebra
<1>12. XorAll(words) = Xor(X, Spread(low))
  BY <1>9, <1>10, <1>11
<1>13. QED
  BY <1>1, <1>2, <1>12 DEF X, low

\* Eight steps without a table.
LEMMA TablelessIsBitwise ==
  ASSUME Polynomial = Zlibs
  PROVE  Tableless = BitwiseByte
<1>1. LowBitsOfZlib /\ Polynomial \in Word
  BY DEF LowBitsOfZlib, Zlibs, Word
<1> DEFINE f == [s \in Byte |-> Spread(Corrected(s))]
<1>2. Additive(f, Byte, Word)
  <2>1. \A s \in Byte : f[s] = Spread(Corrected(s)) /\ Corrected(s) \in Byte /\ f[s] \in Word
    BY CorrectionIsLinear, SpreadIsLinear
  <2>2. \A s, t \in Byte : f[Xor(s, t)] = Xor(f[s], f[t])
    <3> TAKE s, t \in Byte
    <3>1. Xor(s, t) \in Byte
      BY XorOfBytes
    <3>2. f[Xor(s, t)] = Spread(Xor(Corrected(s), Corrected(t)))
      BY <3>1, CorrectionIsLinear
    <3>3. @ = Xor(Spread(Corrected(s)), Spread(Corrected(t)))
      BY <2>1, SpreadIsLinear
    <3>4. QED
      BY <2>1, <3>2, <3>3
  <2>3. QED
    BY <2>1, <2>2 DEF Additive
<1>3. Additive(Lookup0, Byte, Word)
  <2>1. \A s \in Byte : s \in Word
    BY BytesAreWords
  <2>2. \A s \in Byte : Lookup0[s] = Steps(s, 8) /\ Lookup0[s] \in Word
    BY <1>1, <2>1, StepsByStep, 8 \in Nat DEF Lookup0
  <2>3. \A s, t \in Byte : Lookup0[Xor(s, t)] = Xor(Lookup0[s], Lookup0[t])
    <3> TAKE s, t \in Byte
    <3>1. Xor(s, t) \in Byte
      BY XorOfBytes
    <3>2. Steps(Xor(s, t), 8) = Xor(Steps(s, 8), Steps(t, 8))
      BY <1>1, <2>1, StepsAreLinear, 8 \in Nat
    <3>3. QED
      BY <2>2, <3>1, <3>2
  <2>4. Lookup0 \in [Byte -> Word]
    <3>1. Lookup0 = [s \in Byte |-> Lookup0[s]]
      BY DEF Lookup0
    <3>2. QED
      BY <2>2, <3>1
  <2>5. QED
    BY <2>3, <2>4 DEF Additive
<1>4. ASSUME NEW b \in 0 .. 7
      PROVE  f[{b}] = Lookup0[{b}]
  <2>1. {b} \in Byte /\ b \in Nat
    BY DEF Byte
  <2>2. Lookup0[{b}] = BitTerm(b)
    BY <1>1, <2>1, EightStepsOfABit DEF Lookup0
  <2>3. f[{b}] = Spread(Corrected({b}))
    BY <2>1
  <2>4. CASE b <= 1
    <3>1. b + 6 \in 0 .. 7 /\ {b + 6} \in Byte
      BY <2>4 DEF Byte
    <3>2. Corrected({b}) = Xor({b}, {b + 6})
      BY <2>4, CorrectedBit
    <3>3. Spread(Xor({b}, {b + 6})) = Xor(Spread({b}), Spread({b + 6}))
      BY <2>1, <3>1, SpreadIsLinear
    <3>4. Spread({b}) = ShiftRight(Polynomial, 7 - b) /\ Spread({b + 6}) = ShiftRight(Polynomial, 7 - (b + 6))
      BY <3>1, SpreadOfABit
    <3>5. 7 - (b + 6) = 1 - b
      OBVIOUS
    <3>6. BitTerm(b) = Xor(ShiftRight(Polynomial, 7 - b), IF b = 0 THEN ShiftRight(Polynomial, 1) ELSE Polynomial)
      BY <2>4 DEF BitTerm
    <3>7. ShiftRight(Polynomial, 1 - b) = IF b = 0 THEN ShiftRight(Polynomial, 1) ELSE Polynomial
      <4>1. CASE b = 0
        <5>1. 1 - 0 = 1
          OBVIOUS
        <5>2. QED
          BY <4>1, <5>1
      <4>2. CASE b = 1
        <5>1. ShiftRight(Polynomial, 0) = Polynomial /\ 1 - 1 = 0
          BY <1>1, NoShift
        <5>2. QED
          BY <4>2, <5>1
      <4>3. QED
        BY <2>4, <4>1, <4>2
    <3>8. QED
      BY <2>2, <2>3, <3>2, <3>3, <3>4, <3>5, <3>6, <3>7
  <2>5. CASE ~ (b <= 1)
    <3>1. Corrected({b}) = {b}
      BY <2>5, CorrectedBit
    <3>2. QED
      BY <2>2, <2>3, <2>5, <3>1, SpreadOfABit DEF BitTerm
  <2>6. QED
    BY <2>4, <2>5
<1>5. f = Lookup0
  <2> HIDE DEF f
  <2> QED  BY <1>2, <1>3, <1>4, SameOnBits
<1>6. ASSUME NEW crc \in Word, NEW byte \in Byte
      PROVE  Tableless[crc][byte] = TableByte[crc][byte]
  <2> DEFINE s == Xor(ByteOf(crc, 0), byte)
  <2>1. s \in Byte /\ Tableless[crc][byte] = Xor(ShiftRight(crc, 8), Spread(Corrected(s)))
    BY TablelessSplits
  <2>2. f[s] = Spread(Corrected(s))
    BY <2>1
  <2>3. Lookup0[s] = Spread(Corrected(s))
    <3> HIDE DEF f
    <3> QED  BY <1>5, <2>2
  <2>4. TableByte[crc][byte] = Xor(ShiftRight(crc, 8), Lookup0[s])
    BY DEF TableByte
  <2>5. QED
    BY <2>1, <2>3, <2>4
<1>7. Tableless = TableByte
  <2>1. \A crc \in Word : Tableless[crc] = TableByte[crc]
    <3> TAKE crc \in Word
    <3>1. /\ Tableless[crc] = [byte \in Byte |-> Tableless[crc][byte]]
          /\ TableByte[crc] = [byte \in Byte |-> TableByte[crc][byte]]
      BY DEF Tableless, TableByte
    <3>2. QED
      BY <1>6, <3>1
  <2>2. Tableless = [crc \in Word |-> Tableless[crc]] /\ TableByte = [crc \in Word |-> TableByte[crc]]
    BY DEF Tableless, TableByte
  <2>3. QED
    BY <2>1, <2>2
<1>8. QED
  BY <1>1, <1>7, TableIsBitwise

-----------------------------------------------------------------------------
(* Byte after byte *)

\* The register before the first and after each byte.
IsRegister(reg, crc, data) ==
  /\ reg \in [0 .. Len(data) -> Word] /\ reg[0] = crc
  /\ \A i \in 1 .. Len(data) : reg[i] = Steps(Xor(reg[i - 1], data[i]), 8)

LEMMA OneByte ==
  ASSUME Polynomial \in Word, NEW crc \in Word, NEW byte \in Byte
  PROVE  /\ BitwiseByte[crc][byte] = Steps(Xor(crc, byte), 8)
         /\ BitwiseByte[crc][byte] \in Word
<1>1. BitwiseByte[crc][byte] = Steps(Xor(crc, byte), 8)
  BY DEF BitwiseByte
<1>2. Xor(crc, byte) \in Word
  BY LowestOfSum
<1>3. QED
  BY <1>1, <1>2, StepsByStep, 8 \in Nat

\* What the loop over the bytes computes.
LEMMA RegisterExists ==
  ASSUME Polynomial \in Word, NEW crc \in Word, NEW data \in Seq(Byte)
  PROVE  \E reg : IsRegister(reg, crc, data) /\ OverBytes(BitwiseByte, crc, data) = reg[Len(data)]
<1> DEFINE n == Len(data)
           F == [i \in 1 .. n |-> [w \in Word |-> BitwiseByte[w][data[i]]]]
           Body(r) == [i \in 0 .. n |-> IF i = 0 THEN crc ELSE BitwiseByte[r[i - 1]][data[i]]]
<1>1. n \in Nat /\ \A i \in 1 .. n : data[i] \in Byte
  OBVIOUS
<1>2. F \in [1 .. n -> [Word -> Word]]
  <2>1. \A i \in 1 .. n : \A w \in Word : BitwiseByte[w][data[i]] \in Word
    BY <1>1, OneByte
  <2>2. QED
    BY <2>1
<1> HIDE DEF n
<1>3. PICK reg : Rounds(reg, n, Word, crc, F)
  <2> HIDE DEF F
  <2> QED  BY <1>1, <1>2, Iteration
<1>4. reg \in [0 .. n -> Word] /\ reg[0] = crc
  BY <1>3 DEF Rounds
<1>5. ASSUME NEW i \in 1 .. n
      PROVE  reg[i - 1] \in Word /\ reg[i] = BitwiseByte[reg[i - 1]][data[i]]
  <2>1. i - 1 \in 0 .. n
    BY <1>1
  <2>2. reg[i - 1] \in Word
    BY <1>4, <2>1
  <2>3. reg[i] = F[i][reg[i - 1]]
    <3> HIDE DEF F
    <3> QED  BY <1>3 DEF Rounds
  <2>4. QED
    BY <2>2, <2>3
<1>6. reg = Body(reg)
  <2>1. \A i \in 0 .. n : i = 0 \/ i \in 1 .. n
    BY <1>1
  <2>2. \A i \in 0 .. n : reg[i] = IF i = 0 THEN crc ELSE BitwiseByte[reg[i - 1]][data[i]]
    BY <1>4, <1>5, <2>1
  <2>3. QED
    BY <1>4, <2>2
<1> DEFINE t == CHOOSE r : r = Body(r)
<1>7. t = Body(t)
  <2> HIDE DEF Body
  <2> QED  BY <1>6
<1>8. OverBytes(BitwiseByte, crc, data) = t[n]
  BY DEF OverBytes, n
<1> HIDE DEF t
<1>9. t[0] = crc /\ \A i \in 1 .. n : t[i] = BitwiseByte[t[i - 1]][data[i]]
  <2>1. 0 \in 0 .. n /\ \A i \in 1 .. n : i \in 0 .. n /\ i # 0
    BY <1>1
  <2>2. QED
    BY <1>7, <2>1
<1> HIDE DEF Body, F
<1> DEFINE S == {i \in 0 .. n : t[i] = reg[i]}
<1>10. n \in S
  <2>1. 0 \in S
    BY <1>1, <1>4, <1>9
  <2>2. ASSUME NEW i \in 1 .. n, i - 1 \in S
        PROVE  i \in S
    BY <1>1, <1>5, <1>9, <2>2
  <2> HIDE DEF S
  <2>3. QED
    BY <1>1, <2>1, <2>2, Climb
<1>11. \A i \in 1 .. n : reg[i] = Steps(Xor(reg[i - 1], data[i]), 8)
  BY <1>1, <1>5, OneByte
<1>12. IsRegister(reg, crc, data)
  BY <1>4, <1>11 DEF IsRegister, n
<1>13. QED
  BY <1>8, <1>10, <1>12 DEF n

LEMMA RegistersAgree ==
  ASSUME NEW r, NEW s, NEW n \in Nat, NEW crc, NEW data, NEW more,
         Len(data) \in Nat, Len(more) \in Nat, n <= Len(data), n <= Len(more),
         \A i \in 1 .. n : data[i] = more[i],
         IsRegister(r, crc, data), IsRegister(s, crc, more)
  PROVE  r[n] = s[n]
<1> DEFINE S == {i \in 0 .. n : r[i] = s[i]}
<1>1. 0 \in S
  BY DEF IsRegister
<1>2. ASSUME NEW i \in 1 .. n, i - 1 \in S
      PROVE  i \in S
  <2>1. i \in 1 .. Len(data) /\ i \in 1 .. Len(more) /\ i \in 0 .. n
    OBVIOUS
  <2>2. /\ r[i] = Steps(Xor(r[i - 1], data[i]), 8) /\ s[i] = Steps(Xor(s[i - 1], more[i]), 8)
    BY <2>1 DEF IsRegister
  <2>3. r[i - 1] = s[i - 1] /\ data[i] = more[i]
    BY <1>2
  <2>4. QED
    BY <2>1, <2>2, <2>3
<1> HIDE DEF S
<1>3. n \in S
  BY <1>1, <1>2, Climb
<1>4. QED
  BY <1>3 DEF S

\* It is the last register of any such sequence.
LEMMA RegisterOf ==
  ASSUME Polynomial \in Word, NEW crc \in Word, NEW data \in Seq(Byte),
         NEW reg, IsRegister(reg, crc, data)
  PROVE  OverBytes(BitwiseByte, crc, data) = reg[Len(data)]
<1>1. PICK r : IsRegister(r, crc, data) /\ OverBytes(BitwiseByte, crc, data) = r[Len(data)]
  BY RegisterExists
<1>2. Len(data) \in Nat /\ Len(data) <= Len(data)
  OBVIOUS
<1>3. r[Len(data)] = reg[Len(data)]
  BY <1>1, <1>2, RegistersAgree, Zenon
<1>4. QED
  BY <1>1, <1>3

LEMMA OverBytesIsWord ==
  ASSUME Polynomial \in Word, NEW crc \in Word, NEW data \in Seq(Byte)
  PROVE  OverBytes(BitwiseByte, crc, data) \in Word
<1>1. PICK reg : IsRegister(reg, crc, data) /\ OverBytes(BitwiseByte, crc, data) = reg[Len(data)]
  BY RegisterExists
<1>2. Len(data) \in 0 .. Len(data)
  OBVIOUS
<1>3. QED
  BY <1>1, <1>2 DEF IsRegister

\* From one register to a later one.
LEMMA PartOfRegister ==
  ASSUME Polynomial \in Word, NEW crc \in Word, NEW data \in Seq(Byte),
         NEW reg, IsRegister(reg, crc, data),
         NEW a \in 0 .. Len(data), NEW b \in a .. Len(data)
  PROVE  /\ SubSeq(data, a + 1, b) \in Seq(Byte) /\ Len(SubSeq(data, a + 1, b)) = b - a
         /\ reg[a] \in Word /\ reg[b] \in Word
         /\ OverBytes(BitwiseByte, reg[a], SubSeq(data, a + 1, b)) = reg[b]
<1> DEFINE n == Len(data)
           part == SubSeq(data, a + 1, b)
           r == [i \in 0 .. b - a |-> reg[a + i]]
<1>1. n \in Nat /\ a \in Nat /\ b \in Nat /\ a <= b /\ b <= n /\ b - a \in Nat /\ a \in 0 .. n /\ b \in 0 .. n
  OBVIOUS
<1>2. part \in Seq(Byte) /\ Len(part) = b - a /\ \A i \in 1 .. b - a : part[i] = data[a + i]
  <2>1. \A i \in 1 .. n : data[i] \in Byte
    OBVIOUS
  <2>2. Len(part) = b - a
    BY <1>1
  <2>3. \A i \in 1 .. b - a : part[i] = data[a + i] /\ a + i \in 1 .. n
    BY <1>1
  <2>4. part \in Seq(Byte)
    BY <1>1
  <2>5. QED
    BY <2>2, <2>3, <2>4
<1>3. reg[a] \in Word /\ reg[b] \in Word
  BY <1>1 DEF IsRegister
<1>4. IsRegister(r, reg[a], part)
  <2>1. r \in [0 .. b - a -> Word]
    <3>1. \A i \in 0 .. b - a : a + i \in 0 .. n
      BY <1>1
    <3>2. \A i \in 0 .. b - a : reg[a + i] \in Word
      BY <3>1 DEF IsRegister
    <3>3. QED
      BY <3>2
  <2>2. r[0] = reg[a]
    BY <1>1
  <2>3. ASSUME NEW i \in 1 .. b - a
        PROVE  r[i] = Steps(Xor(r[i - 1], part[i]), 8)
    <3>1. a + i \in 1 .. n /\ i \in 0 .. b - a /\ i - 1 \in 0 .. b - a /\ a + (i - 1) = (a + i) - 1
      BY <1>1
    <3>2. r[i] = reg[a + i] /\ r[i - 1] = reg[(a + i) - 1]
      BY <3>1
    <3>3. reg[a + i] = Steps(Xor(reg[(a + i) - 1], data[a + i]), 8)
      BY <3>1 DEF IsRegister
    <3>4. QED
      BY <1>2, <3>2, <3>3
  <2> HIDE DEF r, part, n
  <2>4. QED
    BY <1>2, <2>1, <2>2, <2>3 DEF IsRegister
<1>5. r[b - a] = reg[b]
  BY <1>1
<1> HIDE DEF r, part
<1>6. OverBytes(BitwiseByte, reg[a], part) = r[Len(part)]
  BY <1>2, <1>3, <1>4, RegisterOf
<1>7. QED
  BY <1>2, <1>3, <1>5, <1>6 DEF part

\* One part after the other is the whole.
LEMMA OverParts ==
  ASSUME Polynomial \in Word, NEW crc \in Word, NEW data \in Seq(Byte), NEW cut \in 0 .. Len(data)
  PROVE  /\ SubSeq(data, 1, cut) \in Seq(Byte) /\ SubSeq(data, cut + 1, Len(data)) \in Seq(Byte)
         /\ Len(SubSeq(data, 1, cut)) = cut /\ Len(SubSeq(data, cut + 1, Len(data))) = Len(data) - cut
         /\ OverBytes(BitwiseByte, OverBytes(BitwiseByte, crc, SubSeq(data, 1, cut)),
                      SubSeq(data, cut + 1, Len(data)))
              = OverBytes(BitwiseByte, crc, data)
<1>1. PICK reg : IsRegister(reg, crc, data) /\ OverBytes(BitwiseByte, crc, data) = reg[Len(data)]
  BY RegisterExists
<1>2. 0 \in 0 .. Len(data) /\ cut \in 0 .. Len(data) /\ Len(data) \in cut .. Len(data) /\ 0 + 1 = 1 /\ cut - 0 = cut
  OBVIOUS
<1>3. /\ SubSeq(data, 0 + 1, cut) \in Seq(Byte) /\ Len(SubSeq(data, 0 + 1, cut)) = cut - 0
      /\ OverBytes(BitwiseByte, reg[0], SubSeq(data, 0 + 1, cut)) = reg[cut]
  BY <1>1, <1>2, PartOfRegister
<1>4. /\ SubSeq(data, cut + 1, Len(data)) \in Seq(Byte)
      /\ Len(SubSeq(data, cut + 1, Len(data))) = Len(data) - cut
      /\ OverBytes(BitwiseByte, reg[cut], SubSeq(data, cut + 1, Len(data))) = reg[Len(data)]
  BY <1>1, <1>2, PartOfRegister
<1>5. reg[0] = crc
  BY <1>1 DEF IsRegister
<1>6. QED
  BY <1>1, <1>2, <1>3, <1>4, <1>5

-----------------------------------------------------------------------------
(* The slices *)

\* What a byte becomes that s more bytes follow.
Slice(s) == [byte \in Byte |-> Steps(byte, 8 * (s + 1))]

Slices(last) == [s \in 0 .. last |-> Slice(s)]

LEMMA SliceOfByte ==
  ASSUME Polynomial \in Word, NEW s \in Nat, NEW byte \in Byte
  PROVE  /\ Slice(s)[byte] = Steps(byte, 8 * (s + 1)) /\ Slice(s)[byte] \in Word
         /\ NextSlice(Slice(s)[byte]) = Slice(s + 1)[byte]
<1>1. Slice(s)[byte] = Steps(byte, 8 * (s + 1)) /\ Slice(s + 1)[byte] = Steps(byte, 8 * ((s + 1) + 1))
  BY DEF Slice
<1>2. byte \in Word /\ 8 * (s + 1) \in Nat /\ 8 * (s + 1) + 8 = 8 * ((s + 1) + 1)
  BY BytesAreWords
<1> DEFINE w == Steps(byte, 8 * (s + 1))
<1>3. w \in Word
  BY <1>2, StepsByStep
<1>4. Steps(w, 8) = Steps(byte, 8 * (s + 1) + 8)
  BY <1>2, StepsAdd, 8 \in Nat
<1> HIDE DEF w
<1>5. NextSlice(w) = Steps(w, 8)
  BY <1>3, ByTable DEF NextSlice
<1>6. QED
  BY <1>1, <1>2, <1>3, <1>4, <1>5 DEF w

\* The recurrence extends the slices.
LEMMA SlicesExtend ==
  ASSUME Polynomial \in Word, NEW m \in Nat, NEW last \in Nat, m <= last
  PROVE  Extended(Slices(m), m + 1 .. last) = Slices(last)
<1> DEFINE old == Slices(m)
           D == DOMAIN old \cup (m + 1 .. last)
           Next8(slice) == [byte \in Byte |-> NextSlice(slice[byte])]
           Body(f) == [s \in D |-> IF s \in DOMAIN old THEN old[s]
                                   ELSE [byte \in Byte |-> NextSlice(f[s - 1][byte])]]
           all == Slices(last)
<1>1. DOMAIN old = 0 .. m /\ D = 0 .. last
  BY DEF Slices
<1>2. \A s \in 0 .. m : old[s] = Slice(s)
  BY DEF Slices
<1>3. all = [s \in 0 .. last |-> all[s]] /\ \A s \in 0 .. last : all[s] = Slice(s)
  BY DEF Slices
<1>4. \A s \in Nat : Slice(s + 1) = [byte \in Byte |-> NextSlice(Slice(s)[byte])]
  <2> TAKE s \in Nat
  <2>1. Slice(s + 1) = [byte \in Byte |-> Slice(s + 1)[byte]]
    BY DEF Slice
  <2>2. \A byte \in Byte : NextSlice(Slice(s)[byte]) = Slice(s + 1)[byte]
    BY SliceOfByte
  <2>3. QED
    BY <2>1, <2>2
<1> HIDE DEF old, all, D
<1>5. all = Body(all)
  <2>1. ASSUME NEW s \in 0 .. last
        PROVE  all[s] = IF s \in 0 .. m THEN old[s] ELSE [byte \in Byte |-> NextSlice(all[s - 1][byte])]
    <3>1. CASE s \in 0 .. m
      BY <1>2, <1>3, <3>1
    <3>2. CASE s \notin 0 .. m
      <4>1. s - 1 \in Nat /\ s - 1 \in 0 .. last /\ (s - 1) + 1 = s
        BY <3>2
      <4>2. Slice((s - 1) + 1) = [byte \in Byte |-> NextSlice(Slice(s - 1)[byte])]
        BY <1>4, <4>1
      <4>3. all[s - 1] = Slice(s - 1) /\ all[s] = Slice(s)
        BY <1>3, <4>1
      <4>4. QED
        BY <3>2, <4>1, <4>2, <4>3
    <3>3. QED
      BY <3>1, <3>2
  <2>2. \A s \in 0 .. last :
          all[s] = IF s \in 0 .. m THEN old[s] ELSE [byte \in Byte |-> NextSlice(all[s - 1][byte])]
    BY <2>1
  <2>3. QED
    BY <1>1, <1>3, <2>2
<1> DEFINE t == CHOOSE f : f = Body(f)
<1>6. t = Body(t)
  <2> HIDE DEF Body
  <2> QED  BY <1>5
<1>7. Extended(Slices(m), m + 1 .. last) = t
  BY DEF Extended, old, D
<1> HIDE DEF t
<1>8. \A s \in 0 .. last :
        t[s] = IF s \in 0 .. m THEN old[s] ELSE [byte \in Byte |-> NextSlice(t[s - 1][byte])]
  BY <1>1, <1>6
<1>9. DOMAIN t = 0 .. last /\ t = [s \in 0 .. last |-> t[s]]
  BY <1>1, <1>6
<1> HIDE DEF Body
<1> DEFINE S == {s \in 0 .. last : t[s] = Slice(s)}
<1>10. \A s \in 0 .. last : s \in S
  <2>1. 0 \in S
    <3>1. 0 \in 0 .. m /\ 0 \in 0 .. last
      OBVIOUS
    <3>2. QED
      BY <1>2, <1>8, <3>1
  <2>2. ASSUME NEW s \in 1 .. last, s - 1 \in S
        PROVE  s \in S
    <3>1. s \in 0 .. last /\ t[s - 1] = Slice(s - 1) /\ s - 1 \in Nat /\ (s - 1) + 1 = s
      BY <2>2
    <3>2. CASE s \in 0 .. m
      BY <1>2, <1>8, <3>1, <3>2
    <3>3. CASE s \notin 0 .. m
      <4>1. t[s] = [byte \in Byte |-> NextSlice(t[s - 1][byte])]
        BY <1>8, <3>1, <3>3
      <4>2. Slice((s - 1) + 1) = [byte \in Byte |-> NextSlice(Slice(s - 1)[byte])]
        BY <1>4, <3>1
      <4>3. QED
        BY <3>1, <4>1, <4>2
    <3>4. QED
      BY <3>2, <3>3
  <2> HIDE DEF S
  <2>3. QED
    BY <2>1, <2>2, Climb
<1>11. \A s \in 0 .. last : t[s] = all[s]
  BY <1>3, <1>10
<1>12. QED
  BY <1>3, <1>7, <1>9, <1>11 DEF all

LEMMA LookupIsSlices ==
  ASSUME Polynomial \in Word
  PROVE  Lookup(4) = Slices(3) /\ Lookup(8) = Slices(7) /\ Lookup(16) = Slices(15)
<1>1. [s \in {0} |-> Lookup0] = Slices(0)
  <2>1. 0 .. 0 = {0} /\ 8 * (0 + 1) = 8
    OBVIOUS
  <2>2. Slice(0) = Lookup0
    BY <2>1 DEF Slice, Lookup0
  <2>3. QED
    BY <2>1, <2>2 DEF Slices
<1>2. SlicingBy4 = Slices(3)
  <2>1. Extended(Slices(0), 0 + 1 .. 3) = Slices(3)
    BY SlicesExtend, 0 \in Nat, 3 \in Nat, 0 <= 3
  <2>2. 0 + 1 = 1
    OBVIOUS
  <2>3. QED
    BY <1>1, <2>1, <2>2 DEF SlicingBy4
<1>3. SlicingBy8 = Slices(7)
  <2>1. Extended(Slices(3), 3 + 1 .. 7) = Slices(7)
    BY SlicesExtend, 3 \in Nat, 7 \in Nat, 3 <= 7
  <2>2. 3 + 1 = 4
    OBVIOUS
  <2>3. QED
    BY <1>2, <2>1, <2>2 DEF SlicingBy8
<1>4. SlicingBy16 = Slices(15)
  <2>1. Extended(Slices(7), 7 + 1 .. 15) = Slices(15)
    BY SlicesExtend, 7 \in Nat, 15 \in Nat, 7 <= 15
  <2>2. 7 + 1 = 8
    OBVIOUS
  <2>3. QED
    BY <1>3, <2>1, <2>2 DEF SlicingBy16
<1>5. MaxSlice(4) = 4 /\ MaxSlice(8) = 8 /\ MaxSlice(16) = 16
  BY DEF MaxSlice
<1>6. QED
  BY <1>2, <1>3, <1>4, <1>5 DEF Lookup

-----------------------------------------------------------------------------
(* A block *)

\* The bits of one byte of a word.
LEMMA ByteMoves ==
  ASSUME Polynomial \in Word, NEW w \in Word, NEW k \in Nat, NEW bits,
         bits = {b \in w : b \div 8 = k}
  PROVE  bits \in Word /\ ByteOf(w, k) \in Byte /\ Steps(bits, 8 * k) = ByteOf(w, k)
<1>1. bits \in Word /\ 8 * k \in Nat
  <2>1. bits \in Word
    BY DEF Word
  <2>2. QED
    BY <2>1
<1>2. \A b \in bits : b \in Nat /\ b \div 8 = k
  BY DEF Word
<1>3. \A b \in Nat : b \div 8 = k => b >= 8 * k /\ b - 8 * k \in 0 .. 7
  OBVIOUS
<1>4. \A b \in bits : b >= 8 * k /\ b - 8 * k \in 0 .. 7
  BY <1>2, <1>3
<1>5. Steps(bits, 8 * k) = ShiftRight(bits, 8 * k)
  BY <1>1, <1>4, StepsShift
<1>6. ShiftRight(bits, 8 * k) = {b - 8 * k : b \in bits}
  BY <1>4 DEF ShiftRight
<1>7. ByteOf(w, k) = {b - 8 * k : b \in bits}
  BY DEF ByteOf
<1>8. {b - 8 * k : b \in bits} \in Byte
  BY <1>4 DEF Byte
<1>9. QED
  BY <1>1, <1>5, <1>6, <1>7, <1>8

\* Word i of the sum is what its byte becomes at the end of the block.
AreSlices(words, crc, block) ==
  \A i \in 1 .. Len(block) :
    words[i] = Steps(Xor(block[i], ByteOf(crc, i - 1)), 8 * (Len(block) - (i - 1)))

\* All bytes of a block at once.
LEMMA SumOfSlices ==
  ASSUME Polynomial \in Word, NEW crc \in Word, NEW block \in Seq(Byte), Len(block) >= 4,
         NEW words \in Seq(Word), Len(words) = Len(block), AreSlices(words, crc, block)
  PROVE  XorAll(words) = OverBytes(BitwiseByte, crc, block)
<1> DEFINE n == Len(block)
           From(k) == {b \in crc : b >= 8 * k}
<1>1. n \in Nat /\ n >= 4 /\ \A i \in 1 .. n : block[i] \in Byte
  OBVIOUS
<1>2. \A k : From(k) \in Word
  BY DEF Word
<1>3. PICK reg : IsRegister(reg, crc, block) /\ OverBytes(BitwiseByte, crc, block) = reg[n]
  BY RegisterExists
<1>4. PICK sum \in [0 .. n -> Word] :
        /\ sum[0] = {} /\ XorAll(words) = sum[n]
        /\ \A k \in 1 .. n : sum[k] = Xor(sum[k - 1], words[k])
  BY XorAllUnfolds, ZenonT(60)
<1>5. reg \in [0 .. n -> Word] /\ reg[0] = crc /\ \A i \in 1 .. n : reg[i] = Steps(Xor(reg[i - 1], block[i]), 8)
  BY <1>3 DEF IsRegister
<1> DEFINE Holds(k) == Steps(reg[k], 8 * (n - k)) = Xor(Steps(From(k), 8 * n), sum[k])
           S == {k \in 0 .. n : Holds(k)}
<1>6. 0 \in S
  <2>1. \A b \in crc : b >= 8 * 0
    BY DEF Word
  <2>2. From(0) = crc
    BY <2>1
  <2>3. 8 * (n - 0) = 8 * n /\ 0 \in 0 .. n
    BY <1>1
  <2>4. Xor(Steps(crc, 8 * n), {}) = Steps(crc, 8 * n)
    BY XorAlgebra
  <2> HIDE DEF From, n
  <2>5. QED
    BY <1>4, <1>5, <2>2, <2>3, <2>4
<1>7. ASSUME NEW k \in 1 .. n, k - 1 \in S
      PROVE  k \in S
  <2> DEFINE r == reg[k - 1]
             byte == ByteOf(crc, k - 1)
             bits == {b \in crc : b \div 8 = k - 1}
             left == 8 * (n - (k - 1))
  <2>1. /\ k \in 0 .. n /\ k - 1 \in 0 .. n /\ k - 1 \in Nat /\ 8 * (n - k) \in Nat
        /\ left \in Nat /\ 8 + 8 * (n - k) = left /\ 8 * n \in Nat
        /\ 8 * (k - 1) \in Nat /\ 8 * (k - 1) + left = 8 * n
    BY <1>1
  <2>2. r \in Word /\ block[k] \in Byte /\ block[k] \in Word /\ reg[k] = Steps(Xor(r, block[k]), 8)
    BY <1>1, <1>5, <2>1, BytesAreWords
  <2>3. bits \in Word /\ byte \in Byte /\ byte \in Word /\ Steps(bits, 8 * (k - 1)) = byte
    <3>1. bits \in Word /\ byte \in Byte /\ Steps(bits, 8 * (k - 1)) = byte
      <4> HIDE DEF Holds, S, From, n
      <4> QED  BY <2>1, ByteMoves
    <3> HIDE DEF byte, bits
    <3>2. QED
      BY <3>1, BytesAreWords
  <2>4. Steps(r, left) = Xor(Steps(From(k - 1), 8 * n), sum[k - 1])
    BY <1>7
  <2>5. From(k - 1) = Xor(From(k), bits)
    <3>1. \A b \in crc : b \in Nat
      BY DEF Word
    <3>2. \A b \in Nat : /\ b >= 8 * (k - 1) <=> b >= 8 * k \/ b \div 8 = k - 1
                         /\ ~ (b >= 8 * k /\ b \div 8 = k - 1)
      <4> TAKE b \in Nat
      <4>1. b = 8 * (b \div 8) + (b % 8) /\ b % 8 \in 0 .. 7 /\ b \div 8 \in Nat
        OBVIOUS
      <4>2. k \in Nat
        BY <1>1
      <4>3. QED
        BY <4>1, <4>2
    <3>3. QED
      BY <3>1, <3>2 DEF Xor
  <2>6. words[k] = Steps(Xor(block[k], byte), left)
    BY DEF AreSlices
  <2> HIDE DEF r, byte, bits, left, From, n
  <2>7. Steps(bits, 8 * n) = Steps(byte, left)
    <3>1. Steps(Steps(bits, 8 * (k - 1)), left) = Steps(bits, 8 * (k - 1) + left)
      BY <2>1, <2>3, StepsAdd
    <3>2. QED
      BY <2>1, <2>3, <3>1
  <2>8. Steps(From(k - 1), 8 * n) = Xor(Steps(From(k), 8 * n), Steps(byte, left))
    BY <1>2, <2>1, <2>3, <2>5, <2>7, StepsAreLinear
  <2>9. Steps(reg[k], 8 * (n - k)) = Xor(Steps(r, left), Steps(block[k], left))
    <3>1. Xor(r, block[k]) \in Word
      BY <2>2, XorIsWord
    <3>2. Steps(Steps(Xor(r, block[k]), 8), 8 * (n - k)) = Steps(Xor(r, block[k]), 8 + 8 * (n - k))
      BY <2>1, <3>1, StepsAdd, 8 \in Nat
    <3>3. Steps(Xor(r, block[k]), left) = Xor(Steps(r, left), Steps(block[k], left))
      BY <2>1, <2>2, StepsAreLinear
    <3>4. QED
      BY <2>1, <2>2, <3>2, <3>3
  <2>10. words[k] = Xor(Steps(block[k], left), Steps(byte, left))
    BY <2>1, <2>2, <2>3, <2>6, StepsAreLinear
  <2>11. sum[k] = Xor(sum[k - 1], words[k])
    BY <1>4
  <2>12. \A a, b, c, d : Xor(Xor(Xor(a, b), c), d) = Xor(a, Xor(c, Xor(d, b)))
    BY DEF Xor
  <2>13. Holds(k)
    <3>1. Steps(reg[k], 8 * (n - k))
            = Xor(Xor(Xor(Steps(From(k), 8 * n), Steps(byte, left)), sum[k - 1]), Steps(block[k], left))
      BY <2>4, <2>8, <2>9
    <3>2. @ = Xor(Steps(From(k), 8 * n), Xor(sum[k - 1], Xor(Steps(block[k], left), Steps(byte, left))))
      BY <2>12
    <3>3. QED
      BY <2>10, <2>11, <3>1, <3>2
  <2> HIDE DEF Holds
  <2>14. QED
    BY <2>1, <2>13
<1>8. Holds(n)
  <2>1. n \in S
    <3> HIDE DEF S, n
    <3> QED  BY <1>1, <1>6, <1>7, Climb
  <2>2. QED
    BY <2>1
<1>9. From(n) = {}
  <2>1. \A b \in crc : b \in 0 .. 31
    BY DEF Word
  <2>2. \A b \in 0 .. 31 : ~ (b >= 8 * n)
    BY <1>1
  <2> HIDE DEF n
  <2>3. QED
    BY <2>1, <2>2
<1>10. reg[n] \in Word /\ 8 * (n - n) = 0 /\ 8 * n \in Nat
  BY <1>1, <1>5
<1> HIDE DEF From, n
<1>11. Steps(reg[n], 0) = Xor({}, sum[n])
  BY <1>8, <1>9, <1>10, NothingStays
<1>12. Steps(reg[n], 0) = reg[n]
  BY <1>10, StepsByStep, 0 \in Nat
<1>13. QED
  BY <1>3, <1>4, <1>11, <1>12, XorAlgebra

\* One block through the slices.
LEMMA SlicedBlockIsBitwise ==
  ASSUME Polynomial \in Word, NEW crc \in Word, NEW block \in Seq(Byte), Len(block) \in {4, 8, 16}
  PROVE  SlicedBlock(crc, block) = OverBytes(BitwiseByte, crc, block)
<1> DEFINE n == Len(block)
           byte(i) == IF i <= 4 THEN Xor(block[i], ByteOf(crc, i - 1)) ELSE block[i]
           words == [i \in 1 .. n |-> Lookup(n)[n - i][byte(i)]]
<1>1. n \in Nat /\ n >= 4 /\ \A i \in 1 .. n : block[i] \in Byte
  <2>1. \A i \in 1 .. n : block[i] \in Byte
    OBVIOUS
  <2> HIDE DEF words, byte
  <2>2. n \in Nat
    OBVIOUS
  <2>3. n = 4 \/ n = 8 \/ n = 16
    OBVIOUS
  <2> HIDE DEF n
  <2>4. n >= 4
    BY <2>3
  <2>5. QED
    BY <2>1, <2>2, <2>4 DEF n
<1>2. Lookup(n) = Slices(n - 1)
  <2>1. 4 - 1 = 3 /\ 8 - 1 = 7 /\ 16 - 1 = 15
    OBVIOUS
  <2>2. QED
    BY <2>1, LookupIsSlices
<1>3. ASSUME NEW i \in 1 .. n
      PROVE  /\ words[i] \in Word
             /\ words[i] = Steps(Xor(block[i], ByteOf(crc, i - 1)), 8 * (n - (i - 1)))
  <2>1. i - 1 \in Nat /\ n - i \in Nat /\ n - i \in 0 .. n - 1 /\ (n - i) + 1 = n - (i - 1)
    BY <1>1
  <2>2. ByteOf(crc, i - 1) \in Byte
    BY <2>1, ByteMoves
  <2>3. byte(i) = Xor(block[i], ByteOf(crc, i - 1))
    <3>1. CASE i <= 4
      BY <3>1
    <3>2. CASE ~ (i <= 4)
      <4>1. \A b \in crc : b \in 0 .. 31
        BY DEF Word
      <4>2. \A b \in 0 .. 31 : b \div 8 # i - 1
        BY <1>1, <3>2
      <4>3. ByteOf(crc, i - 1) = {}
        BY <4>1, <4>2 DEF ByteOf
      <4>4. Xor(block[i], {}) = block[i]
        BY XorAlgebra
      <4>5. QED
        BY <3>2, <4>3, <4>4
    <3>3. QED
      BY <3>1, <3>2
  <2>4. byte(i) \in Byte
    <3>1. Xor(block[i], ByteOf(crc, i - 1)) \in Byte
      BY <1>1, <2>2, XorOfBytes
    <3> HIDE DEF byte
    <3>2. QED
      BY <2>3, <3>1
  <2>5. Lookup(n)[n - i] = Slice(n - i)
    BY <1>2, <2>1 DEF Slices
  <2>6. words[i] = Slice(n - i)[byte(i)]
    BY <2>5
  <2> HIDE DEF byte, n, words
  <2>7. QED
    BY <2>1, <2>3, <2>4, <2>6, SliceOfByte
<1>4. words \in Seq(Word) /\ Len(words) = n
  <2>1. words = [i \in 1 .. n |-> words[i]]
    OBVIOUS
  <2> HIDE DEF words, n
  <2>2. words \in [1 .. n -> Word]
    BY <1>3, <2>1
  <2>3. QED
    BY <1>1, <2>2, FunctionIsSeq
<1>5. AreSlices(words, crc, block)
  <2> HIDE DEF words
  <2> QED  BY <1>3 DEF AreSlices
<1>6. SlicedBlock(crc, block) = XorAll(words)
  BY DEF SlicedBlock
<1> HIDE DEF words, byte
<1>7. QED
  BY <1>1, <1>4, <1>5, <1>6, SumOfSlices

-----------------------------------------------------------------------------
(* Blocks *)

LEMMA Multiples ==
  ASSUME NEW n \in Nat, NEW count \in Nat, NEW k \in 1 .. count
  PROVE  /\ n * (k - 1) \in Nat /\ n * k \in Nat /\ n * count \in Nat
         /\ n * k = n * (k - 1) + n /\ n * k <= n * count
<1>1. PICK d \in Nat : count = k + d
  <2>1. count - k \in Nat /\ count = k + (count - k)
    OBVIOUS
  <2>2. QED
    BY <2>1
<1>2. n * count = n * k + n * d /\ n * d \in Nat
  BY <1>1
<1>3. n * (k - 1) \in Nat /\ n * k \in Nat /\ n * count \in Nat /\ n * k = n * (k - 1) + n
  OBVIOUS
<1>4. QED
  BY <1>2, <1>3

\* What one block does is what its bytes do.
DoesBlocks(update, n) ==
  \A crc \in Word : \A block \in Seq(Byte) :
    Len(block) = n => update[crc][block] = OverBytes(BitwiseByte, crc, block)

\* The blocks and then what is left behind them are all the bytes.
LEMMA BlocksThenBehind ==
  ASSUME Polynomial \in Word, NEW crc \in Word, NEW data \in Seq(Byte), NEW n \in Nat,
         NEW count \in Nat, n * count <= Len(data), NEW update, DoesBlocks(update, n)
  PROVE  /\ OverBlocks(n, count, update, crc, data) \in Word
         /\ Behind(n, count, data) \in Seq(Byte) /\ Len(Behind(n, count, data)) = Len(data) - n * count
         /\ OverBytes(BitwiseByte, OverBlocks(n, count, update, crc, data), Behind(n, count, data))
              = OverBytes(BitwiseByte, crc, data)
<1>1. PICK reg : IsRegister(reg, crc, data) /\ OverBytes(BitwiseByte, crc, data) = reg[Len(data)]
  BY RegisterExists
<1> DEFINE Block(k) == SubSeq(data, n * (k - 1) + 1, n * k)
           Body(r) == [k \in 0 .. count |-> IF k = 0 THEN crc ELSE update[r[k - 1]][Block(k)]]
           all == [k \in 0 .. count |-> reg[n * k]]
<1>2. ASSUME NEW k \in 1 .. count
      PROVE  reg[n * k] = update[reg[n * (k - 1)]][Block(k)]
  <2> DEFINE a == n * (k - 1)  b == n * k
  <2>1. a \in Nat /\ b \in Nat /\ b = a + n /\ b <= Len(data)
    BY Multiples, n * count \in Nat
  <2>2. Block(k) = SubSeq(data, a + 1, b)
    OBVIOUS
  <2> HIDE DEF a, b, Block, Body, all
  <2>3. a \in 0 .. Len(data) /\ b \in a .. Len(data) /\ b - a = n
    BY <2>1
  <2>4. /\ Block(k) \in Seq(Byte) /\ Len(Block(k)) = n /\ reg[a] \in Word
        /\ OverBytes(BitwiseByte, reg[a], Block(k)) = reg[b]
    BY <1>1, <2>2, <2>3, PartOfRegister
  <2>5. update[reg[a]][Block(k)] = OverBytes(BitwiseByte, reg[a], Block(k))
    BY <2>4 DEF DoesBlocks
  <2>6. QED
    BY <2>4, <2>5 DEF a, b
<1>3. reg[0] = crc /\ n * 0 = 0
  BY <1>1 DEF IsRegister
<1>4. \A k \in 0 .. count : k = 0 \/ k \in 1 .. count
  OBVIOUS
<1>5. all = Body(all)
  <2>1. \A k \in 1 .. count : k - 1 \in 0 .. count /\ k \in 0 .. count
    OBVIOUS
  <2>2. \A k \in 1 .. count : all[k] = update[all[k - 1]][Block(k)]
    <3> HIDE DEF Block
    <3> QED  BY <1>2, <2>1
  <2>3. all[0] = crc
    BY <1>3
  <2> HIDE DEF Block
  <2>4. \A k \in 0 .. count : all[k] = IF k = 0 THEN crc ELSE update[all[k - 1]][Block(k)]
    <3> HIDE DEF all
    <3> QED  BY <1>4, <2>2, <2>3
  <2>5. all = [k \in 0 .. count |-> all[k]]
    OBVIOUS
  <2> HIDE DEF all
  <2>6. QED
    BY <2>4, <2>5
<1> DEFINE t == CHOOSE r : r = Body(r)
<1>6. t = Body(t)
  <2> HIDE DEF Body, all
  <2> QED  BY <1>5
<1>7. OverBlocks(n, count, update, crc, data) = t[count]
  BY DEF OverBlocks
<1> HIDE DEF t, Block
<1>8. t[0] = crc /\ \A k \in 1 .. count : t[k] = update[t[k - 1]][Block(k)]
  <2>1. 0 \in 0 .. count /\ \A k \in 1 .. count : k \in 0 .. count /\ k # 0
    OBVIOUS
  <2>2. QED
    BY <1>6, <2>1
<1> HIDE DEF Body, all
<1> DEFINE S == {k \in 0 .. count : t[k] = reg[n * k]}
<1>9. count \in S
  <2>1. 0 \in S
    BY <1>3, <1>8
  <2>2. ASSUME NEW k \in 1 .. count, k - 1 \in S
        PROVE  k \in S
    <3>1. t[k - 1] = reg[n * (k - 1)] /\ k \in 0 .. count
      BY <2>2
    <3>2. t[k] = reg[n * k]
      BY <1>2, <1>8, <3>1
    <3>3. QED
      BY <3>1, <3>2
  <2> HIDE DEF S
  <2>3. QED
    BY <2>1, <2>2, Climb
<1>10. t[count] = reg[n * count]
  BY <1>9
<1> DEFINE c == n * count
<1>11. c \in 0 .. Len(data) /\ Len(data) \in c .. Len(data)
  OBVIOUS
<1>12. Behind(n, count, data) = SubSeq(data, c + 1, Len(data))
  BY DEF Behind
<1> HIDE DEF c
<1>13. /\ SubSeq(data, c + 1, Len(data)) \in Seq(Byte) /\ Len(SubSeq(data, c + 1, Len(data))) = Len(data) - c
       /\ reg[c] \in Word
       /\ OverBytes(BitwiseByte, reg[c], SubSeq(data, c + 1, Len(data))) = reg[Len(data)]
  BY <1>1, <1>11, PartOfRegister
<1>14. QED
  BY <1>1, <1>7, <1>10, <1>12, <1>13 DEF c

LEMMA NotIsWord ==
  ASSUME NEW w
  PROVE  Not(w) \in Word /\ (w \in Word => Not(Not(w)) = w /\ Not(w) = Xor(w, Ones))
BY DEF Not, Ones, Word, Xor

\* The ways of slicing.
Slicing(n, once) ==
  \/ n = 4 /\ once = 4
  \/ n = 8 /\ (once = 8 \/ once = 32)
  \/ n = 16 /\ once = 64

\* The blocks taken are there.
LEMMA BlocksFit ==
  ASSUME NEW len \in Nat, NEW n, NEW once, Slicing(n, once), NEW least \in Nat, once <= least,
         NEW rounds, rounds = IF len < least THEN 0 ELSE (len - least) \div once + 1
  PROVE  rounds * (once \div n) \in Nat /\ n * (rounds * (once \div n)) <= len
<1>1. CASE len < least
  BY <1>1 DEF Slicing
<1>2. CASE ~ (len < least)
  <2>1. len - least \in Nat /\ rounds = (len - least) \div once + 1
    BY <1>2
  <2>2. CASE n = 4 /\ once = 4
    BY <2>1, <2>2
  <2>3. CASE n = 8 /\ once = 8
    BY <2>1, <2>3
  <2>4. CASE n = 8 /\ once = 32
    BY <2>1, <2>4
  <2>5. CASE n = 16 /\ once = 64
    BY <2>1, <2>5
  <2>6. QED
    BY <2>2, <2>3, <2>4, <2>5 DEF Slicing
<1>3. QED
  BY <1>1, <1>2

\* Slicing computes what the bytes one by one do.
LEMMA SlicedIsBitwise ==
  ASSUME Polynomial \in Word, NEW data \in Seq(Byte), NEW previous \in Word,
         NEW n, NEW once, Slicing(n, once), NEW least \in Nat, once <= least
  PROVE  Sliced(n, once, least, data, previous) = crc32_bitwise(data, previous)
<1> DEFINE rounds == IF Len(data) < least THEN 0 ELSE (Len(data) - least) \div once + 1
           blocks == rounds * (once \div n)
           block == [crc \in Word |-> [bytes \in Seq(Byte) |-> SlicedBlock(crc, bytes)]]
           sliced == OverBlocks(n, blocks, block, Not(previous), data)
<1>1. Sliced(n, once, least, data, previous) = Not(OverBytes(TableByte, sliced, Behind(n, blocks, data)))
  BY DEF Sliced
<1>2. n \in Nat /\ n \in {4, 8, 16}
  BY DEF Slicing
<1>3. blocks \in Nat /\ n * blocks <= Len(data)
  BY BlocksFit
<1>4. DoesBlocks(block, n)
  BY <1>2, SlicedBlockIsBitwise DEF DoesBlocks
<1> HIDE DEF rounds, blocks, block
<1>5. OverBytes(BitwiseByte, sliced, Behind(n, blocks, data)) = OverBytes(BitwiseByte, Not(previous), data)
  BY <1>2, <1>3, <1>4, NotIsWord, BlocksThenBehind
<1> HIDE DEF sliced
<1>6. QED
  BY <1>1, <1>5, TableIsBitwise DEF crc32_bitwise

-----------------------------------------------------------------------------
(* The instructions *)

LEMMA InstructionsKeep ==
  ASSUME Polynomial \in Word, NEW width \in {8, 4, 1}, NEW s,
         s.crc \in Word, s.left \in Seq(Byte)
  PROVE  LET t == InstructionLoop(width, s)
         IN  /\ t.crc \in Word /\ t.left \in Seq(Byte) /\ Len(t.left) = Len(s.left) % width
             /\ OverBytes(BitwiseByte, t.crc, t.left) = OverBytes(BitwiseByte, s.crc, s.left)
<1> DEFINE len == Len(s.left)
           count == len \div width
           t == InstructionLoop(width, s)
<1>1. len \in Nat
  OBVIOUS
<1>2. count \in Nat /\ width \in Nat /\ width * count <= len /\ len - width * count = len % width
  <2> HIDE DEF len
  <2>1. CASE width = 8
    BY <1>1, <2>1
  <2>2. CASE width = 4
    BY <1>1, <2>2
  <2>3. CASE width = 1
    BY <1>1, <2>3
  <2>4. QED
    BY <2>1, <2>2, <2>3
<1>3. /\ t.crc = OverBlocks(width, count, Instruction, s.crc, s.left)
      /\ t.left = Behind(width, count, s.left)
  BY DEF InstructionLoop
<1> HIDE DEF count, t
<1>4. DoesBlocks(Instruction, width)
  BY DEF DoesBlocks, Instruction
<1>5. /\ t.crc \in Word /\ t.left \in Seq(Byte) /\ Len(t.left) = len - width * count
      /\ OverBytes(BitwiseByte, t.crc, t.left) = OverBytes(BitwiseByte, s.crc, s.left)
  <2> DEFINE crc == s.crc  data == s.left
  <2>1. crc \in Word /\ data \in Seq(Byte) /\ len = Len(data)
    OBVIOUS
  <2>2. t.crc = OverBlocks(width, count, Instruction, crc, data) /\ t.left = Behind(width, count, data)
    BY <1>3
  <2> HIDE DEF crc, data, len
  <2>3. width * count <= Len(data) /\ count \in Nat /\ width \in Nat
    BY <1>2, <2>1
  <2>4. /\ OverBlocks(width, count, Instruction, crc, data) \in Word
        /\ Behind(width, count, data) \in Seq(Byte)
        /\ Len(Behind(width, count, data)) = Len(data) - width * count
        /\ OverBytes(BitwiseByte, OverBlocks(width, count, Instruction, crc, data),
                     Behind(width, count, data)) = OverBytes(BitwiseByte, crc, data)
    BY <1>4, <2>1, <2>3, BlocksThenBehind
  <2>5. QED
    BY <2>1, <2>2, <2>4 DEF crc, data
<1>6. QED
  BY <1>2, <1>5 DEF t

LEMMA NothingLeft ==
  ASSUME Polynomial \in Word, NEW crc \in Word, NEW data \in Seq(Byte), Len(data) = 0
  PROVE  OverBytes(BitwiseByte, crc, data) = crc
<1>1. PICK reg : IsRegister(reg, crc, data) /\ OverBytes(BitwiseByte, crc, data) = reg[Len(data)]
  BY RegisterExists
<1>2. QED
  BY <1>1 DEF IsRegister

\* The crc32 instructions compute the same.
LEMMA HwIsBitwise ==
  ASSUME Polynomial \in Word, NEW data \in Seq(Byte), NEW previous \in Word
  PROVE  crc32c_hw(data, previous) = crc32_bitwise(data, previous)
<1> DEFINE start  == [crc |-> Not(previous), left |-> data]
           eights == InstructionLoop(8, start)
           fours  == InstructionLoop(4, eights)
           ones   == InstructionLoop(1, fours)
<1>1. crc32c_hw(data, previous) = Not(ones.crc)
  BY DEF crc32c_hw
<1>2. start.crc \in Word /\ start.left \in Seq(Byte) /\ start.crc = Not(previous) /\ start.left = data
  BY NotIsWord
<1> HIDE DEF start
<1>3. /\ eights.crc \in Word /\ eights.left \in Seq(Byte)
      /\ OverBytes(BitwiseByte, eights.crc, eights.left) = OverBytes(BitwiseByte, start.crc, start.left)
  BY <1>2, InstructionsKeep, 8 \in {8, 4, 1}
<1> HIDE DEF eights
<1>4. /\ fours.crc \in Word /\ fours.left \in Seq(Byte)
      /\ OverBytes(BitwiseByte, fours.crc, fours.left) = OverBytes(BitwiseByte, eights.crc, eights.left)
  BY <1>3, InstructionsKeep, 4 \in {8, 4, 1}
<1> HIDE DEF fours
<1>5. /\ ones.crc \in Word /\ ones.left \in Seq(Byte) /\ Len(ones.left) = Len(fours.left) % 1
      /\ OverBytes(BitwiseByte, ones.crc, ones.left) = OverBytes(BitwiseByte, fours.crc, fours.left)
  BY <1>4, InstructionsKeep, 1 \in {8, 4, 1}
<1> HIDE DEF ones
<1>6. Len(ones.left) = 0
  <2>1. Len(fours.left) \in Nat
    BY <1>4
  <2>2. \A x \in Nat : x % 1 = 0
    OBVIOUS
  <2>3. QED
    BY <1>5, <2>1, <2>2
<1>7. OverBytes(BitwiseByte, ones.crc, ones.left) = ones.crc
  BY <1>5, <1>6, NothingLeft
<1>8. QED
  BY <1>1, <1>2, <1>3, <1>4, <1>5, <1>7 DEF crc32_bitwise

-----------------------------------------------------------------------------
(* Linear maps *)

\* The map of j zero bits.
Represents(map, j) == map \in [Ones -> Word] /\ \A b \in Ones : map[b] = Steps({b}, j)

LEMMA ApplyIsWord ==
  ASSUME NEW map \in [Ones -> Word], NEW w
  PROVE  Apply(map, w) \in Word
<1> DEFINE words == [i \in 1 .. 32 |-> IF i - 1 \in w THEN map[i - 1] ELSE {}]
<1>1. \A i \in 1 .. 32 : words[i] \in Word
  <2>1. \A i \in 1 .. 32 : i - 1 \in Ones
    BY DEF Ones
  <2>2. {} \in Word
    BY DEF Word
  <2>3. QED
    BY <2>1, <2>2
<1>2. words = [i \in 1 .. 32 |-> words[i]]
  OBVIOUS
<1>3. Apply(map, w) = XorAll(words)
  BY DEF Apply
<1> HIDE DEF words
<1>4. words \in [1 .. 32 -> Word]
  BY <1>1, <1>2
<1>5. words \in Seq(Word)
  BY ONLY <1>4, FunctionIsSeq, 32 \in Nat
<1>6. PICK sum \in [0 .. Len(words) -> Word] : XorAll(words) = sum[Len(words)]
  BY <1>5, XorAllUnfolds
<1>7. Len(words) \in 0 .. Len(words)
  BY <1>5
<1>8. QED
  BY <1>3, <1>6, <1>7

LEMMA ApplyIsSteps ==
  ASSUME Polynomial \in Word, NEW j \in Nat, NEW map, Represents(map, j), NEW w \in Word
  PROVE  Apply(map, w) = Steps(w, j)
<1> DEFINE words == [i \in 1 .. 32 |-> IF i - 1 \in w THEN map[i - 1] ELSE {}]
<1>1. \A i \in 1 .. 32 : i - 1 \in Ones
  BY DEF Ones
<1>2. \A i \in 1 .. 32 : words[i] = IF i - 1 \in w THEN Steps({i - 1}, j) ELSE {}
  BY <1>1 DEF Represents
<1>3. \A i \in 1 .. 32 : words[i] \in Word
  <2>1. {} \in Word /\ \A b \in Ones : map[b] \in Word
    BY DEF Word, Represents
  <2>2. QED
    BY <1>1, <2>1
<1>4. words = [i \in 1 .. 32 |-> words[i]]
  OBVIOUS
<1>5. Apply(map, w) = XorAll(words)
  BY DEF Apply
<1> HIDE DEF words
<1>6. words \in [1 .. 32 -> Word]
  BY <1>3, <1>4
<1>7. words \in Seq(Word) /\ Len(words) = 32
  BY ONLY <1>6, FunctionIsSeq, 32 \in Nat
<1>8. AreOfBits(words, w, j)
  BY <1>2, <1>7 DEF AreOfBits
<1>9. XorAll(words) = Steps({b \in w : b < Len(words)}, j)
  BY <1>7, <1>8, BitByBit
<1>10. {b \in w : b < 32} = w
  <2>1. \A b \in w : b \in 0 .. 31
    BY DEF Word
  <2>2. \A b \in w : b < 32
    BY <2>1
  <2>3. QED
    BY <2>2
<1>11. QED
  BY <1>5, <1>7, <1>9, <1>10

LEMMA SquareDoubles ==
  ASSUME Polynomial \in Word, NEW j \in Nat, NEW map, Represents(map, j)
  PROVE  Represents(Square(map), 2 * j)
<1>1. ASSUME NEW b \in Ones
      PROVE  Apply(map, map[b]) = Steps({b}, 2 * j) /\ Apply(map, map[b]) \in Word
  <2>1. {b} \in Word
    BY DEF Word, Ones
  <2>2. map[b] \in Word /\ map[b] = Steps({b}, j)
    BY DEF Represents
  <2>3. Apply(map, map[b]) = Steps(map[b], j)
    BY <2>2, ApplyIsSteps
  <2>4. Steps(Steps({b}, j), j) = Steps({b}, j + j)
    BY <2>1, StepsAdd
  <2>5. j + j = 2 * j /\ 2 * j \in Nat
    OBVIOUS
  <2>6. QED
    BY <2>1, <2>2, <2>3, <2>4, <2>5, StepsByStep
<1>2. QED
  BY <1>1 DEF Represents, Square

LEMMA OneZero ==
  ASSUME Polynomial \in Word
  PROVE  Represents(OneZeroBit, 1)
<1>1. ASSUME NEW b \in Ones
      PROVE  OneZeroBit[b] \in Word /\ OneZeroBit[b] = Steps({b}, 1)
  <2>1. {b} \in Word /\ b \in Nat
    BY DEF Word, Ones
  <2>2. Steps({b}, 0 + 1) = Step(Steps({b}, 0)) /\ Steps({b}, 0) = {b} /\ 0 + 1 = 1
    <3> DEFINE w == {b}
    <3>1. w \in Word /\ 0 \in Nat /\ 0 + 1 = 1
      BY <2>1
    <3> HIDE DEF w
    <3>2. Steps(w, 0 + 1) = Step(Steps(w, 0)) /\ Steps(w, 0) = w
      BY <3>1, StepsByStep
    <3>3. QED
      BY <3>1, <3>2 DEF w
  <2>3. CASE b = 0
    <3>1. ShiftRight({0}, 1) = {}
      BY DEF ShiftRight
    <3>2. Step({0}) = Xor({}, Polynomial)
      BY <3>1 DEF Step
    <3>3. OneZeroBit[b] = Polynomial
      BY <2>3 DEF OneZeroBit
    <3>4. QED
      BY <2>2, <2>3, <3>2, <3>3, XorAlgebra
  <2>4. CASE b # 0
    <3>1. ShiftRight({b}, 1) = {b - 1}
      BY <2>1, <2>4 DEF ShiftRight
    <3>2. Step({b}) = {b - 1}
      BY <2>4, <3>1 DEF Step
    <3>3. OneZeroBit[b] = {b - 1}
      BY <2>4 DEF OneZeroBit
    <3>4. {b - 1} \in Word
      BY <2>4 DEF Word, Ones
    <3>5. QED
      BY <2>2, <3>2, <3>3, <3>4
  <2>5. QED
    BY <2>3, <2>4
<1>2. OneZeroBit = [b \in Ones |-> OneZeroBit[b]]
  BY DEF OneZeroBit
<1>3. QED
  BY <1>1, <1>2 DEF Represents

LEMMA FourZeros ==
  ASSUME Polynomial \in Word
  PROVE  Represents(FourZeroBits, 4)
<1>1. Represents(Square(OneZeroBit), 2 * 1)
  BY OneZero, SquareDoubles, 1 \in Nat
<1>2. 2 * 1 = 2 /\ 2 * 2 = 4
  OBVIOUS
<1>3. Represents(Square(Square(OneZeroBit)), 2 * 2)
  BY <1>1, <1>2, SquareDoubles, 2 \in Nat
<1>4. QED
  BY <1>2, <1>3 DEF FourZeroBits

-----------------------------------------------------------------------------
(* Combining *)

CombineStates == [left : Nat, map : [Ones -> Word], crc : Word]

\* What is left to do leads to the same.
Remaining(s, total) ==
  \E u \in Nat : Represents(s.map, u) /\ Steps(s.crc, 2 * u * s.left) = total

LEMMA RoundKeeps ==
  ASSUME Polynomial \in Word, NEW s \in CombineStates
  PROVE  /\ CombineRound(s) \in CombineStates
         /\ CombineRound(s).left = s.left \div 2
         /\ \A total : Remaining(s, total) => Remaining(CombineRound(s), total)
<1> DEFINE sq == Square(s.map)
           applied == IF s.left % 2 = 1 THEN Apply(sq, s.crc) ELSE s.crc
           new == [left |-> s.left \div 2, map |-> sq, crc |-> applied]
<1>1. s.left \in Nat /\ s.map \in [Ones -> Word] /\ s.crc \in Word
  BY DEF CombineStates
<1>2. CombineRound(s) = new
  BY DEF CombineRound
<1>3. sq \in [Ones -> Word]
  BY <1>1, ApplyIsWord DEF Square
<1>4. applied \in Word
  <2> HIDE DEF sq
  <2> QED  BY <1>1, <1>3, ApplyIsWord
<1>5. s.left \div 2 \in Nat
  BY <1>1
<1>6. new \in CombineStates /\ new.left = s.left \div 2 /\ new.map = sq /\ new.crc = applied
  <2> HIDE DEF sq, applied
  <2> QED  BY <1>3, <1>4, <1>5 DEF CombineStates
<1>7. ASSUME NEW total, Remaining(s, total)
      PROVE  Remaining(new, total)
  <2>1. PICK u \in Nat : Represents(s.map, u) /\ Steps(s.crc, 2 * u * s.left) = total
    BY <1>7 DEF Remaining
  <2> DEFINE v == 2 * u  h == s.left \div 2
  <2>2. Represents(sq, v) /\ v \in Nat /\ h \in Nat
    BY <1>5, <2>1, SquareDoubles
  <2>3. Steps(applied, 2 * v * h) = total
    <3>1. CASE s.left % 2 = 1
      <4>1. applied = Steps(s.crc, v)
        <5>1. applied = Apply(sq, s.crc)
          BY <3>1
        <5> HIDE DEF v, sq, applied
        <5>2. QED
          BY <1>1, <2>2, <5>1, ApplyIsSteps
      <4>2. s.left = 2 * h + 1
        BY <1>1, <3>1
      <4> HIDE DEF h, v, applied
      <4>3. 2 * v * h \in Nat /\ v + 2 * v * h = v * (2 * h + 1)
        BY <2>2
      <4>4. Steps(Steps(s.crc, v), 2 * v * h) = Steps(s.crc, v + 2 * v * h)
        BY <1>1, <2>2, <4>3, StepsAdd
      <4>5. QED
        BY <2>1, <4>1, <4>2, <4>3, <4>4 DEF v
    <3>2. CASE s.left % 2 # 1
      <4>1. s.left = 2 * h
        BY <1>1, <3>2
      <4>2. applied = s.crc
        BY <3>2
      <4> HIDE DEF h, v, applied
      <4>3. 2 * v * h = v * (2 * h)
        BY <2>2
      <4>4. QED
        BY <2>1, <4>1, <4>2, <4>3 DEF v
    <3>3. QED
      BY <3>1, <3>2
  <2> HIDE DEF sq, applied, v, h, new
  <2>4. new.left = h
    BY <1>6 DEF h
  <2>5. QED
    BY <1>6, <2>2, <2>3, <2>4 DEF Remaining
<1> HIDE DEF new
<1>8. QED
  BY <1>2, <1>6, <1>7

\* Halved as often, a number leaves nothing.
HalvesOf(n, l) == [k \in 0 .. n |-> IF k = 0 THEN n ELSE l[k - 1] \div 2]

LEMMA HalvingEnds ==
  ASSUME NEW n \in Nat
  PROVE  LET left == CHOOSE l : l = HalvesOf(n, l)
         IN  /\ left[0] = n /\ left[n] = 0
             /\ \A k \in 1 .. n : left[k] = left[k - 1] \div 2
<1> DEFINE G == [x \in Nat |-> x \div 2]
           left == CHOOSE l : l = HalvesOf(n, l)
<1>1. G \in [Nat -> Nat]
  OBVIOUS
<1>2. PICK f : Runs(f, n, Nat, n, G)
  <2> HIDE DEF G
  <2> QED  BY <1>1, LoopExists
<1>3. f \in [0 .. n -> Nat] /\ f[0] = n /\ \A k \in 1 .. n : f[k] = G[f[k - 1]]
  BY <1>2 DEF Runs
<1>4. ASSUME NEW k \in 1 .. n
      PROVE  f[k] = f[k - 1] \div 2
  <2>1. k - 1 \in 0 .. n
    OBVIOUS
  <2>2. f[k - 1] \in Nat
    BY <1>3, <2>1
  <2>3. f[k] = G[f[k - 1]]
    <3> HIDE DEF G
    <3> QED  BY <1>3
  <2>4. QED
    BY <2>2, <2>3
<1>5. f = HalvesOf(n, f)
  <2>1. \A k \in 0 .. n : f[k] = IF k = 0 THEN n ELSE f[k - 1] \div 2
    BY <1>3, <1>4
  <2>2. QED
    BY <1>3, <2>1 DEF HalvesOf
<1>6. left = HalvesOf(n, left)
  BY <1>5
<1> HIDE DEF left
<1>7. left[0] = n /\ \A k \in 1 .. n : left[k] = left[k - 1] \div 2
  <2>1. 0 \in 0 .. n /\ \A k \in 1 .. n : k \in 0 .. n /\ k # 0
    OBVIOUS
  <2>2. QED
    BY <1>6, <2>1 DEF HalvesOf
<1> DEFINE S == {k \in 0 .. n : left[k] \in Nat /\ left[k] <= n - k}
<1>8. 0 \in S
  BY <1>7
<1>9. ASSUME NEW k \in 1 .. n, k - 1 \in S
      PROVE  k \in S
  <2>1. left[k - 1] \in Nat /\ left[k - 1] <= n - (k - 1) /\ left[k] = left[k - 1] \div 2
    BY <1>7, <1>9
  <2>2. left[k] \in Nat /\ left[k] <= n - k
    BY <2>1
  <2>3. QED
    BY <2>2
<1>10. n \in S
  <2> HIDE DEF S
  <2> QED  BY <1>8, <1>9, Climb
<1>11. left[n] = 0
  BY <1>10
<1>12. QED
  BY <1>7, <1>11 DEF left

\* The loop ends with as many zero bits as the second part has bits.
LEMMA CombineIsSteps ==
  ASSUME Polynomial \in Word, NEW crcA \in Word, NEW crcB, NEW n \in Nat
  PROVE  n # 0 => crc32_combine(crcA, crcB, n) = Xor(Steps(crcA, 8 * n), crcB)
<1> DEFINE start == [left |-> n, map |-> FourZeroBits, crc |-> crcA]
           left == CHOOSE l : l = HalvesOf(n, l)
           rounds == CHOOSE k \in 0 .. n : left[k] = 0
           G == [s \in CombineStates |-> CombineRound(s)]
           Body(r) == [k \in 0 .. rounds |-> IF k = 0 THEN start ELSE CombineRound(r[k - 1])]
           t == CHOOSE r : r = Body(r)
           total == Steps(crcA, 8 * n)
<1>1. Represents(FourZeroBits, 4)
  BY FourZeros
<1>2. start \in CombineStates /\ start.left = n /\ start.map = FourZeroBits /\ start.crc = crcA
  BY <1>1 DEF CombineStates, Represents
<1>3. Remaining(start, total)
  <2>1. 2 * 4 * n = 8 * n
    OBVIOUS
  <2>2. Represents(start.map, 4) /\ Steps(start.crc, 2 * 4 * start.left) = total
    BY <1>1, <1>2, <2>1
  <2> HIDE DEF start, total
  <2>3. QED
    BY <2>2, 4 \in Nat DEF Remaining
<1>4. G \in [CombineStates -> CombineStates]
  BY RoundKeeps
<1>5. n # 0 => crc32_combine(crcA, crcB, n) = Xor(t[rounds].crc, crcB)
  BY DEF crc32_combine, HalvesOf
<1>6. /\ left[0] = n /\ left[n] = 0
      /\ \A k \in 1 .. n : left[k] = left[k - 1] \div 2
  BY HalvingEnds
<1> HIDE DEF start, total, left
<1>7. rounds \in 0 .. n /\ left[rounds] = 0
  <2>1. n \in 0 .. n
    OBVIOUS
  <2>2. QED
    BY <1>6, <2>1
<1> HIDE DEF rounds
<1> rounds \in Nat
  BY <1>7
<1>8. PICK f : Runs(f, rounds, CombineStates, start, G)
  <2> HIDE DEF G
  <2> QED  BY <1>2, <1>4, LoopExists
<1>9. f \in [0 .. rounds -> CombineStates] /\ f[0] = start
  BY <1>8 DEF Runs
<1>10. \A k \in 1 .. rounds : f[k - 1] \in CombineStates /\ f[k] = CombineRound(f[k - 1])
  <2> TAKE k \in 1 .. rounds
  <2>1. k - 1 \in 0 .. rounds
    OBVIOUS
  <2>2. f[k] = G[f[k - 1]] /\ f[k - 1] \in CombineStates
    <3> HIDE DEF G, Body
    <3> QED  BY <1>8, <2>1 DEF Runs
  <2>3. QED
    BY <2>2
<1> HIDE DEF G
<1>11. f = Body(f)
  <2>1. \A k \in 0 .. rounds : k = 0 \/ k \in 1 .. rounds
    OBVIOUS
  <2>2. \A k \in 0 .. rounds : f[k] = IF k = 0 THEN start ELSE CombineRound(f[k - 1])
    BY <1>9, <1>10, <2>1
  <2>3. QED
    BY <1>9, <2>2
<1>12. t = Body(t)
  <2> HIDE DEF Body
  <2> QED  BY <1>11
<1> HIDE DEF t
<1>13. t[0] = start /\ \A k \in 1 .. rounds : t[k] = CombineRound(t[k - 1])
  <2>1. 0 \in 0 .. rounds /\ \A k \in 1 .. rounds : k \in 0 .. rounds /\ k # 0
    OBVIOUS
  <2>2. QED
    BY <1>12, <2>1
<1> HIDE DEF Body
<1> DEFINE S == {k \in 0 .. rounds : t[k] = f[k] /\ Remaining(f[k], total) /\ f[k].left = left[k]}
<1>14. rounds \in S
  <2>1. 0 \in S
    BY <1>2, <1>3, <1>6, <1>9, <1>13
  <2>2. ASSUME NEW k \in 1 .. rounds, k - 1 \in S
        PROVE  k \in S
    <3>1. /\ t[k - 1] = f[k - 1] /\ Remaining(f[k - 1], total) /\ f[k - 1].left = left[k - 1]
          /\ f[k - 1] \in CombineStates /\ f[k] = CombineRound(f[k - 1])
      BY <1>10, <2>2
    <3>2. t[k] = f[k]
      BY <1>13, <3>1
    <3>3. Remaining(f[k], total) /\ f[k].left = f[k - 1].left \div 2
      BY <3>1, RoundKeeps
    <3>4. k \in 1 .. n /\ k \in 0 .. rounds
      BY <1>7
    <3>5. f[k].left = left[k]
      BY <1>6, <3>1, <3>3, <3>4
    <3>6. QED
      BY <3>2, <3>3, <3>4, <3>5
  <2> HIDE DEF S
  <2>3. QED
    BY <2>1, <2>2, Climb
<1>15. /\ t[rounds] = f[rounds] /\ Remaining(f[rounds], total) /\ f[rounds].left = 0
       /\ f[rounds] \in CombineStates
  BY <1>7, <1>9, <1>14
<1>16. f[rounds].crc \in Word
  BY <1>15 DEF CombineStates
<1>17. f[rounds].crc = total
  <2>1. PICK u \in Nat : Steps(f[rounds].crc, 2 * u * f[rounds].left) = total
    BY <1>15 DEF Remaining
  <2>2. 2 * u * 0 = 0
    OBVIOUS
  <2>3. Steps(f[rounds].crc, 0) = f[rounds].crc
    BY <1>16, StepsByStep, 0 \in Nat
  <2>4. QED
    BY <1>15, <2>1, <2>2, <2>3
<1>18. QED
  BY <1>5, <1>15, <1>17 DEF total

\* Two registers differ by what their first difference becomes.
LEMMA RegistersDiffer ==
  ASSUME Polynomial \in Word, NEW v \in Word, NEW w \in Word, NEW data \in Seq(Byte)
  PROVE  Xor(OverBytes(BitwiseByte, v, data), OverBytes(BitwiseByte, w, data))
           = Steps(Xor(v, w), 8 * Len(data))
<1> DEFINE n == Len(data)
<1>1. PICK r : IsRegister(r, v, data) /\ OverBytes(BitwiseByte, v, data) = r[n]
  BY RegisterExists
<1>2. PICK s : IsRegister(s, w, data) /\ OverBytes(BitwiseByte, w, data) = s[n]
  BY RegisterExists
<1>3. n \in Nat /\ \A i \in 1 .. n : data[i] \in Byte
  OBVIOUS
<1>4. /\ r \in [0 .. n -> Word] /\ r[0] = v /\ \A i \in 1 .. n : r[i] = Steps(Xor(r[i - 1], data[i]), 8)
      /\ s \in [0 .. n -> Word] /\ s[0] = w /\ \A i \in 1 .. n : s[i] = Steps(Xor(s[i - 1], data[i]), 8)
  BY <1>1, <1>2 DEF IsRegister
<1> HIDE DEF n
<1>5. Xor(v, w) \in Word
  BY XorIsWord
<1> DEFINE S == {i \in 0 .. n : Xor(r[i], s[i]) = Steps(Xor(v, w), 8 * i)}
<1>6. 0 \in S
  <2>1. 8 * 0 = 0 /\ 0 \in 0 .. n
    BY <1>3
  <2>2. QED
    BY <1>4, <1>5, <2>1, StepsByStep, 0 \in Nat
<1>7. ASSUME NEW i \in 1 .. n, i - 1 \in S
      PROVE  i \in S
  <2>1. i \in 0 .. n /\ i - 1 \in 0 .. n /\ 8 * (i - 1) \in Nat /\ 8 * (i - 1) + 8 = 8 * i
    BY <1>3
  <2>2. r[i - 1] \in Word /\ s[i - 1] \in Word /\ data[i] \in Word
    BY <1>3, <1>4, <2>1, BytesAreWords
  <2> DEFINE a == Xor(r[i - 1], data[i])  b == Xor(s[i - 1], data[i])
  <2>3. a \in Word /\ b \in Word
    BY <2>2, XorIsWord
  <2>4. Xor(a, b) = Xor(r[i - 1], s[i - 1])
    BY DEF Xor
  <2>5. r[i] = Steps(a, 8) /\ s[i] = Steps(b, 8)
    BY <1>4
  <2> HIDE DEF a, b
  <2>6. Xor(r[i], s[i]) = Steps(Xor(a, b), 8)
    BY <2>3, <2>5, StepsAreLinear, 8 \in Nat
  <2>7. Xor(r[i - 1], s[i - 1]) = Steps(Xor(v, w), 8 * (i - 1))
    BY <1>7
  <2>8. Steps(Steps(Xor(v, w), 8 * (i - 1)), 8) = Steps(Xor(v, w), 8 * (i - 1) + 8)
    BY <1>5, <2>1, StepsAdd, 8 \in Nat
  <2>9. Xor(r[i], s[i]) = Steps(Xor(v, w), 8 * i)
    BY <2>1, <2>4, <2>6, <2>7, <2>8
  <2>10. QED
    BY <2>1, <2>9
<1>8. n \in S
  <2> HIDE DEF S
  <2> QED  BY <1>3, <1>6, <1>7, Climb
<1>9. QED
  BY <1>1, <1>2, <1>8 DEF n

LEMMA BitwiseIsWord ==
  ASSUME NEW data, NEW previous
  PROVE  crc32_bitwise(data, previous) \in Word
BY NotIsWord DEF crc32_bitwise

-----------------------------------------------------------------------------
(* Damage *)

\* A step loses nothing when the polynomial has the highest bit.
LEMMA StepKeepsOnes ==
  ASSUME Polynomial \in Word, 31 \in Polynomial, NEW w \in Word, w # {}
  PROVE  Step(w) # {}
<1>1. \A x : x \in ShiftRight(w, 1) <=> x \in Nat /\ x + 1 \in w
  BY InShiftRight, 1 \in Nat
<1>2. PICK b \in w : b \in 0 .. 31
  BY DEF Word
<1>3. CASE 0 \in w
  <2>1. 31 + 1 \notin w
    BY DEF Word
  <2>2. 31 \in Xor(ShiftRight(w, 1), Polynomial)
    BY <1>1, <2>1 DEF Xor
  <2>3. QED
    BY <1>3, <2>2 DEF Step
<1>4. CASE 0 \notin w
  <2>1. b - 1 \in Nat /\ (b - 1) + 1 \in w
    BY <1>2, <1>4
  <2>2. b - 1 \in ShiftRight(w, 1)
    BY <1>1, <2>1
  <2>3. QED
    BY <1>4, <2>2 DEF Step
<1>5. QED
  BY <1>3, <1>4

LEMMA StepsKeepOnes ==
  ASSUME Polynomial \in Word, 31 \in Polynomial, NEW w \in Word, w # {}, NEW n \in Nat
  PROVE  Steps(w, n) # {}
<1> DEFINE S == {k \in 0 .. n : Steps(w, k) # {}}
<1>1. 0 \in S
  <2>1. Steps(w, 0) = w /\ 0 \in 0 .. n
    BY StepsByStep, 0 \in Nat
  <2>2. QED
    BY <2>1
<1>2. ASSUME NEW k \in 1 .. n, k - 1 \in S
      PROVE  k \in S
  <2>1. k - 1 \in Nat /\ (k - 1) + 1 = k /\ k \in 0 .. n
    OBVIOUS
  <2>2. Steps(w, k - 1) \in Word /\ Steps(w, (k - 1) + 1) = Step(Steps(w, k - 1))
    BY <2>1, StepsByStep
  <2>3. Steps(w, k) # {}
    BY <1>2, <2>1, <2>2, StepKeepsOnes
  <2>4. QED
    BY <2>1, <2>3
<1>3. n \in S
  <2> HIDE DEF S
  <2> QED  BY <1>1, <1>2, Climb
<1> QED  BY <1>3

\* A byte in its place in a word.
IsPlaced(moved, byte, k) == moved = {b + 8 * k : b \in byte}

IsMoved(moved, byte, k) ==
  /\ moved \in Word /\ Steps(moved, 8 * k) = byte
  /\ \A x \in moved : x >= 8 * k /\ x < 8 * (k + 1)
  /\ byte # {} => moved # {}

LEMMA BytePlaced ==
  ASSUME Polynomial \in Word, NEW byte \in Byte, NEW k \in 0 .. 3, NEW moved, IsPlaced(moved, byte, k)
  PROVE  IsMoved(moved, byte, k)
<1> USE DEF IsPlaced, IsMoved
<1>1. \A b \in byte : b \in 0 .. 7
  BY DEF Byte
<1>2. \A b \in 0 .. 7 : b + 8 * k \in 0 .. 31 /\ b + 8 * k >= 8 * k /\ b + 8 * k < 8 * (k + 1)
  OBVIOUS
<1>3. moved \in Word /\ \A x \in moved : x >= 8 * k /\ x < 8 * (k + 1)
  BY <1>1, <1>2 DEF Word
<1>4. 8 * k \in Nat
  OBVIOUS
<1>5. Steps(moved, 8 * k) = ShiftRight(moved, 8 * k)
  BY <1>3, <1>4, StepsShift
<1>6. \A x : x \in ShiftRight(moved, 8 * k) <=> x \in Nat /\ x + 8 * k \in moved
  BY <1>3, <1>4, InShiftRight
<1>7. \A x \in Nat : x + 8 * k \in moved <=> x \in byte
  BY <1>1, <1>4
<1>8. \A x : x \in ShiftRight(moved, 8 * k) <=> x \in byte
  BY <1>1, <1>6, <1>7
<1>9. ShiftRight(moved, 8 * k) = byte
  BY <1>8
<1>10. QED
  BY <1>3, <1>5, <1>9

\* Two sequences that differ in some of the bytes at + 1 .. at + m and nowhere else.
DifferIn(data, more, at, m) ==
  /\ Len(more) = Len(data) /\ at \in Nat /\ m \in 1 .. 4 /\ at + m <= Len(data)
  /\ \A i \in 1 .. Len(data) : i <= at \/ i > at + m => data[i] = more[i]
  /\ \E i \in at + 1 .. at + m : data[i] # more[i]

\* What the damage has become after j of its bytes: a word that is not zero once one of
\* them was.
Became(r, s, data, more, at, j) ==
  \E w \in Word : /\ \A b \in w : b < 8 * j
                  /\ Xor(r[at + j], s[at + j]) = Steps(w, 8 * j)
                  /\ (\E i \in 1 .. j : data[at + i] # more[at + i]) => w # {}

LEMMA DamageGrows ==
  ASSUME Polynomial \in Word, NEW crc \in Word, NEW data \in Seq(Byte), NEW more \in Seq(Byte),
         NEW at, NEW m, DifferIn(data, more, at, m), NEW r, NEW s,
         IsRegister(r, crc, data), IsRegister(s, crc, more), NEW j \in 1 .. m,
         Became(r, s, data, more, at, j - 1)
  PROVE  Became(r, s, data, more, at, j)
<1> DEFINE n == Len(data)
           i == at + j
           error == Xor(data[i], more[i])
           moved == {b + 8 * (j - 1) : b \in error}
<1>1. /\ n \in Nat /\ Len(more) = n /\ at \in Nat /\ m \in 1 .. 4 /\ j \in Nat /\ j >= 1 /\ j <= m
      /\ i \in 1 .. n /\ i - 1 \in 0 .. n /\ at + (j - 1) = i - 1 /\ j - 1 \in 0 .. 3 /\ 8 * (j - 1) \in Nat
      /\ 8 * (j - 1) + 8 = 8 * j /\ (j - 1) + 1 = j
  BY DEF DifferIn
<1>2. PICK w \in Word :
        /\ \A b \in w : b < 8 * (j - 1)
        /\ Xor(r[at + (j - 1)], s[at + (j - 1)]) = Steps(w, 8 * (j - 1))
        /\ (\E k \in 1 .. j - 1 : data[at + k] # more[at + k]) => w # {}
  BY DEF Became
<1>3. data[i] \in Byte /\ more[i] \in Byte /\ data[i] \in Word /\ more[i] \in Word
  <2>1. data[i] \in Byte
    BY <1>1
  <2>2. more[i] \in Byte
    BY <1>1
  <2>3. QED
    BY <2>1, <2>2, BytesAreWords
<1>4. error \in Byte /\ (data[i] # more[i] => error # {})
  <2>1. error \in Byte
    BY <1>3, XorOfBytes
  <2>2. data[i] # more[i] => error # {}
    BY DEF Xor
  <2>3. QED
    BY <2>1, <2>2
<1> HIDE DEF error
<1>5. /\ moved \in Word /\ Steps(moved, 8 * (j - 1)) = error
      /\ \A x \in moved : x >= 8 * (j - 1) /\ x < 8 * ((j - 1) + 1)
      /\ error # {} => moved # {}
  <2> DEFINE k == j - 1
  <2>1. k \in 0 .. 3 /\ error \in Byte
    BY <1>1, <1>4
  <2>2. IsPlaced(moved, error, k)
    BY DEF IsPlaced
  <2> HIDE DEF k, moved
  <2>3. IsMoved(moved, error, k)
    BY <2>1, <2>2, BytePlaced
  <2>4. QED
    BY <2>3 DEF IsMoved, k
<1> HIDE DEF moved, i
<1>6. /\ r[i - 1] \in Word /\ r[i] = Steps(Xor(r[i - 1], data[i]), 8)
      /\ s[i - 1] \in Word /\ s[i] = Steps(Xor(s[i - 1], more[i]), 8)
  <2> HIDE DEF n
  <2>1. i \in 1 .. Len(data) /\ i - 1 \in 0 .. Len(data) /\ i \in 1 .. Len(more) /\ i - 1 \in 0 .. Len(more)
    BY <1>1 DEF n
  <2>2. QED
    BY <2>1 DEF IsRegister
<1> DEFINE a == Xor(r[i - 1], data[i])
           b == Xor(s[i - 1], more[i])
           d == Xor(r[i - 1], s[i - 1])
           u == Xor(w, moved)
<1>7. a \in Word /\ b \in Word /\ d \in Word /\ u \in Word /\ error \in Word
  BY <1>3, <1>4, <1>5, <1>6, XorIsWord, BytesAreWords
<1>8. Xor(a, b) = Xor(d, error)
  BY DEF Xor, error
<1>9. \A x \in u : x < 8 * j
  <2>1. \A x \in w : x \in Int /\ x < 8 * (j - 1)
    BY <1>2 DEF Word
  <2>2. \A x \in u : x \in w \/ x \in moved
    BY DEF Xor
  <2>3. 8 * ((j - 1) + 1) = 8 * j /\ \A x \in Int : x < 8 * (j - 1) => x < 8 * j
    BY <1>1
  <2>4. QED
    BY <1>5, <2>1, <2>2, <2>3
<1>10. w # {} \/ moved # {} => u # {}
  <2>1. \A x \in w : x \notin moved
    <3>1. \A x \in w : x \in Int /\ x < 8 * (j - 1)
      BY <1>2 DEF Word
    <3>2. \A x \in Int : ~ (x < 8 * (j - 1) /\ x >= 8 * (j - 1))
      BY <1>1
    <3>3. QED
      BY <1>5, <3>1, <3>2
  <2>2. QED
    BY <2>1 DEF Xor
<1>11. d = Steps(w, 8 * (j - 1))
  BY <1>1, <1>2
<1>12. r[i] = Steps(a, 8) /\ s[i] = Steps(b, 8)
  BY <1>6
<1> HIDE DEF a, b, d, u
<1>13. Xor(r[i], s[i]) = Steps(u, 8 * j)
  <2>1. Xor(r[i], s[i]) = Steps(Xor(a, b), 8)
    BY <1>7, <1>12, StepsAreLinear, 8 \in Nat
  <2>2. Steps(u, 8 * (j - 1)) = Xor(d, error)
    <3>1. Steps(Xor(w, moved), 8 * (j - 1)) = Xor(Steps(w, 8 * (j - 1)), Steps(moved, 8 * (j - 1)))
      BY <1>1, <1>5, StepsAreLinear
    <3>2. QED
      BY <1>5, <1>11, <3>1 DEF u
  <2>3. Steps(Steps(u, 8 * (j - 1)), 8) = Steps(u, 8 * (j - 1) + 8)
    BY <1>1, <1>7, StepsAdd, 8 \in Nat
  <2>4. QED
    BY <1>1, <1>8, <2>1, <2>2, <2>3
<1>14. (\E k \in 1 .. j : data[at + k] # more[at + k]) => u # {}
  <2>1. \A k \in 1 .. j : k \in 1 .. j - 1 \/ k = j
    BY <1>1
  <2>2. data[at + j] # more[at + j] => moved # {}
    BY <1>4, <1>5 DEF i
  <2>3. QED
    BY <1>2, <1>10, <2>1, <2>2
<1>15. Xor(r[at + j], s[at + j]) = Steps(u, 8 * j)
  BY <1>13 DEF i
<1>16. QED
  BY <1>7, <1>9, <1>14, <1>15 DEF Became

\* Damage of up to four neighbouring bytes changes the checksum.
LEMMA BurstChangesChecksum ==
  ASSUME Polynomial \in Word, 31 \in Polynomial, NEW crc \in Word,
         NEW data \in Seq(Byte), NEW more \in Seq(Byte), NEW at, NEW m, DifferIn(data, more, at, m)
  PROVE  OverBytes(BitwiseByte, crc, data) # OverBytes(BitwiseByte, crc, more)
<1> DEFINE n == Len(data)
<1>1. PICK r : IsRegister(r, crc, data) /\ OverBytes(BitwiseByte, crc, data) = r[Len(data)]
  BY RegisterExists
<1>2. PICK s : IsRegister(s, crc, more) /\ OverBytes(BitwiseByte, crc, more) = s[Len(more)]
  BY RegisterExists
<1>3. n \in Nat /\ Len(more) = n /\ at \in Nat /\ m \in 1 .. 4 /\ m \in Nat /\ at + m <= n /\ at <= n /\ at \in 0 .. n
  BY DEF DifferIn
<1>4. r[at] = s[at]
  <2>1. \A i \in 1 .. at : data[i] = more[i]
    BY <1>3 DEF DifferIn
  <2>2. Len(data) \in Nat /\ Len(more) \in Nat /\ at <= Len(data) /\ at <= Len(more)
    BY <1>3
  <2>3. QED
    BY <1>1, <1>2, <1>3, <2>1, <2>2, RegistersAgree
<1> HIDE DEF n
<1> DEFINE S == {j \in 0 .. m : Became(r, s, data, more, at, j)}
<1>5. m \in S
  <2>1. 0 \in S
    <3>1. {} \in Word /\ at + 0 = at /\ 8 * 0 = 0 /\ 0 \in 0 .. m /\ 1 .. 0 = {}
      BY <1>3 DEF Word
    <3>2. Xor(r[at], s[at]) = {} /\ Steps({}, 0) = {}
      BY <1>4, <3>1, XorAlgebra, StepsByStep, 0 \in Nat
    <3>3. Became(r, s, data, more, at, 0)
      BY <3>1, <3>2 DEF Became
    <3>4. QED
      BY <3>1, <3>3
  <2>2. ASSUME NEW j \in 1 .. m, j - 1 \in S
        PROVE  j \in S
    BY <1>1, <1>2, <2>2, DamageGrows
  <2> HIDE DEF S
  <2>3. QED
    BY <1>3, <2>1, <2>2, Climb
<1>6. PICK w \in Word : /\ Xor(r[at + m], s[at + m]) = Steps(w, 8 * m)
                        /\ (\E i \in 1 .. m : data[at + i] # more[at + i]) => w # {}
  BY <1>5 DEF Became
<1>7. w # {}
  <2>1. PICK i \in at + 1 .. at + m : data[i] # more[i]
    BY DEF DifferIn
  <2>2. i - at \in 1 .. m /\ at + (i - at) = i
    BY <1>3
  <2>3. QED
    BY <1>6, <2>1, <2>2
<1>8. r[at + m] # s[at + m]
  <2>1. Steps(w, 8 * m) # {}
    BY <1>3, <1>7, StepsKeepOnes, 8 * m \in Nat
  <2>2. \A a : Xor(a, a) = {}
    BY DEF Xor
  <2>3. QED
    BY <1>6, <2>1, <2>2
<1> DEFINE rest == n - (at + m)
           T == {k \in 0 .. rest : r[at + m + k] # s[at + m + k]}
<1>9. rest \in Nat /\ at + m + rest = n
  BY <1>3
<1> HIDE DEF rest
<1>10. rest \in T
  <2>1. 0 \in T
    <3>1. at + m + 0 = at + m /\ 0 \in 0 .. rest
      BY <1>3, <1>9
    <3>2. QED
      BY <1>8, <3>1
  <2>2. ASSUME NEW k \in 1 .. rest, k - 1 \in T
        PROVE  k \in T
    <3> DEFINE i == at + m + k
    <3>1. i \in 1 .. n /\ i - 1 \in 0 .. n /\ at + m + (k - 1) = i - 1 /\ i > at + m /\ k \in 0 .. rest
      BY <1>3, <1>9
    <3>2. i \in 1 .. Len(data) /\ i \in 1 .. Len(more) /\ i - 1 \in 0 .. Len(data) /\ i - 1 \in 0 .. Len(more)
      BY <1>3, <3>1 DEF n
    <3> HIDE DEF i
    <3>3. /\ r[i - 1] \in Word /\ r[i] = Steps(Xor(r[i - 1], data[i]), 8)
          /\ s[i - 1] \in Word /\ s[i] = Steps(Xor(s[i - 1], more[i]), 8)
      BY <1>1, <1>2, <3>2 DEF IsRegister
    <3>4. data[i] = more[i]
      BY <3>1, <3>2 DEF DifferIn
    <3>5. data[i] \in Word
      <4>1. data[i] \in Byte
        BY <3>2
      <4>2. QED
        BY <4>1, BytesAreWords
    <3> DEFINE a == Xor(r[i - 1], data[i])
               b == Xor(s[i - 1], data[i])
               d == Xor(r[i - 1], s[i - 1])
    <3>6. a \in Word /\ b \in Word /\ d \in Word
      BY <3>3, <3>5, XorIsWord
    <3>7. Xor(a, b) = d
      BY DEF Xor
    <3>8. d # {}
      <4>1. r[i - 1] # s[i - 1]
        BY <2>2, <3>1
      <4>2. QED
        BY <4>1 DEF Xor
    <3>9. r[i] = Steps(a, 8) /\ s[i] = Steps(b, 8)
      BY <3>3, <3>4
    <3> HIDE DEF a, b, d
    <3>10. Xor(r[i], s[i]) = Steps(d, 8)
      BY <3>6, <3>7, <3>9, StepsAreLinear, 8 \in Nat
    <3>11. Steps(d, 8) # {}
      BY <3>6, <3>8, StepsKeepOnes, 8 \in Nat
    <3>12. r[i] # s[i]
      <4>1. \A x : Xor(x, x) = {}
        BY DEF Xor
      <4>2. QED
        BY <3>10, <3>11, <4>1
    <3>13. QED
      BY <3>1, <3>12 DEF i
  <2> HIDE DEF T
  <2>3. QED
    BY <1>9, <2>1, <2>2, Climb
<1>11. r[n] # s[n]
  BY <1>9, <1>10
<1>12. QED
  BY <1>1, <1>2, <1>3, <1>11 DEF n

-----------------------------------------------------------------------------
(* All implementations *)

\* Every implementation of the library's checksum computes what the division bit by bit
\* does, for any bytes and any checksum of what went before (Crc32.cpp:144-694).
THEOREM LibraryIsBitwise ==
  ASSUME Polynomial = Zlibs, NEW data \in Seq(Byte), NEW previous \in Word, NEW ahead \in Nat
  PROVE  LET bitwise == crc32_bitwise(data, previous)
         IN  /\ crc32_halfbyte(data, previous) = bitwise
             /\ crc32_1byte(data, previous) = bitwise
             /\ crc32_1byte_tableless(data, previous) = bitwise
             /\ crc32_1byte_tableless2(data, previous) = bitwise
             /\ crc32_4bytes(data, previous) = bitwise
             /\ crc32_8bytes(data, previous) = bitwise
             /\ crc32_4x8bytes(data, previous) = bitwise
             /\ crc32_16bytes(data, previous) = bitwise
             /\ crc32_16bytes_prefetch(data, previous, ahead) = bitwise
             /\ crc32_fast(data, previous) = bitwise
<1>1. LowBitsOfZlib /\ Polynomial \in Word
  BY DEF LowBitsOfZlib, Zlibs, Word
<1>2. crc32_halfbyte(data, previous) = crc32_bitwise(data, previous)
  BY <1>1, HalvesAreBitwise DEF crc32_halfbyte, crc32_bitwise
<1>3. crc32_1byte(data, previous) = crc32_bitwise(data, previous)
  BY <1>1, TableIsBitwise DEF crc32_1byte, crc32_bitwise
<1>4. crc32_1byte_tableless(data, previous) = crc32_bitwise(data, previous)
  BY TablelessIsBitwise DEF crc32_1byte_tableless, crc32_bitwise
<1>5. crc32_1byte_tableless2(data, previous) = crc32_bitwise(data, previous)
  BY <1>1, Tableless2IsBitwise DEF crc32_1byte_tableless2, crc32_bitwise
<1>6. ASSUME NEW n, NEW once, Slicing(n, once), NEW least \in Nat, once <= least
      PROVE  Sliced(n, once, least, data, previous) = crc32_bitwise(data, previous)
  BY <1>1, <1>6, SlicedIsBitwise
<1>7. Slicing(4, 4) /\ Slicing(8, 8) /\ Slicing(8, 32) /\ Slicing(16, 64)
  BY DEF Slicing
<1>8. /\ 4 \in Nat /\ 4 <= 4 /\ 8 \in Nat /\ 8 <= 8 /\ 32 \in Nat /\ 32 <= 32
      /\ 64 \in Nat /\ 64 <= 64 /\ 64 + ahead \in Nat /\ 64 <= 64 + ahead
  OBVIOUS
<1>9. /\ Sliced(4, 4, 4, data, previous) = crc32_bitwise(data, previous)
      /\ Sliced(8, 8, 8, data, previous) = crc32_bitwise(data, previous)
      /\ Sliced(8, 32, 32, data, previous) = crc32_bitwise(data, previous)
      /\ Sliced(16, 64, 64, data, previous) = crc32_bitwise(data, previous)
      /\ Sliced(16, 64, 64 + ahead, data, previous) = crc32_bitwise(data, previous)
  BY <1>6, <1>7, <1>8
<1>10. QED
  BY <1>2, <1>3, <1>4, <1>5, <1>9
     DEF crc32_4bytes, crc32_8bytes, crc32_4x8bytes, crc32_16bytes, crc32_16bytes_prefetch, crc32_fast

\* Both ways of the datagrams' checksum, the processor's instructions and the eight
\* slices, compute that of the division bit by bit (crc32c.h:44-105).
THEOREM InstructionsAndSlicesAgree ==
  ASSUME Polynomial \in Word, NEW data \in Seq(Byte), NEW previous \in Word
  PROVE  /\ crc32c_hw(data, previous) = crc32_bitwise(data, previous)
         /\ crc32c_sw(data, previous) = crc32_bitwise(data, previous)
<1>1. Slicing(8, 8) /\ 8 \in Nat /\ 8 <= 8
  BY DEF Slicing
<1>2. Sliced(8, 8, 8, data, previous) = crc32_bitwise(data, previous)
  BY <1>1, SlicedIsBitwise
<1>3. QED
  BY <1>2, HwIsBitwise DEF crc32c_sw

\* What holds of the checksum of data that is cut in two: continued from the first
\* part's, or combined from both.
ContinuedAndCombined(data, cut) ==
  LET first == crc32_bitwise(SubSeq(data, 1, cut), {})
      rest  == SubSeq(data, cut + 1, Len(data))
  IN  /\ rest \in Seq(Byte) /\ SubSeq(data, 1, cut) \in Seq(Byte)
      /\ crc32_bitwise(rest, first) = crc32_bitwise(data, {})
      /\ crc32_combine(first, crc32_bitwise(rest, {}), Len(rest)) = crc32_bitwise(data, {})

\* Wherever the data is cut, the checksum of the two parts is that of the whole
\* (Crc32.cpp:144-170 and 593-694).
THEOREM PartsAgree ==
  ASSUME Polynomial \in Word, NEW data \in Seq(Byte), NEW cut \in 0 .. Len(data)
  PROVE  ContinuedAndCombined(data, cut)
<1> DEFINE first == crc32_bitwise(SubSeq(data, 1, cut), {})
           rest  == SubSeq(data, cut + 1, Len(data))
<1>0. first = crc32_bitwise(SubSeq(data, 1, cut), {}) /\ rest = SubSeq(data, cut + 1, Len(data))
  OBVIOUS
<1> HIDE DEF first, rest
<1> DEFINE n == Len(rest)
           v == OverBytes(BitwiseByte, Not({}), SubSeq(data, 1, cut))
<1>1. /\ SubSeq(data, 1, cut) \in Seq(Byte) /\ rest \in Seq(Byte) /\ n = Len(data) - cut
      /\ Not({}) \in Word
      /\ OverBytes(BitwiseByte, v, rest) = OverBytes(BitwiseByte, Not({}), data)
  BY <1>0, OverParts, NotIsWord
<1>2. v \in Word /\ n \in Nat
  <2>1. n \in Nat
    BY <1>1
  <2> DEFINE part == SubSeq(data, 1, cut)
  <2>2. part \in Seq(Byte)
    BY <1>1
  <2> HIDE DEF part, n
  <2>3. OverBytes(BitwiseByte, Not({}), part) \in Word
    BY <1>1, <2>2, OverBytesIsWord
  <2>4. QED
    BY <2>1, <2>3 DEF part
<1>3. first = Not(v) /\ first \in Word
  BY <1>0, NotIsWord DEF crc32_bitwise
<1> HIDE DEF v
<1>4. Not(first) = v
  BY <1>2, <1>3, NotIsWord
<1>5. crc32_bitwise(rest, first) = crc32_bitwise(data, {})
  BY <1>1, <1>4 DEF crc32_bitwise
<1>6. crc32_combine(first, crc32_bitwise(rest, {}), n) = crc32_bitwise(data, {})
  <2>1. CASE n = 0
    <3>1. crc32_combine(first, crc32_bitwise(rest, {}), n) = first
      BY <2>1 DEF crc32_combine
    <3>2. OverBytes(BitwiseByte, v, rest) = v
      BY <1>1, <1>2, <2>1, NothingLeft
    <3>3. crc32_bitwise(data, {}) = Not(v)
      BY <1>1, <3>2 DEF crc32_bitwise
    <3>4. QED
      BY <1>3, <3>1, <3>3
  <2>2. CASE n # 0
    <3> DEFINE a == OverBytes(BitwiseByte, v, rest)
               b == OverBytes(BitwiseByte, Not({}), rest)
    <3>1. crc32_combine(first, crc32_bitwise(rest, {}), n) = Xor(Steps(first, 8 * n), Not(b))
      BY <1>2, <1>3, <2>2, CombineIsSteps DEF crc32_bitwise
    <3>2. Xor(a, b) = Steps(Xor(v, Not({})), 8 * n)
      BY <1>1, <1>2, RegistersDiffer
    <3>3. Xor(v, Not({})) = first
      <4>1. Not({}) = Ones
        BY DEF Not
      <4>2. Not(v) = Xor(v, Ones)
        BY <1>2, NotIsWord
      <4>3. QED
        BY <1>3, <4>1, <4>2
    <3>4. a \in Word /\ b \in Word
      BY <1>1, <1>2, OverBytesIsWord
    <3>5. crc32_bitwise(data, {}) = Not(a)
      BY <1>1 DEF crc32_bitwise
    <3> HIDE DEF a, b, n
    <3>6. Not(a) = Xor(a, Ones) /\ Not(b) = Xor(b, Ones)
      BY <3>4, NotIsWord
    <3>7. Xor(Xor(a, b), Xor(b, Ones)) = Xor(a, Ones)
      BY DEF Xor
    <3>8. QED
      BY <3>1, <3>2, <3>3, <3>5, <3>6, <3>7
  <2>3. QED
    BY <2>1, <2>2
<1>7. QED
  BY <1>1, <1>5, <1>6, Zenon DEF ContinuedAndCombined, first, rest, n

\* What damages at least one of up to four neighbouring bytes and no others changes
\* the checksum.
THEOREM BurstIsNoticed ==
  ASSUME Polynomial \in Word, 31 \in Polynomial, NEW data \in Seq(Byte), NEW more \in Seq(Byte),
         NEW at, NEW m, DifferIn(data, more, at, m)
  PROVE  crc32_bitwise(data, {}) # crc32_bitwise(more, {})
<1> DEFINE a == OverBytes(BitwiseByte, Not({}), data)
           b == OverBytes(BitwiseByte, Not({}), more)
<1>1. Not({}) \in Word
  BY NotIsWord
<1>2. a # b
  BY <1>1, BurstChangesChecksum
<1>3. a \in Word /\ b \in Word
  BY <1>1, OverBytesIsWord
<1>4. crc32_bitwise(data, {}) = Not(a) /\ crc32_bitwise(more, {}) = Not(b)
  BY Zenon DEF crc32_bitwise
<1> HIDE DEF a, b
<1>5. Not(Not(a)) = a /\ Not(Not(b)) = b
  BY <1>3, NotIsWord
<1> QED  BY <1>2, <1>4, <1>5

-----------------------------------------------------------------------------
(* The path of an entry through the heap *)

\* A walk over the places D: from every place that is not in stop to the place next
\* says, which has a lower rank.
Walk(D, stop, nxt, rank) ==
  /\ nxt \in [D -> D]
  /\ rank \in [D -> Nat]
  /\ \A j \in D : j \notin stop => rank[nxt[j]] < rank[j]

IsPath(path, D, stop, nxt) ==
  path = [j \in D |-> IF j \in stop THEN {j} ELSE {j} \cup path[nxt[j]]]

\* A walk that moves to another element until it stops is a path that ends.
LEMMA PathExists ==
  ASSUME NEW D, NEW stop, NEW nxt, NEW rank, Walk(D, stop, nxt, rank),
         NEW most \in Nat, \A j \in D : rank[j] < most
  PROVE  \E path : IsPath(path, D, stop, nxt)
<1> DEFINE Move(g, j) == IF j \in stop THEN {j} ELSE {j} \cup g[nxt[j]]
           Below(m) == {j \in D : rank[j] < m}
           Solves(g, m) == g = [j \in Below(m) |-> Move(g, j)]
           unsolved == {m \in Nat : ~ \E g : Solves(g, m)}
<1>1. unsolved = {}
  <2>1. SUFFICES ASSUME unsolved # {} PROVE FALSE
    OBVIOUS
  <2>2. PICK m \in unsolved : \A n \in unsolved : m <= n
    BY <2>1, LeastElement
  <2>3. m \in Nat /\ ~ \E g : Solves(g, m)
    BY <2>2
  <2>4. CASE m = 0
    <3>1. Below(0) = {}
      BY DEF Walk
    <3>2. Solves([j \in {} |-> {}], 0)
      BY <3>1
    <3>3. QED
      BY <2>3, <2>4, <3>2
  <2>5. CASE m # 0
    <3>1. m - 1 \in Nat /\ ~ (m <= m - 1)
      BY <2>3, <2>5
    <3>2. PICK g : Solves(g, m - 1)
      BY <2>2, <3>1
    <3> DEFINE h == [j \in Below(m) |-> Move(g, j)]
    <3>3. ASSUME NEW j \in Below(m - 1)
          PROVE  j \in Below(m) /\ h[j] = g[j]
      <4>1. j \in Below(m)
        BY <2>3 DEF Walk
      <4>2. h[j] = Move(g, j)
        BY <4>1
      <4> HIDE DEF Move, h, Below
      <4>3. g[j] = Move(g, j)
        BY <3>2
      <4>4. QED
        BY <4>1, <4>2, <4>3
    <3>4. ASSUME NEW j \in Below(m), j \notin stop
          PROVE  nxt[j] \in Below(m - 1)
      BY <2>3, <3>4 DEF Walk
    <3>5. ASSUME NEW j \in Below(m)
          PROVE  Move(g, j) = Move(h, j)
      <4>1. j \notin stop => h[nxt[j]] = g[nxt[j]]
        <5> HIDE DEF h, Below
        <5> QED  BY <3>3, <3>4
      <4> HIDE DEF h
      <4>2. QED
        BY <4>1
    <3>6. Solves(h, m)
      <4>1. h = [j \in Below(m) |-> Move(g, j)]
        OBVIOUS
      <4> HIDE DEF h, Move, Below
      <4>2. QED
        BY <3>5, <4>1
    <3>7. QED
      BY <2>3, <3>6
  <2>6. QED
    BY <2>4, <2>5
<1>2. PICK g : Solves(g, most)
  BY <1>1
<1>3. Below(most) = D
  OBVIOUS
<1>4. IsPath(g, D, stop, nxt)
  BY <1>2, <1>3 DEF IsPath
<1> QED  BY <1>4

\* What a walk from k passes: never the same place twice, and never k again.
LEMMA PathFacts ==
  ASSUME NEW D, NEW stop, NEW nxt, NEW rank, Walk(D, stop, nxt, rank),
         NEW path, IsPath(path, D, stop, nxt), NEW k \in D
  PROVE  LET P == path[k]
         IN  /\ P \subseteq D /\ k \in P
             /\ \A i \in P : i \notin stop => nxt[i] \in P
             /\ \A i \in P : rank[i] <= rank[k]
             /\ \A i \in P : i # k => \E j \in P : j \notin stop /\ nxt[j] = i
             /\ \E i \in P : i \in stop
             /\ \A i, j \in P : i # j /\ rank[i] <= rank[j] =>
                                  j \notin stop /\ rank[i] <= rank[nxt[j]]
<1> DEFINE Good(c) ==
             LET P == path[c]
             IN  /\ P \subseteq D /\ c \in P
                 /\ \A i \in P : i \notin stop => nxt[i] \in P
                 /\ \A i \in P : rank[i] <= rank[c]
                 /\ \A i \in P : i # c => \E j \in P : j \notin stop /\ nxt[j] = i
                 /\ \E i \in P : i \in stop
                 /\ \A i, j \in P : i # j /\ rank[i] <= rank[j] =>
                                      j \notin stop /\ rank[i] <= rank[nxt[j]]
           bad == {c \in D : ~ Good(c)}
           ranks == {rank[c] : c \in bad}
<1>1. bad = {}
  <2>1. SUFFICES ASSUME bad # {} PROVE FALSE
    OBVIOUS
  <2>2. ranks \subseteq Nat /\ ranks # {}
    BY <2>1 DEF Walk
  <2>3. PICK r \in ranks : \A n \in ranks : r <= n
    <3> HIDE DEF ranks
    <3> QED  BY <2>2, LeastElement
  <2>4. PICK c \in bad : r = rank[c]
    BY <2>3
  <2>5. c \in D /\ ~ Good(c) /\ \A d \in D : rank[d] < rank[c] => Good(d)
    <3>1. c \in D /\ ~ Good(c)
      BY <2>4
    <3> HIDE DEF Good
    <3>2. ASSUME NEW d \in D, rank[d] < rank[c], ~ Good(d)
          PROVE  FALSE
      <4>1. rank[d] \in ranks /\ rank[d] \in Nat /\ rank[c] \in Nat
        BY <3>1, <3>2 DEF Walk
      <4>2. rank[c] <= rank[d]
        BY <2>3, <2>4, <4>1
      <4>3. QED
        BY <3>2, <4>1, <4>2
    <3>3. QED
      BY <3>1, <3>2
  <2> HIDE DEF bad, ranks
  <2>6. path[c] = IF c \in stop THEN {c} ELSE {c} \cup path[nxt[c]]
    BY <2>5 DEF IsPath
  <2>7. CASE c \in stop
    <3>1. path[c] = {c} /\ rank[c] \in Nat
      BY <2>5, <2>6, <2>7 DEF Walk
    <3>2. Good(c)
      BY <2>5, <2>7, <3>1
    <3>3. QED
      BY <2>5, <3>2
  <2>8. CASE c \notin stop
    <3> DEFINE d == nxt[c]
               Q == path[d]
    <3>1. d \in D /\ rank[d] < rank[c]
      BY <2>5, <2>8 DEF Walk
    <3>2. Good(d)
      BY <2>5, <3>1
    <3>3. path[c] = {c} \cup Q
      BY <2>6, <2>8
    <3>4. \A i \in D : rank[i] \in Nat
      BY DEF Walk
    <3>5. /\ Q \subseteq D /\ d \in Q
          /\ \A i \in Q : i \notin stop => nxt[i] \in Q
          /\ \A i \in Q : rank[i] <= rank[d]
          /\ \A i \in Q : i # d => \E j \in Q : j \notin stop /\ nxt[j] = i
          /\ \E i \in Q : i \in stop
          /\ \A i, j \in Q : i # j /\ rank[i] <= rank[j] =>
                               j \notin stop /\ rank[i] <= rank[nxt[j]]
      BY <3>2
    <3> HIDE DEF Good, Q
    <3>6. path[c] \subseteq D /\ c \in path[c]
      BY <2>5, <3>3, <3>5
    <3>7. ASSUME NEW i \in path[c], i \notin stop PROVE nxt[i] \in path[c]
      BY <3>3, <3>5, <3>7
    <3>8. ASSUME NEW i \in path[c] PROVE rank[i] <= rank[c]
      BY <2>5, <3>1, <3>3, <3>4, <3>5
    <3>9. ASSUME NEW i \in path[c], i # c
          PROVE  \E j \in path[c] : j \notin stop /\ nxt[j] = i
      BY <2>8, <3>3, <3>5, <3>9
    <3>10. \E i \in path[c] : i \in stop
      BY <3>3, <3>5
    <3>11. ASSUME NEW i \in path[c], NEW j \in path[c], i # j, rank[i] <= rank[j]
           PROVE  j \notin stop /\ rank[i] <= rank[nxt[j]]
      <4>1. CASE j = c
        BY <2>8, <3>3, <3>5, <3>11, <4>1
      <4>2. CASE j # c
        <5>1. j \in Q /\ rank[j] <= rank[d]
          BY <3>3, <3>5, <4>2
        <5>2. i # c
          BY <2>5, <3>1, <3>4, <3>5, <3>11, <5>1
        <5>3. i \in Q
          BY <3>3, <5>2
        <5>4. QED
          BY <3>5, <3>11, <5>1, <5>3
      <4>3. QED
        BY <4>1, <4>2
    <3>12. Good(c)
      BY <3>6, <3>7, <3>8, <3>9, <3>10, <3>11 DEF Good
    <3>13. QED
      BY <2>5, <3>12
  <2>9. QED
    BY <2>7, <2>8
<1>2. Good(k)
  BY <1>1
<1> QED  BY <1>2

-----------------------------------------------------------------------------
(* Entries change places *)

Entries(T) == [w : T, at : Int]

\* Of the first n entries all know their places, except perhaps the one at k.
Almost(h, n, k, T) ==
  /\ h.timers \in Seq(Entries(T)) /\ h.active \in [T -> Nat]
  /\ n \in Nat /\ n <= Len(h.timers) /\ k \in 1 .. n
  /\ \A i, j \in 1 .. n : h.timers[i].w = h.timers[j].w => i = j
  /\ \A i \in 1 .. n : i # k => h.active[h.timers[i].w] = i

\* The same entries are the first n, and they all know their places.
Settled(h, r, n, T) ==
  /\ r.timers \in Seq(Entries(T)) /\ Len(r.timers) = Len(h.timers)
  /\ r.active \in [T -> Nat]
  /\ \A i \in 1 .. n : r.active[r.timers[i].w] = i
  /\ \A i \in 1 .. n : \E j \in 1 .. n : r.timers[j] = h.timers[i]
  /\ \A i \in 1 .. n : \E j \in 1 .. n : r.timers[i] = h.timers[j]
  /\ \A t \in T : (\A i \in 1 .. n : h.timers[i].w # t) =>
       /\ r.active[t] = h.active[t]
       /\ \A i \in 1 .. n : r.timers[i].w # t

\* P is what a walk from k passes.
Passed(P, stop, nxt, rank, k) ==
  /\ k \in P
  /\ \A i \in P : rank[i] \in Nat /\ rank[i] <= rank[k]
  /\ \A i \in P : i \notin stop => nxt[i] \in P /\ rank[nxt[i]] < rank[i]
  /\ \A i \in P : i # k => \E j \in P : j \notin stop /\ nxt[j] = i
  /\ \E i \in P : i \in stop
  /\ \A i, j \in P : i # j /\ rank[i] <= rank[j] => j \notin stop /\ rank[i] <= rank[nxt[j]]

Rotated(s, P, stop, nxt, k) ==
  [i \in DOMAIN s |-> IF i \notin P THEN s[i]
                      ELSE IF i \in stop THEN s[k] ELSE s[nxt[i]]]

\* Along a path every entry moves to the place before it and the first one to the end.
LEMMA Rotation ==
  ASSUME NEW T, NEW h, NEW n, NEW k, Almost(h, n, k, T),
         NEW P \in SUBSET (1 .. n), NEW stop, NEW nxt, NEW rank,
         Passed(P, stop, nxt, rank, k)
  PROVE  LET r == Placed(h, Rotated(h.timers, P, stop, nxt, k), P)
         IN  Settled(h, r, n, T)
<1> DEFINE A == Rotated(h.timers, P, stop, nxt, k)
           r == Placed(h, A, P)
           From(i) == IF i \notin P THEN i ELSE IF i \in stop THEN k ELSE nxt[i]
<1>1. /\ n \in Nat /\ n <= Len(h.timers) /\ k \in 1 .. n
      /\ DOMAIN h.timers = 1 .. Len(h.timers) /\ Len(h.timers) \in Nat
      /\ \A i \in 1 .. Len(h.timers) : h.timers[i] \in Entries(T)
  BY DEF Almost
<1>2. /\ A \in Seq(Entries(T)) /\ Len(A) = Len(h.timers)
      /\ DOMAIN A = 1 .. Len(h.timers)
      /\ \A i \in 1 .. Len(h.timers) : A[i] = h.timers[From(i)]
  <2>1. ASSUME NEW i \in 1 .. Len(h.timers)
        PROVE  A[i] = h.timers[From(i)] /\ From(i) \in 1 .. Len(h.timers)
    <3>1. i \in P /\ i \notin stop => nxt[i] \in 1 .. n
      BY DEF Passed
    <3>2. From(i) \in 1 .. Len(h.timers)
      BY <1>1, <3>1
    <3>3. A[i] = h.timers[From(i)]
      BY <1>1 DEF Rotated
    <3>4. QED
      BY <3>2, <3>3
  <2>2. DOMAIN A = 1 .. Len(h.timers)
    BY <1>1 DEF Rotated
  <2>3. \A i \in 1 .. Len(h.timers) : A[i] \in Entries(T)
    BY <1>1, <2>1
  <2>4. A = [i \in 1 .. Len(h.timers) |-> A[i]]
    BY <1>1 DEF Rotated
  <2> HIDE DEF A
  <2>5. A \in [1 .. Len(h.timers) -> Entries(T)]
    BY <2>3, <2>4
  <2>6. QED
    BY <1>1, <2>1, <2>2, <2>5
<1>3. \A i \in 1 .. n : From(i) \in 1 .. n
  BY <1>1 DEF Passed
<1>4. ASSUME NEW i \in P, NEW j \in P, i # j, rank[i] <= rank[j]
      PROVE  From(i) # From(j)
  <2>1. j \notin stop /\ rank[i] <= rank[nxt[j]] /\ nxt[j] \in P
    BY <1>4 DEF Passed
  <2>2. /\ rank[i] \in Nat /\ rank[j] \in Nat /\ rank[k] \in Nat /\ rank[nxt[j]] \in Nat
        /\ rank[nxt[j]] < rank[j] /\ rank[j] <= rank[k]
    BY <1>4, <2>1 DEF Passed
  <2>3. i \notin stop => rank[nxt[i]] < rank[i] /\ rank[nxt[i]] \in Nat
    BY <1>4 DEF Passed
  <2>4. QED
    BY <2>1, <2>2, <2>3
<1>5. \A i, j \in 1 .. n : From(i) = From(j) => i = j
  <2>1. ASSUME NEW i \in P, NEW j \in P, i # j
        PROVE  From(i) # From(j)
    <3>1. rank[i] \in Nat /\ rank[j] \in Nat
      BY DEF Passed
    <3>2. CASE rank[i] <= rank[j]
      BY <1>4, <2>1, <3>2
    <3>3. CASE rank[j] <= rank[i]
      BY <1>4, <2>1, <3>3
    <3>4. QED
      BY <3>1, <3>2, <3>3
  <2>2. \A i \in P : From(i) \in P
    BY DEF Passed
  <2>3. QED
    BY <2>1, <2>2
<1>6. \A i \in 1 .. n : \E j \in 1 .. n : From(j) = i
  <2>1. ASSUME NEW i \in P, i # k
        PROVE  \E j \in P : From(j) = i
    BY <2>1 DEF Passed
  <2>2. \E j \in P : From(j) = k
    BY DEF Passed
  <2>3. QED
    BY <2>1, <2>2
<1>7. /\ r.timers = A
      /\ r.active = [t \in T |-> IF \E i \in P : A[i].w = t
                                 THEN CHOOSE i \in P : A[i].w = t ELSE h.active[t]]
  BY DEF Placed, Almost
<1> HIDE DEF A, r, From
<1>8. \A i \in 1 .. n : A[i].w \in T
  <2>1. \A e \in Entries(T) : e.w \in T
    BY DEF Entries
  <2>2. \A i \in 1 .. n : h.timers[From(i)] \in Entries(T) /\ A[i] = h.timers[From(i)]
    BY <1>1, <1>2, <1>3, SMTT(30)
  <2>3. QED
    BY <2>1, <2>2
<1>9. ASSUME NEW i \in 1 .. n, NEW j \in 1 .. n, A[i].w = A[j].w
      PROVE  i = j
  <2>1. A[i] = h.timers[From(i)] /\ A[j] = h.timers[From(j)]
    BY <1>1, <1>2
  <2>2. From(i) = From(j)
    BY <1>3, <1>9, <2>1 DEF Almost
  <2>3. QED
    BY <1>5, <2>2
<1>10. ASSUME NEW i \in 1 .. n
       PROVE  r.active[r.timers[i].w] = i
  <2> DEFINE t == A[i].w
  <2>1. t \in T
    BY <1>8
  <2>2. CASE i \in P
    <3>1. \A j \in P : A[j].w = t => j = i
      BY <1>9
    <3>2. (CHOOSE j \in P : A[j].w = t) = i
      BY <2>2, <3>1
    <3>3. QED
      BY <1>7, <2>1, <2>2, <3>2
  <2>3. CASE i \notin P
    <3>1. ~ \E j \in P : A[j].w = t
      BY <1>9, <2>3
    <3>2. A[i] = h.timers[i] /\ i # k
      BY <1>1, <1>2, <2>3 DEF From, Passed
    <3>3. h.active[t] = i
      BY <3>2 DEF Almost
    <3>4. QED
      BY <1>7, <2>1, <3>1, <3>3
  <2>4. QED
    BY <2>2, <2>3
<1>11. r.active \in [T -> Nat]
  <2> DEFINE g(t) == IF \E i \in P : A[i].w = t
                     THEN CHOOSE i \in P : A[i].w = t ELSE h.active[t]
  <2>1. ASSUME NEW t \in T
        PROVE  g(t) \in Nat
    <3>1. CASE \E i \in P : A[i].w = t
      <4>1. (CHOOSE i \in P : A[i].w = t) \in P
        BY <3>1, Zenon
      <4>2. P \subseteq Nat
        BY <1>1
      <4>3. QED
        BY <3>1, <4>1, <4>2, Zenon
    <3>2. CASE ~ \E i \in P : A[i].w = t
      BY <3>2 DEF Almost
    <3>3. QED
      BY <3>1, <3>2
  <2>2. r.active = [t \in T |-> g(t)]
    BY <1>7
  <2> HIDE DEF g
  <2>3. QED
    BY <2>1, <2>2
<1>12. ASSUME NEW i \in 1 .. n
       PROVE  /\ \E j \in 1 .. n : r.timers[j] = h.timers[i]
              /\ \E j \in 1 .. n : r.timers[i] = h.timers[j]
  <2>1. PICK j \in 1 .. n : From(j) = i
    BY <1>6
  <2>2. A[j] = h.timers[i]
    BY <1>1, <1>2, <2>1
  <2>3. A[i] = h.timers[From(i)] /\ From(i) \in 1 .. n
    BY <1>1, <1>2, <1>3
  <2>4. QED
    BY <1>7, <2>2, <2>3
<1>13. ASSUME NEW t \in T, \A i \in 1 .. n : h.timers[i].w # t
       PROVE  r.active[t] = h.active[t] /\ \A i \in 1 .. n : r.timers[i].w # t
  <2>1. ASSUME NEW i \in 1 .. n
        PROVE  A[i].w # t
    <3>1. A[i] = h.timers[From(i)] /\ From(i) \in 1 .. n
      BY <1>1, <1>2, <1>3
    <3>2. QED
      BY <1>13, <3>1
  <2>2. ~ \E i \in P : A[i].w = t
    BY <2>1
  <2>3. QED
    BY <1>7, <2>1, <2>2
<1>14. QED
  <2>1. Settled(h, r, n, T)
    BY <1>2, <1>7, <1>10, <1>11, <1>12, <1>13 DEF Settled
  <2>2. QED
    BY <2>1 DEF r, A

-----------------------------------------------------------------------------
(* Parents and children *)

LEMMA ParentBefore ==
  ASSUME NEW k \in Nat, k >= 2
  PROVE  HPARENT(k) \in Nat /\ 1 <= HPARENT(k) /\ HPARENT(k) < k
<1>1. CASE DHEAP = 2
  BY <1>1 DEF HPARENT
<1>2. CASE DHEAP = 4
  BY <1>2 DEF HPARENT
<1> QED  BY <1>1, <1>2, DheapAssumption

\* Where the children of an entry begin.
LEMMA FirstChild ==
  ASSUME NEW j \in Nat, j >= 1
  PROVE  LET c == DHEAP * (j - 1) + 2
         IN  c \in Nat /\ c >= 2 /\ j < c /\ HPARENT(c) = j
<1>1. CASE DHEAP = 2
  BY <1>1 DEF HPARENT
<1>2. CASE DHEAP = 4
  BY <1>2 DEF HPARENT
<1> QED  BY <1>1, <1>2, DheapAssumption

\* The children of an entry begin no earlier than that.
LEMMA NoEarlierChild ==
  ASSUME NEW c \in Nat, c >= 2
  PROVE  DHEAP * (HPARENT(c) - 1) + 2 <= c
<1>1. CASE DHEAP = 2
  BY <1>1 DEF HPARENT
<1>2. CASE DHEAP = 4
  BY <1>2 DEF HPARENT
<1> QED  BY <1>1, <1>2, DheapAssumption

InOrder(h, n) == \A i \in 2 .. n : h.timers[HPARENT(i)].at <= h.timers[i].at

\* What a walk passes, with the facts that Rotation needs.
LEMMA PathPassed ==
  ASSUME NEW D, NEW stop, NEW nxt, NEW rank, Walk(D, stop, nxt, rank),
         NEW path, IsPath(path, D, stop, nxt), NEW k \in D
  PROVE  path[k] \subseteq D /\ Passed(path[k], stop, nxt, rank, k)
<1>1. \A i \in D : rank[i] \in Nat /\ (i \notin stop => rank[nxt[i]] < rank[i])
  BY DEF Walk
<1> DEFINE P == path[k]
<1>2. /\ P \subseteq D /\ k \in P
      /\ \A i \in P : i \notin stop => nxt[i] \in P
      /\ \A i \in P : rank[i] <= rank[k]
      /\ \A i \in P : i # k => \E j \in P : j \notin stop /\ nxt[j] = i
      /\ \E i \in P : i \in stop
      /\ \A i, j \in P : i # j /\ rank[i] <= rank[j] =>
                           j \notin stop /\ rank[i] <= rank[nxt[j]]
  BY PathFacts
<1> HIDE DEF P
<1>3. P \subseteq D /\ Passed(P, stop, nxt, rank, k)
  BY <1>1, <1>2 DEF Passed
<1> QED  BY <1>3 DEF P

\* upheap puts an entry that may be too early for its place where it belongs.
LEMMA UpheapSettles ==
  ASSUME NEW T, NEW h, NEW n, NEW k, Almost(h, n, k, T),
         \A i \in 2 .. n : i # k => h.timers[HPARENT(i)].at <= h.timers[i].at,
         \A i \in 2 .. n : HPARENT(i) = k =>
           /\ h.timers[k].at <= h.timers[i].at
           /\ k > 1 => h.timers[HPARENT(k)].at <= h.timers[i].at
  PROVE  Settled(h, upheap(h, k), n, T) /\ InOrder(upheap(h, k), n)
<1> DEFINE he == h.timers[k]
           done(j) == j = 1 \/ h.timers[HPARENT(j)].at <= he.at
           D == 1 .. k
           stop == {j \in D : done(j)}
           nxt == [j \in D |-> IF done(j) THEN j ELSE HPARENT(j)]
           rank == [j \in D |-> j]
           path == CHOOSE g : g = [j \in D |-> IF done(j) THEN {j} ELSE {j} \cup g[HPARENT(j)]]
           P == path[k]
           A == [i \in DOMAIN h.timers |-> IF i \notin P THEN h.timers[i]
                                           ELSE IF done(i) THEN he ELSE h.timers[HPARENT(i)]]
<1>1. upheap(h, k) = Placed(h, A, P)
  BY DEF upheap
<1>2. /\ n \in Nat /\ n <= Len(h.timers) /\ k \in 1 .. n
      /\ DOMAIN h.timers = 1 .. Len(h.timers) /\ Len(h.timers) \in Nat
      /\ \A i \in 1 .. Len(h.timers) : h.timers[i].at \in Int
  <2>1. \A e \in Entries(T) : e.at \in Int
    BY DEF Entries
  <2>2. QED
    BY <2>1 DEF Almost
<1>3. ASSUME NEW j \in D, ~ done(j)
      PROVE  HPARENT(j) \in D /\ HPARENT(j) < j /\ j >= 2
  BY <1>2, <1>3, ParentBefore
<1> HIDE DEF done
<1>4. Walk(D, stop, nxt, rank)
  <2>1. nxt \in [D -> D]
    BY <1>3
  <2>2. rank \in [D -> Nat]
    OBVIOUS
  <2>3. ASSUME NEW j \in D, j \notin stop
        PROVE  rank[nxt[j]] < rank[j]
    BY <1>3, <2>3
  <2>4. QED
    BY <2>1, <2>2, <2>3 DEF Walk
<1>5. IsPath(path, D, stop, nxt)
  <2>1. ASSUME NEW g
        PROVE  [j \in D |-> IF done(j) THEN {j} ELSE {j} \cup g[HPARENT(j)]]
                 = [j \in D |-> IF j \in stop THEN {j} ELSE {j} \cup g[nxt[j]]]
    OBVIOUS
  <2>2. k + 1 \in Nat /\ \A j \in D : rank[j] < k + 1
    BY <1>2
  <2>3. \E g : IsPath(g, D, stop, nxt)
    <3> HIDE DEF D, stop, nxt, rank
    <3> QED  BY <1>4, <2>2, PathExists
  <2>4. \E g : g = [j \in D |-> IF done(j) THEN {j} ELSE {j} \cup g[HPARENT(j)]]
    BY <2>1, <2>3, Zenon DEF IsPath
  <2>5. path = [j \in D |-> IF done(j) THEN {j} ELSE {j} \cup path[HPARENT(j)]]
    BY <2>4, Zenon
  <2> HIDE DEF path
  <2>6. QED
    BY <2>1, <2>5, Zenon DEF IsPath
<1>6. P \subseteq D /\ Passed(P, stop, nxt, rank, k)
  <2>1. k \in D
    BY <1>2
  <2> HIDE DEF D, stop, nxt, rank, path
  <2>2. QED
    BY <1>4, <1>5, <2>1, PathPassed
<1> HIDE DEF path
<1>7. A = Rotated(h.timers, P, stop, nxt, k)
  BY <1>2, <1>6 DEF Rotated
<1>8. P \in SUBSET (1 .. n)
  BY <1>2, <1>6
<1>9. Settled(h, upheap(h, k), n, T)
  <2> HIDE DEF A, P, stop, nxt, rank
  <2> QED  BY <1>1, <1>6, <1>7, <1>8, Rotation
<1>10. upheap(h, k).timers = A
  BY <1>1 DEF Placed
<1>11. /\ P \subseteq D /\ k \in P
       /\ \A i \in P : ~ done(i) => HPARENT(i) \in P
       /\ \A i \in P : i # k => \E j \in P : ~ done(j) /\ HPARENT(j) = i
       /\ \A i, j \in P : i < j => ~ done(j)
  <2>1. \A i \in P : i \in D /\ rank[i] = i /\ (i \in stop <=> done(i))
                     /\ (~ done(i) => nxt[i] = HPARENT(i))
    BY <1>6
  <2>2. ASSUME NEW i \in P, NEW j \in P, i < j
        PROVE  ~ done(j)
    <3>1. D \subseteq Nat
      BY <1>2
    <3> HIDE DEF stop, nxt, rank, P, D
    <3>2. rank[i] <= rank[j] /\ i # j
      <4>1. i \in Nat /\ j \in Nat /\ rank[i] = i /\ rank[j] = j
        BY <2>1, <3>1
      <4>2. QED
        BY <2>2, <4>1
    <3>3. QED
      BY <1>6, <2>1, <3>2 DEF Passed
  <2> HIDE DEF stop, nxt, rank, P
  <2>3. QED
    BY <1>6, <2>1, <2>2 DEF Passed
<1>12. \A i \in 1 .. n :
         /\ A[i] = IF i \notin P THEN h.timers[i]
                   ELSE IF done(i) THEN he ELSE h.timers[HPARENT(i)]
  BY <1>2
<1> HIDE DEF A, P
<1>13. ASSUME NEW i \in 2 .. n
       PROVE  A[HPARENT(i)].at <= A[i].at
  <2> DEFINE p == HPARENT(i)
  <2>1. p \in 1 .. n /\ p < i /\ i \in Nat /\ i >= 2
    BY <1>2, ParentBefore, SMTT(30)
  <2>2. h.timers[i].at \in Int /\ h.timers[p].at \in Int /\ he.at \in Int
    BY <1>2, <2>1
  <2>3. \A j \in 2 .. n : HPARENT(j) \in 1 .. n /\ h.timers[HPARENT(j)].at \in Int
    BY <1>2, ParentBefore
  <2>4. CASE i \in P /\ done(i)
    <3>1. p \notin P
      BY <1>11, <2>1, <2>4
    <3>2. h.timers[p].at <= he.at
      BY <2>1, <2>4 DEF done
    <3>3. QED
      BY <1>12, <2>1, <2>4, <3>1, <3>2
  <2>5. CASE i \in P /\ ~ done(i)
    <3>1. p \in P /\ A[i] = h.timers[p]
      BY <1>11, <1>12, <2>1, <2>5
    <3>2. ~ (h.timers[p].at <= he.at)
      BY <2>1, <2>5 DEF done
    <3>3. CASE done(p)
      BY <1>12, <2>1, <2>2, <3>1, <3>2, <3>3
    <3>4. CASE ~ done(p)
      <4>1. p \in 2 .. n /\ p # k
        <5>1. i <= k
          BY <1>11, <2>5
        <5>2. QED
          BY <1>2, <2>1, <3>4, <5>1 DEF done
      <4>2. h.timers[HPARENT(p)].at <= h.timers[p].at
        BY <4>1
      <4>3. QED
        BY <1>12, <2>1, <3>1, <3>4, <4>2
    <3>5. QED
      BY <3>3, <3>4
  <2>6. CASE i \notin P
    <3>1. A[i] = h.timers[i] /\ i # k
      BY <1>11, <1>12, <2>1, <2>6
    <3>2. h.timers[p].at <= h.timers[i].at
      BY <3>1
    <3>3. CASE p \notin P
      BY <1>12, <2>1, <3>1, <3>2, <3>3
    <3>4. CASE p = k
      <4>1. he.at <= h.timers[i].at /\ (k > 1 => h.timers[HPARENT(k)].at <= h.timers[i].at)
        BY <3>4
      <4>2. done(p) => A[p] = he
        BY <1>11, <1>12, <2>1, <3>4
      <4>3. ~ done(p) => A[p] = h.timers[HPARENT(k)] /\ k > 1
        BY <1>2, <1>11, <1>12, <2>1, <3>4 DEF done
      <4>4. QED
        BY <3>1, <4>1, <4>2, <4>3
    <3>5. CASE p \in P /\ p # k
      <4>1. PICK j \in P : ~ done(j) /\ HPARENT(j) = p
        BY <1>11, <3>5
      <4>2. ~ (h.timers[p].at <= he.at)
        BY <4>1 DEF done
      <4>3. CASE done(p)
        BY <1>12, <2>1, <2>2, <3>1, <3>2, <3>5, <4>2, <4>3
      <4>4. CASE ~ done(p)
        <5>1. p \in 2 .. n
          BY <1>2, <2>1, <4>4 DEF done
        <5>2. h.timers[HPARENT(p)].at <= h.timers[p].at
          BY <3>5, <5>1
        <5>3. QED
          BY <1>12, <2>1, <2>2, <2>3, <3>1, <3>2, <3>5, <4>4, <5>1, <5>2
      <4>5. QED
        BY <4>3, <4>4
    <3>6. QED
      BY <3>3, <3>4, <3>5
  <2>7. QED
    BY <2>4, <2>5, <2>6
<1>14. QED
  BY <1>9, <1>10, <1>13 DEF InOrder

\* What downheap looks for: the earliest child, where there is one.
LEMMA EarliestChild ==
  ASSUME NEW h, NEW n \in Nat, NEW j \in Nat, j >= 1,
         \A i \in 1 .. n : h.timers[i].at \in Int,
         DHEAP * (j - 1) + 2 <= n
  PROVE  LET m == MinChild(h, n, j)
         IN  /\ m \in 2 .. n /\ HPARENT(m) = j /\ j < m
             /\ \A d \in 2 .. n : HPARENT(d) = j => h.timers[m].at <= h.timers[d].at
<1> DEFINE children == {c \in 2 .. n : HPARENT(c) = j}
           Before(c, d) == \/ h.timers[c].at < h.timers[d].at
                           \/ h.timers[c].at = h.timers[d].at /\ c <= d
           UpTo(m) == {c \in children : c <= m}
           First(c, m) == c \in UpTo(m) /\ \A d \in UpTo(m) : Before(c, d)
           bad == {m \in Nat : UpTo(m) # {} /\ ~ \E c : First(c, m)}
<1>1. \A c \in children : c \in Nat /\ c >= 2 /\ c <= n /\ h.timers[c].at \in Int
  OBVIOUS
<1>2. bad = {}
  <2>1. SUFFICES ASSUME bad # {} PROVE FALSE
    OBVIOUS
  <2>2. PICK m \in bad : \A i \in bad : m <= i
    BY <2>1, LeastElement
  <2>3. m \in Nat /\ UpTo(m) # {} /\ ~ \E c : First(c, m)
    BY <2>2
  <2>4. m # 0
    BY <1>1, <2>3
  <2>5. m - 1 \in Nat /\ m - 1 \notin bad
    <3> HIDE DEF bad
    <3> QED  BY <2>2, <2>3, <2>4
  <2>6. \A c \in UpTo(m) : c = m \/ c \in UpTo(m - 1)
    BY <1>1, <2>3
  <2>7. UpTo(m - 1) \subseteq UpTo(m)
    BY <1>1, <2>3
  <2>8. m \in UpTo(m) => m \in children
    OBVIOUS
  <2>9. \A c \in UpTo(m) : c \in children
    OBVIOUS
  <2>10. UpTo(m - 1) = {} \/ \E c : First(c, m - 1)
    BY <2>5
  <2> HIDE DEF UpTo, children, bad
  <2>11. \A c, d \in UpTo(m) : Before(c, d) \/ Before(d, c)
    BY <1>1, <2>9
  <2>12. \A c, d, e \in UpTo(m) : Before(c, d) /\ Before(d, e) => Before(c, e)
    BY <1>1, <2>9
  <2>13. \A c \in UpTo(m) : Before(c, c)
    BY <2>11
  <2> HIDE DEF Before
  <2>14. CASE m \notin UpTo(m)
    <3>1. UpTo(m) = UpTo(m - 1)
      BY <2>6, <2>7, <2>14
    <3>2. QED
      BY <2>3, <2>10, <3>1
  <2>15. CASE m \in UpTo(m) /\ UpTo(m - 1) = {}
    <3>1. First(m, m)
      BY <2>6, <2>13, <2>15
    <3>2. QED
      BY <2>3, <3>1
  <2>16. CASE m \in UpTo(m) /\ UpTo(m - 1) # {}
    <3>1. PICK c : First(c, m - 1)
      BY <2>10, <2>16
    <3>2. c \in UpTo(m)
      BY <2>7, <3>1
    <3>3. CASE Before(c, m)
      <4>1. First(c, m)
        BY <2>6, <3>1, <3>2, <3>3
      <4>2. QED
        BY <2>3, <4>1
    <3>4. CASE Before(m, c)
      <4>1. ASSUME NEW d \in UpTo(m) PROVE Before(m, d)
        <5>1. CASE d = m
          BY <2>13, <2>16, <5>1
        <5>2. CASE d # m
          <6>1. Before(c, d)
            BY <2>6, <3>1, <5>2
          <6>2. QED
            BY <2>12, <2>16, <3>2, <3>4, <6>1
        <5>3. QED
          BY <5>1, <5>2
      <4>2. First(m, m)
        BY <2>16, <4>1
      <4>3. QED
        BY <2>3, <4>2
    <3>5. QED
      BY <2>11, <2>16, <3>2, <3>3, <3>4
  <2>17. QED
    BY <2>14, <2>15, <2>16
<1>3. UpTo(n) = children
  BY <1>1
<1>4. DHEAP * (j - 1) + 2 \in children
  BY FirstChild
<1>5. \E c \in children : \A d \in children : Before(c, d)
  BY <1>2, <1>3, <1>4
<1>6. MinChild(h, n, j) = CHOOSE c \in children : \A d \in children : Before(c, d)
  BY DEF MinChild
<1> HIDE DEF children, Before
<1>7. /\ MinChild(h, n, j) \in children
      /\ \A d \in children : Before(MinChild(h, n, j), d)
  BY <1>5, <1>6
<1> DEFINE m == MinChild(h, n, j)
<1> HIDE DEF m
<1>8. m \in children /\ \A d \in children : Before(m, d)
  BY <1>7 DEF m
<1>9. m \in 2 .. n /\ HPARENT(m) = j
  BY <1>8 DEF children
<1>10. j < m
  BY <1>9, ParentBefore
<1>11. ASSUME NEW d \in 2 .. n, HPARENT(d) = j
       PROVE  h.timers[m].at <= h.timers[d].at
  <2>1. d \in children
    BY <1>11 DEF children
  <2>2. Before(m, d)
    BY <1>8, <2>1
  <2>3. h.timers[m].at \in Int /\ h.timers[d].at \in Int
    BY <1>1, <1>8, <2>1
  <2>4. QED
    BY <2>2, <2>3 DEF Before
<1> QED  BY <1>9, <1>10, <1>11 DEF m

\* downheap puts an entry that may be too late for its place where it belongs.
LEMMA DownheapSettles ==
  ASSUME NEW T, NEW h, NEW n, NEW k, Almost(h, n, k, T),
         \A i \in 2 .. n : HPARENT(i) # k => h.timers[HPARENT(i)].at <= h.timers[i].at,
         k > 1 => \A i \in 2 .. n : HPARENT(i) = k =>
                    h.timers[HPARENT(k)].at <= h.timers[i].at
  PROVE  Settled(h, downheap(h, n, k), n, T) /\ InOrder(downheap(h, n, k), n)
<1> DEFINE he == h.timers[k]
           done(j) == \/ DHEAP * (j - 1) + 2 > n
                      \/ he.at <= h.timers[MinChild(h, n, j)].at
           D == k .. n
           stop == {j \in D : done(j)}
           nxt == [j \in D |-> IF done(j) THEN j ELSE MinChild(h, n, j)]
           rank == [j \in D |-> n - j]
           path == CHOOSE g : g = [j \in D |-> IF done(j) THEN {j}
                                               ELSE {j} \cup g[MinChild(h, n, j)]]
           P == path[k]
           A == [i \in DOMAIN h.timers |-> IF i \notin P THEN h.timers[i]
                                           ELSE IF done(i) THEN he
                                           ELSE h.timers[MinChild(h, n, i)]]
<1>1. downheap(h, n, k) = Placed(h, A, P)
  BY DEF downheap
<1>2. /\ n \in Nat /\ n <= Len(h.timers) /\ k \in 1 .. n
      /\ DOMAIN h.timers = 1 .. Len(h.timers) /\ Len(h.timers) \in Nat
      /\ \A i \in 1 .. Len(h.timers) : h.timers[i].at \in Int
  <2>1. \A e \in Entries(T) : e.at \in Int
    BY DEF Entries
  <2>2. QED
    BY <2>1 DEF Almost
<1>3. ASSUME NEW j \in 1 .. n, DHEAP * (j - 1) + 2 <= n
      PROVE  LET m == MinChild(h, n, j)
             IN  /\ m \in 2 .. n /\ HPARENT(m) = j /\ j < m
                 /\ \A d \in 2 .. n : HPARENT(d) = j => h.timers[m].at <= h.timers[d].at
  <2>1. j \in Nat /\ j >= 1 /\ \A i \in 1 .. n : h.timers[i].at \in Int
    BY <1>2
  <2>2. QED
    BY <1>2, <1>3, <2>1, EarliestChild
<1>4. ASSUME NEW j \in 1 .. n, ~ done(j)
      PROVE  LET m == MinChild(h, n, j)
             IN  /\ m \in 2 .. n /\ HPARENT(m) = j /\ j < m
                 /\ \A d \in 2 .. n : HPARENT(d) = j => h.timers[m].at <= h.timers[d].at
                 /\ h.timers[m].at < he.at
  <2>1. DHEAP * (j - 1) + 2 \in Nat
    <3>1. j \in Nat /\ j >= 1
      BY <1>2
    <3>2. QED
      BY <3>1, FirstChild
  <2>2. DHEAP * (j - 1) + 2 <= n
    BY <1>2, <1>4, <2>1
  <2>3. MinChild(h, n, j) \in 2 .. n
    BY <1>3, <2>2
  <2>4. h.timers[MinChild(h, n, j)].at < he.at
    BY <1>2, <1>4, <2>3, SMTT(30)
  <2>5. QED
    BY <1>3, <2>2, <2>4
<1>5. ASSUME NEW j \in 1 .. n, done(j), NEW d \in 2 .. n, HPARENT(d) = j
      PROVE  he.at <= h.timers[d].at
  <2>0. DHEAP * (j - 1) + 2 \in Nat
    <3>1. j \in Nat /\ j >= 1
      BY <1>2
    <3>2. QED
      BY <3>1, FirstChild
  <2>1. DHEAP * (j - 1) + 2 <= n
    <3>1. d \in Nat /\ d >= 2 /\ d <= n
      BY <1>2
    <3>2. DHEAP * (j - 1) + 2 <= d
      BY <1>5, <3>1, NoEarlierChild
    <3>3. QED
      BY <1>2, <2>0, <3>1, <3>2
  <2>3. he.at <= h.timers[MinChild(h, n, j)].at
    BY <1>2, <1>5, <2>0, <2>1
  <2>4. MinChild(h, n, j) \in 2 .. n /\ h.timers[MinChild(h, n, j)].at <= h.timers[d].at
    BY <1>3, <1>5, <2>1
  <2>5. \A i \in 1 .. n : h.timers[i].at \in Int
    BY <1>2
  <2>6. he.at \in Int /\ h.timers[d].at \in Int /\ h.timers[MinChild(h, n, j)].at \in Int
    BY <1>2, <2>4, <2>5
  <2>7. QED
    BY <2>3, <2>4, <2>6
<1> HIDE DEF done
<1>6. D \subseteq 1 .. n /\ D \subseteq Nat
  BY <1>2
<1>7. ASSUME NEW j \in D, ~ done(j)
      PROVE  MinChild(h, n, j) \in D /\ j < MinChild(h, n, j)
  <2>1. j \in 1 .. n
    BY <1>6
  <2>2. MinChild(h, n, j) \in 2 .. n /\ j < MinChild(h, n, j)
    BY <1>4, <1>7, <2>1
  <2>3. QED
    BY <1>2, <2>2
<1>8. Walk(D, stop, nxt, rank)
  <2>1. nxt \in [D -> D]
    BY <1>7
  <2>2. rank \in [D -> Nat]
    BY <1>2
  <2>3. ASSUME NEW j \in D, j \notin stop
        PROVE  rank[nxt[j]] < rank[j]
    <3>1. ~ done(j) /\ nxt[j] = MinChild(h, n, j)
      BY <2>3
    <3>2. MinChild(h, n, j) \in D /\ j < MinChild(h, n, j)
      BY <1>7, <3>1
    <3>3. rank[nxt[j]] = n - MinChild(h, n, j) /\ rank[j] = n - j
      BY <3>1, <3>2
    <3>4. QED
      BY <1>2, <3>2, <3>3
  <2>4. QED
    BY <2>1, <2>2, <2>3 DEF Walk
<1>9. IsPath(path, D, stop, nxt)
  <2>1. ASSUME NEW g
        PROVE  [j \in D |-> IF done(j) THEN {j} ELSE {j} \cup g[MinChild(h, n, j)]]
                 = [j \in D |-> IF j \in stop THEN {j} ELSE {j} \cup g[nxt[j]]]
    OBVIOUS
  <2>2. n + 1 \in Nat /\ \A j \in D : rank[j] < n + 1
    BY <1>2
  <2>3. \E g : IsPath(g, D, stop, nxt)
    <3> HIDE DEF D, stop, nxt, rank
    <3> QED  BY <1>8, <2>2, PathExists
  <2>4. \E g : g = [j \in D |-> IF done(j) THEN {j} ELSE {j} \cup g[MinChild(h, n, j)]]
    BY <2>1, <2>3, Zenon DEF IsPath
  <2>5. path = [j \in D |-> IF done(j) THEN {j} ELSE {j} \cup path[MinChild(h, n, j)]]
    BY <2>4, Zenon
  <2> HIDE DEF path
  <2>6. QED
    BY <2>1, <2>5, Zenon DEF IsPath
<1>10. P \subseteq D /\ Passed(P, stop, nxt, rank, k)
  <2>1. k \in D
    BY <1>2
  <2> HIDE DEF D, stop, nxt, rank, path
  <2>2. QED
    BY <1>8, <1>9, <2>1, PathPassed
<1> HIDE DEF path
<1>11. A = Rotated(h.timers, P, stop, nxt, k)
  BY <1>2, <1>10 DEF Rotated
<1>12. P \in SUBSET (1 .. n)
  BY <1>6, <1>10
<1>13. Settled(h, downheap(h, n, k), n, T)
  <2> HIDE DEF A, P, stop, nxt, rank
  <2> QED  BY <1>1, <1>10, <1>11, <1>12, Rotation
<1>14. downheap(h, n, k).timers = A
  BY <1>1 DEF Placed
<1>15. /\ P \subseteq D /\ k \in P
       /\ \A i \in P : ~ done(i) => MinChild(h, n, i) \in P
       /\ \A i \in P : i # k => \E j \in P : ~ done(j) /\ MinChild(h, n, j) = i
       /\ \A i, j \in P : i < j => ~ done(i)
  <2>1. \A i \in P : i \in D /\ rank[i] = n - i /\ (i \in stop <=> done(i))
                     /\ (~ done(i) => nxt[i] = MinChild(h, n, i))
    BY <1>10
  <2>2. ASSUME NEW i \in P, NEW j \in P, i < j
        PROVE  ~ done(i)
    <3> HIDE DEF stop, nxt, rank, P, D
    <3>1. rank[j] <= rank[i] /\ i # j
      <4>1. i \in Nat /\ j \in Nat /\ rank[i] = n - i /\ rank[j] = n - j
        BY <1>6, <2>1
      <4>2. QED
        BY <1>2, <2>2, <4>1
    <3>2. QED
      BY <1>10, <2>1, <3>1 DEF Passed
  <2> HIDE DEF stop, nxt, rank, P
  <2>3. QED
    BY <1>10, <2>1, <2>2 DEF Passed
<1>16. \A i \in 1 .. n :
         A[i] = IF i \notin P THEN h.timers[i]
                ELSE IF done(i) THEN he ELSE h.timers[MinChild(h, n, i)]
  BY <1>2
<1>17. ASSUME NEW i \in 2 .. n
       PROVE  A[HPARENT(i)].at <= A[i].at
  <2> HIDE DEF A, P
  <2> DEFINE p == HPARENT(i)
             m == MinChild(h, n, i)
  <2>1. p \in 1 .. n /\ p < i /\ i \in 1 .. n /\ i \in Nat
    BY <1>2, ParentBefore
  <2>2. h.timers[i].at \in Int /\ h.timers[p].at \in Int /\ he.at \in Int
    BY <1>2, <2>1
  <2>3. CASE i \in P /\ i = k
    <3>1. p \notin P /\ k > 1
      BY <1>2, <1>15, <2>1, <2>3
    <3>2. h.timers[p].at <= he.at
      BY <1>2, <2>1, <2>3
    <3>3. CASE done(i)
      BY <1>16, <2>1, <2>3, <3>1, <3>2, <3>3
    <3>4. CASE ~ done(i)
      <4>1. m \in 2 .. n /\ HPARENT(m) = i
        BY <1>4, <2>1, <3>4
      <4>2. h.timers[p].at <= h.timers[m].at
        BY <2>3, <3>1, <4>1
      <4>3. QED
        BY <1>16, <2>1, <2>3, <3>1, <3>4, <4>2
    <3>5. QED
      BY <3>3, <3>4
  <2>4. CASE i \in P /\ i # k
    <3>1. PICK j \in P : ~ done(j) /\ MinChild(h, n, j) = i
      BY <1>15, <2>4
    <3>2. j \in 1 .. n
      BY <1>12
    <3>3. j = p /\ h.timers[i].at < he.at
      BY <1>4, <3>1, <3>2
    <3>4. A[p] = h.timers[i]
      BY <1>16, <3>1, <3>2, <3>3
    <3>5. CASE done(i)
      <4>1. A[i] = he
        BY <1>16, <2>1, <2>4, <3>5
      <4>2. QED
        BY <2>2, <3>3, <3>4, <4>1
    <3>6. CASE ~ done(i)
      <4>1. m \in 2 .. n /\ HPARENT(m) = i
        BY <1>4, <2>1, <3>6
      <4>2. h.timers[i].at <= h.timers[m].at
        BY <2>4, <4>1
      <4>3. A[i] = h.timers[m]
        BY <1>16, <2>1, <2>4, <3>6
      <4>4. QED
        BY <3>4, <4>2, <4>3
    <3>7. QED
      BY <3>5, <3>6
  <2>5. CASE i \notin P
    <3>1. A[i] = h.timers[i]
      BY <1>16, <2>1, <2>5
    <3>2. CASE p \notin P
      <4>1. h.timers[p].at <= h.timers[i].at
        BY <1>15, <3>2
      <4>2. QED
        BY <1>16, <2>1, <3>1, <3>2, <4>1
    <3>3. CASE p \in P /\ done(p)
      <4>1. he.at <= h.timers[i].at
        BY <1>5, <2>1, <3>3
      <4>2. A[p] = he
        BY <1>16, <2>1, <3>3
      <4>3. QED
        BY <3>1, <4>1, <4>2
    <3>4. CASE p \in P /\ ~ done(p)
      <4>1. h.timers[MinChild(h, n, p)].at <= h.timers[i].at
        BY <1>4, <2>1, <3>4
      <4>2. A[p] = h.timers[MinChild(h, n, p)]
        BY <1>16, <2>1, <3>4
      <4>3. QED
        BY <3>1, <4>1, <4>2
    <3>5. QED
      BY <3>2, <3>3, <3>4
  <2>6. QED
    BY <2>3, <2>4, <2>5
<1>18. QED
  <2> HIDE DEF A
  <2> QED  BY <1>13, <1>14, <1>17 DEF InOrder

-----------------------------------------------------------------------------
(* The operations on the heap *)

\* A heap of timers from T: in order, and the field active of a timer is its place.
HeapOK(h, T) ==
  /\ h \in [timers : Seq(Entries(T)), active : [T -> Nat]]
  /\ verify_heap(h)
  /\ \A t \in T : h.active[t] # 0 =>
       h.active[t] \in DOMAIN h.timers /\ h.timers[h.active[t]].w = t

FirstOf(array, n) == {array[i] : i \in 1 .. n}

\* The timers it holds, with their times.
Held(h) == FirstOf(h.timers, Len(h.timers))

\* What HeapOK says, entry by entry.
LEMMA HeapFacts ==
  ASSUME NEW T, NEW h, HeapOK(h, T)
  PROVE  /\ h.timers \in Seq(Entries(T)) /\ h.active \in [T -> Nat]
         /\ Len(h.timers) \in Nat /\ DOMAIN h.timers = 1 .. Len(h.timers)
         /\ \A i \in 1 .. Len(h.timers) :
              /\ h.timers[i] \in Entries(T) /\ h.timers[i].w \in T /\ h.timers[i].at \in Int
              /\ h.timers[i] = [w |-> h.timers[i].w, at |-> h.timers[i].at]
              /\ h.active[h.timers[i].w] = i
         /\ InOrder(h, Len(h.timers))
         /\ \A i, j \in 1 .. Len(h.timers) : h.timers[i].w = h.timers[j].w => i = j
         /\ \A t \in T : h.active[t] # 0 =>
              h.active[t] \in 1 .. Len(h.timers) /\ h.timers[h.active[t]].w = t
<1>1. h.timers \in Seq(Entries(T)) /\ h.active \in [T -> Nat]
  BY DEF HeapOK
<1>2. Len(h.timers) \in Nat /\ DOMAIN h.timers = 1 .. Len(h.timers)
  BY <1>1
<1>3. \A e \in Entries(T) : e.w \in T /\ e.at \in Int /\ e = [w |-> e.w, at |-> e.at]
  BY DEF Entries
<1>4. \A i \in 1 .. Len(h.timers) : h.timers[i] \in Entries(T)
  BY <1>1
<1>5. \A i \in 1 .. Len(h.timers) : h.active[h.timers[i].w] = i
  BY <1>2 DEF HeapOK, verify_heap
<1>6. ASSUME NEW i \in 2 .. Len(h.timers)
      PROVE  h.timers[HPARENT(i)].at <= h.timers[i].at
  BY <1>2 DEF HeapOK, verify_heap
<1>7. \A t \in T : h.active[t] # 0 =>
        h.active[t] \in 1 .. Len(h.timers) /\ h.timers[h.active[t]].w = t
  BY <1>2 DEF HeapOK
<1>8. \A i, j \in 1 .. Len(h.timers) : h.timers[i].w = h.timers[j].w => i = j
  BY <1>5, Zenon
<1> QED
  BY <1>1, <1>2, <1>3, <1>4, <1>5, <1>6, <1>7, <1>8 DEF InOrder

\* The first entry is due first.
LEMMA RootIsFirst ==
  ASSUME NEW T, NEW h, HeapOK(h, T), NEW i \in DOMAIN h.timers
  PROVE  h.timers # << >> /\ h.timers[1].at <= h.timers[i].at
<1> DEFINE n == Len(h.timers)
           later == {j \in 1 .. n : ~ (h.timers[1].at <= h.timers[j].at)}
<1>1. /\ n \in Nat /\ DOMAIN h.timers = 1 .. n
      /\ \A j \in 1 .. n : h.timers[j].at \in Int
      /\ InOrder(h, n)
  BY HeapFacts
<1> HIDE DEF n
<1>2. later = {}
  <2>1. SUFFICES ASSUME later # {} PROVE FALSE
    OBVIOUS
  <2>2. PICK j \in later : \A c \in later : j <= c
    <3>1. later \subseteq Nat
      BY <1>1
    <3>2. QED
      BY <2>1, <3>1, LeastElement
  <2>3. j \in 2 .. n /\ j \in Nat /\ j >= 2
    BY <1>1, <2>2
  <2>4. HPARENT(j) \in 1 .. n /\ HPARENT(j) < j /\ HPARENT(j) \in Nat
    BY <1>1, <2>3, ParentBefore
  <2>5. HPARENT(j) \notin later
    BY <2>2, <2>3, <2>4
  <2>6. h.timers[1].at <= h.timers[HPARENT(j)].at
    BY <2>4, <2>5
  <2>7. h.timers[HPARENT(j)].at <= h.timers[j].at
    BY <1>1, <2>3 DEF InOrder
  <2>8. 1 \in 1 .. n /\ j \in 1 .. n
    BY <1>1, <2>3
  <2>9. h.timers[1].at <= h.timers[j].at
    BY <1>1, <2>4, <2>6, <2>7, <2>8
  <2>10. QED
    BY <2>2, <2>9
<1>3. h.timers # << >>
  BY <1>1
<1> QED  BY <1>1, <1>2, <1>3

\* What is left of a heap in which the first n entries have found their places.
LEMMA SettledIsHeap ==
  ASSUME NEW T, NEW h, NEW s, NEW n \in Nat, Settled(h, s, n, T), InOrder(s, n),
         NEW r, NEW tm \in Seq(Entries(T)), NEW ac \in [T -> Nat],
         r = [timers |-> tm, active |-> ac], Len(tm) = n,
         \A i \in 1 .. n : tm[i] = s.timers[i],
         \A t \in T : ac[t] = IF \E i \in 1 .. n : h.timers[i].w = t THEN s.active[t] ELSE 0,
         \A i \in 1 .. n : h.timers[i].w \in T
  PROVE  /\ HeapOK(r, T)
         /\ \A t \in T : r.active[t] # 0 <=> \E i \in 1 .. n : h.timers[i].w = t
<1>1. r.timers = tm /\ r.active = ac /\ DOMAIN tm = 1 .. n
  OBVIOUS
<1>2. r \in [timers : Seq(Entries(T)), active : [T -> Nat]]
  OBVIOUS
<1>3. ASSUME NEW i \in 1 .. n
      PROVE  tm[i].w \in T /\ \E j \in 1 .. n : h.timers[j].w = tm[i].w
  <2>1. tm[i] \in Entries(T)
    BY <1>1
  <2>2. tm[i].w \in T
    BY <2>1 DEF Entries
  <2>3. tm[i] = s.timers[i]
    OBVIOUS
  <2>4. ~ \A j \in 1 .. n : h.timers[j].w # tm[i].w
    BY <2>2, <2>3 DEF Settled
  <2>5. QED
    BY <2>2, <2>4
<1>4. \A i \in 1 .. n : ac[tm[i].w] = i
  <2>1. SUFFICES ASSUME NEW i \in 1 .. n PROVE ac[tm[i].w] = i
    OBVIOUS
  <2>2. ac[tm[i].w] = s.active[tm[i].w]
    BY <1>3
  <2>3. QED
    BY <2>2 DEF Settled
<1>5. ASSUME NEW i \in 1 .. n, i > 1
      PROVE  tm[HPARENT(i)].at <= tm[i].at
  <2>1. i \in Nat /\ i >= 2 /\ i \in 2 .. n
    BY <1>5
  <2>2. HPARENT(i) \in 1 .. n
    BY <2>1, ParentBefore
  <2>3. QED
    BY <2>1, <2>2 DEF InOrder
<1>6. verify_heap(r)
  BY <1>1, <1>4, <1>5 DEF verify_heap
<1>7. ASSUME NEW t \in T, NEW i \in 1 .. n, h.timers[i].w = t
      PROVE  ac[t] \in 1 .. n /\ tm[ac[t]].w = t
  <2>1. PICK j \in 1 .. n : s.timers[j].w = t
    BY <1>7, ZenonT(60) DEF Settled
  <2>2. s.active[t] = j
    BY <2>1 DEF Settled
  <2>3. ac[t] = j
    BY <1>7, <2>2
  <2>4. QED
    BY <2>1, <2>3
<1>8. \A t \in T : ac[t] # 0 => \E i \in 1 .. n : h.timers[i].w = t
  OBVIOUS
<1>9. ASSUME NEW t \in T, ac[t] # 0
      PROVE  ac[t] \in 1 .. n /\ tm[ac[t]].w = t
  BY <1>7, <1>8, <1>9
<1>10. \A t \in T : (\E i \in 1 .. n : h.timers[i].w = t) => ac[t] # 0
  BY <1>7
<1> QED
  BY <1>1, <1>2, <1>6, <1>8, <1>9, <1>10 DEF HeapOK

\* And its entries are those there were.
LEMMA SettledHolds ==
  ASSUME NEW T, NEW h, NEW s, NEW n, Settled(h, s, n, T),
         NEW array, \A i \in 1 .. n : array[i] = s.timers[i]
  PROVE  FirstOf(array, n) = FirstOf(h.timers, n)
<1>1. /\ \A i \in 1 .. n : \E j \in 1 .. n : s.timers[j] = h.timers[i]
      /\ \A i \in 1 .. n : \E j \in 1 .. n : s.timers[i] = h.timers[j]
  BY Zenon DEF Settled
<1>2. ASSUME NEW x
      PROVE  (\E i \in 1 .. n : x = array[i]) <=> \E i \in 1 .. n : x = h.timers[i]
  <2>1. ASSUME NEW i \in 1 .. n
        PROVE  \E j \in 1 .. n : array[i] = h.timers[j]
    <3>1. PICK j \in 1 .. n : s.timers[i] = h.timers[j]
      BY <1>1, Zenon
    <3>2. array[i] = h.timers[j]
      BY <3>1
    <3>3. QED
      BY <3>2
  <2>2. ASSUME NEW i \in 1 .. n
        PROVE  \E j \in 1 .. n : h.timers[i] = array[j]
    <3>1. PICK j \in 1 .. n : s.timers[j] = h.timers[i]
      BY <1>1, Zenon
    <3>2. h.timers[i] = array[j]
      BY <3>1
    <3>3. QED
      BY <3>2
  <2>3. QED
    BY ONLY <2>1, <2>2, Zenon
<1> QED  BY <1>2, Zenon DEF FirstOf

\* ev_timer_start leaves a heap with one timer more, whatever its size, in the four-ary
\* layout and in the binary one (ev.c:3904-3927).
THEOREM InsertKeepsHeap ==
  ASSUME NEW T, NEW h, HeapOK(h, T), NEW t \in T, h.active[t] = 0, NEW at \in Int
  PROVE  LET r == HeapInsert(h, t, at)
         IN  /\ HeapOK(r, T)
             /\ \A u \in T : r.active[u] # 0 <=> u = t \/ h.active[u] # 0
             /\ Held(r) = Held(h) \cup {[w |-> t, at |-> at]}
<1> DEFINE m  == Len(h.timers)
           n  == m + 1
           tm == Append(h.timers, [w |-> t, at |-> at])
           ac == [h.active EXCEPT ![t] = n]
           g  == [timers |-> tm, active |-> ac]
           r  == upheap(g, n)
<1>1. HeapInsert(h, t, at) = r
  BY DEF HeapInsert
<1>2. /\ h.timers \in Seq(Entries(T)) /\ h.active \in [T -> Nat] /\ m \in Nat
      /\ \A i \in 1 .. m : h.timers[i].w \in T /\ h.active[h.timers[i].w] = i
      /\ InOrder(h, m)
      /\ \A i, j \in 1 .. m : h.timers[i].w = h.timers[j].w => i = j
      /\ \A u \in T : h.active[u] # 0 => h.active[u] \in 1 .. m /\ h.timers[h.active[u]].w = u
  BY HeapFacts, ZenonT(60)
<1>3. /\ tm \in Seq(Entries(T)) /\ Len(tm) = n
      /\ tm[n] = [w |-> t, at |-> at]
      /\ \A i \in 1 .. m : tm[i] = h.timers[i]
  <2>1. [w |-> t, at |-> at] \in Entries(T)
    BY DEF Entries
  <2> HIDE DEF m
  <2>2. QED
    BY <1>2, <2>1 DEF m
<1>4. ac \in [T -> Nat] /\ ac[t] = n /\ \A u \in T : u # t => ac[u] = h.active[u]
  BY <1>2
<1> HIDE DEF m, tm, ac
<1>5. n \in Nat /\ n >= 1 /\ \A i \in 1 .. n : i = n \/ i \in 1 .. m
  BY <1>2
<1>6. \A i \in 1 .. m : tm[i].w # t
  BY <1>2, <1>3
<1>7. \A i \in 1 .. n : ac[tm[i].w] = i /\ tm[i].w \in T
  BY <1>2, <1>3, <1>4, <1>5, <1>6, SMTT(30)
<1>8. Almost(g, n, n, T)
  <2>1. \A i, j \in 1 .. n : tm[i].w = tm[j].w => i = j
    BY <1>7
  <2>2. QED
    BY <1>3, <1>4, <1>5, <1>7, <2>1 DEF Almost
<1>9. ASSUME NEW i \in 2 .. n, i # n
      PROVE  g.timers[HPARENT(i)].at <= g.timers[i].at
  <2>1. i \in 2 .. m /\ i \in Nat /\ i >= 2
    BY <1>5, <1>9
  <2>2. HPARENT(i) \in 1 .. m
    BY <1>2, <2>1, ParentBefore
  <2>3. QED
    BY <1>2, <1>3, <2>1, <2>2 DEF InOrder
<1>10. \A i \in 2 .. n : HPARENT(i) # n
  <2>1. SUFFICES ASSUME NEW i \in 2 .. n PROVE HPARENT(i) # n
    OBVIOUS
  <2>2. i \in Nat /\ i >= 2 /\ i <= n
    BY <1>5
  <2>3. QED
    BY <1>5, <2>2, ParentBefore
<1>11. Settled(g, r, n, T) /\ InOrder(r, n)
  BY <1>8, <1>9, <1>10, UpheapSettles
<1>12. r.timers \in Seq(Entries(T)) /\ r.active \in [T -> Nat] /\ Len(r.timers) = n
  BY <1>3, <1>11 DEF Settled
<1>13. r = [timers |-> r.timers, active |-> r.active]
  BY DEF upheap, Placed
<1>14. \A u \in T : r.active[u] = IF \E i \in 1 .. n : g.timers[i].w = u THEN r.active[u] ELSE 0
  <2>1. SUFFICES ASSUME NEW u \in T, ~ \E i \in 1 .. n : g.timers[i].w = u
                 PROVE  r.active[u] = 0
    OBVIOUS
  <2>2. r.active[u] = g.active[u] /\ g.active = ac
    <3> HIDE DEF r, n
    <3>1. \A i \in 1 .. n : g.timers[i].w # u
      BY <2>1
    <3>2. QED
      BY <1>11, <3>1 DEF Settled
  <2>3. u # t
    BY <1>3, <1>5, <2>1
  <2>4. \A i \in 1 .. m : h.timers[i].w # u
    <3>1. \A i \in 1 .. m : i \in 1 .. n
      BY <1>2
    <3>2. QED
      BY <1>3, <2>1, <3>1
  <2>5. h.active[u] = 0
    BY <1>2, <2>4
  <2>6. QED
    BY <1>4, <2>2, <2>3, <2>5
<1>15. \A i \in 1 .. n : g.timers[i].w \in T
  BY <1>7
<1> HIDE DEF g, r, n
<1>16. /\ HeapOK(r, T)
       /\ \A u \in T : r.active[u] # 0 <=> \E i \in 1 .. n : g.timers[i].w = u
  BY <1>5, <1>11, <1>12, <1>13, <1>14, <1>15, SettledIsHeap, SMTT(30)
<1>17. ASSUME NEW u \in T
       PROVE  (\E i \in 1 .. n : g.timers[i].w = u) <=> u = t \/ h.active[u] # 0
  <2>1. g.timers = tm
    BY DEF g
  <2>2. n \in 1 .. n /\ \A i \in 1 .. m : i \in 1 .. n
    BY <1>2 DEF n
  <2>3. ASSUME NEW i \in 1 .. n, tm[i].w = u, u # t
        PROVE  h.active[u] # 0
    <3>1. i \in 1 .. m
      BY <1>3, <1>5, <2>3
    <3>2. h.active[u] = i
      BY <1>2, <1>3, <2>3, <3>1
    <3>3. QED
      BY <1>2, <3>1, <3>2
  <2>4. h.active[u] # 0 => h.active[u] \in 1 .. n /\ tm[h.active[u]].w = u
    BY <1>2, <1>3, <2>2
  <2>5. tm[n].w = t
    BY <1>3
  <2>6. QED
    BY <2>1, <2>2, <2>3, <2>4, <2>5
<1>18. FirstOf(g.timers, n) = Held(h) \cup {[w |-> t, at |-> at]}
  <2>1. g.timers = tm /\ Held(h) = {h.timers[i] : i \in 1 .. m}
    BY DEF g, Held, FirstOf, m
  <2>2. n \in 1 .. n /\ \A i \in 1 .. m : i \in 1 .. n
    BY <1>2 DEF n
  <2>3. \A i \in 1 .. n : i = n \/ i \in 1 .. m
    BY <1>5
  <2>4. FirstOf(tm, n) = {h.timers[i] : i \in 1 .. m} \cup {[w |-> t, at |-> at]}
    BY <1>3, <2>2, <2>3 DEF FirstOf
  <2>5. QED
    BY <2>1, <2>4
<1>19. Held(r) = FirstOf(g.timers, n)
  BY <1>11, <1>12, SettledHolds DEF Held
<1> QED  BY <1>1, <1>16, <1>17, <1>18, <1>19

\* ev_timer_stop leaves a heap without the timer, whose place the last one has taken and
\* from there gone up or down (ev.c:3929-3958).
THEOREM RemoveKeepsHeap ==
  ASSUME NEW T, NEW h, HeapOK(h, T), NEW t \in T, h.active[t] # 0
  PROVE  LET r == HeapRemove(h, t)
         IN  /\ HeapOK(r, T)
             /\ \A u \in T : r.active[u] # 0 <=> u # t /\ h.active[u] # 0
             /\ Held(r) = {e \in Held(h) : e.w # t}
<1> DEFINE k == h.active[t]
           m == Len(h.timers)
           n == m - 1
           moved == [h.timers EXCEPT ![k] = h.timers[m]]
           g == [h EXCEPT !.timers = moved]
           left == IF k <= n THEN adjustheap(g, n, k) ELSE h
           r == [timers |-> SubSeq(left.timers, 1, n), active |-> [left.active EXCEPT ![t] = 0]]
<1>1. /\ h.timers \in Seq(Entries(T)) /\ h.active \in [T -> Nat] /\ m \in Nat
      /\ DOMAIN h.timers = 1 .. m
      /\ \A i \in 1 .. m : h.timers[i] \in Entries(T) /\ h.timers[i].at \in Int
                           /\ h.timers[i].w \in T /\ h.active[h.timers[i].w] = i
      /\ InOrder(h, m)
      /\ \A i, j \in 1 .. m : h.timers[i].w = h.timers[j].w => i = j
      /\ \A u \in T : h.active[u] # 0 => h.active[u] \in 1 .. m /\ h.timers[h.active[u]].w = u
  BY HeapFacts
<1>2. k \in 1 .. m /\ h.timers[k].w = t /\ n \in Nat /\ m = n + 1
  BY <1>1
<1>3. HeapRemove(h, t) = r
  BY <1>1, <1>2 DEF HeapRemove
<1>4. g = [timers |-> moved, active |-> h.active]
  <2> HIDE DEF moved
  <2> QED  BY DEF HeapOK
<1>5. /\ moved \in Seq(Entries(T)) /\ Len(moved) = m
      /\ \A i \in 1 .. m : moved[i] = IF i = k THEN h.timers[m] ELSE h.timers[i]
  BY <1>1, <1>2
<1>6. \A i \in 1 .. n : i \in 1 .. m /\ i # m /\ i \in Nat
  BY <1>1, <1>2
<1>7. Held(h) = {h.timers[i] : i \in 1 .. m}
  BY DEF Held, FirstOf
<1> HIDE DEF m, n, k, moved, g
<1>8. CASE k <= n
  <2> DEFINE s == adjustheap(g, n, k)
  <2>1. k \in 1 .. n /\ m \in 1 .. m
    BY <1>1, <1>2, <1>8
  <2>2. \A i \in 1 .. n : moved[i].w \in T /\ moved[i].w # t
    BY <1>1, <1>2, <1>5, <1>6, <2>1
  <2>3. Almost(g, n, k, T)
    <3>1. \A i, j \in 1 .. n : moved[i].w = moved[j].w => i = j
      BY <1>1, <1>5, <1>6, <2>1
    <3>2. \A i \in 1 .. n : i # k => h.active[moved[i].w] = i
      BY <1>1, <1>5, <1>6
    <3>3. n <= Len(moved)
      BY <1>2, <1>5
    <3>4. QED
      BY <1>1, <1>2, <1>4, <1>5, <2>1, <3>1, <3>2, <3>3 DEF Almost
  <2>4. ASSUME NEW i \in 2 .. n
        PROVE  /\ i \in 1 .. n /\ HPARENT(i) \in 1 .. n /\ HPARENT(i) < i
               /\ h.timers[HPARENT(i)].at <= h.timers[i].at
    <3>1. i \in Nat /\ i >= 2 /\ i \in 2 .. m
      BY <1>2, <1>6
    <3>2. HPARENT(i) \in 1 .. n /\ HPARENT(i) < i
      BY <1>2, <3>1, ParentBefore
    <3>3. QED
      BY <1>1, <3>1, <3>2 DEF InOrder
  <2>5. ASSUME NEW i \in 2 .. n, i # k, HPARENT(i) # k
        PROVE  g.timers[HPARENT(i)].at <= g.timers[i].at
    BY <1>4, <1>5, <1>6, <2>4, <2>5
  <2>6. ASSUME NEW i \in 2 .. n, HPARENT(i) = k, k > 1
        PROVE  g.timers[HPARENT(k)].at <= g.timers[i].at
    <3>1. k \in 2 .. n /\ i # k
      BY <1>2, <2>1, <2>4, <2>6
    <3>2. h.timers[HPARENT(k)].at <= h.timers[k].at /\ h.timers[k].at <= h.timers[i].at
      BY <2>4, <2>6, <3>1
    <3>3. HPARENT(k) \in 1 .. n /\ HPARENT(k) < k /\ i \in 1 .. n
      BY <2>4, <3>1
    <3>4. /\ g.timers[HPARENT(k)] = h.timers[HPARENT(k)] /\ g.timers[i] = h.timers[i]
      BY <1>4, <1>5, <1>6, <3>1, <3>3
    <3>5. h.timers[HPARENT(k)].at \in Int /\ h.timers[k].at \in Int /\ h.timers[i].at \in Int
      BY <1>1, <1>2, <1>6, <3>3
    <3>6. QED
      BY <3>2, <3>4, <3>5
  <2>7. \A i \in 1 .. n : g.timers[i].at \in Int
    BY <1>1, <1>4, <1>5, <1>6, <2>1
  <2>8. Settled(g, s, n, T) /\ InOrder(s, n)
    <3>1. CASE k > 1 /\ g.timers[k].at <= g.timers[HPARENT(k)].at
      <4>1. s = upheap(g, k)
        BY <3>1 DEF adjustheap
      <4>2. ASSUME NEW i \in 2 .. n, i # k
            PROVE  g.timers[HPARENT(i)].at <= g.timers[i].at
        <5>1. CASE HPARENT(i) # k
          BY <2>5, <4>2, <5>1
        <5>2. CASE HPARENT(i) = k
          <6>1. k \in 2 .. n
            BY <1>2, <2>1, <3>1
          <6>2. HPARENT(k) \in 1 .. n /\ i \in 1 .. n
            BY <2>4, <6>1
          <6>3. /\ g.timers[HPARENT(k)].at \in Int /\ g.timers[k].at \in Int
                /\ g.timers[i].at \in Int
            BY <2>1, <2>7, <6>2
          <6>4. g.timers[HPARENT(k)].at <= g.timers[i].at
            BY <2>6, <3>1, <5>2
          <6>5. QED
            BY <3>1, <5>2, <6>3, <6>4
        <5>3. QED
          BY <5>1, <5>2
      <4>3. ASSUME NEW i \in 2 .. n, HPARENT(i) = k
            PROVE  /\ g.timers[k].at <= g.timers[i].at
                   /\ k > 1 => g.timers[HPARENT(k)].at <= g.timers[i].at
        <5>1. i # k
          BY <1>2, <2>4, <4>3
        <5>2. QED
          BY <2>6, <4>2, <4>3, <5>1
      <4>4. QED
        BY <2>3, <4>1, <4>2, <4>3, UpheapSettles
    <3>2. CASE ~ (k > 1 /\ g.timers[k].at <= g.timers[HPARENT(k)].at)
      <4>1. s = downheap(g, n, k)
        BY <3>2 DEF adjustheap
      <4>2. ASSUME NEW i \in 2 .. n, HPARENT(i) # k
            PROVE  g.timers[HPARENT(i)].at <= g.timers[i].at
        <5>1. CASE i # k
          BY <2>5, <4>2, <5>1
        <5>2. CASE i = k
          <6>1. k > 1 /\ HPARENT(k) \in 1 .. n
            BY <1>2, <2>4, <5>2
          <6>2. g.timers[HPARENT(k)].at \in Int /\ g.timers[k].at \in Int
            BY <2>1, <2>7, <6>1
          <6>3. QED
            BY <3>2, <5>2, <6>1, <6>2
        <5>3. QED
          BY <5>1, <5>2
      <4>3. QED
        BY <2>3, <2>6, <4>1, <4>2, DownheapSettles
    <3>3. QED
      BY <3>1, <3>2
  <2>9. left = s
    BY <1>8
  <2>10. s.timers \in Seq(Entries(T)) /\ Len(s.timers) = m /\ s.active \in [T -> Nat]
    BY <1>4, <1>5, <2>8 DEF Settled
  <2> DEFINE tm == SubSeq(s.timers, 1, n)
             ac == [s.active EXCEPT ![t] = 0]
  <2>11. tm \in Seq(Entries(T)) /\ Len(tm) = n /\ \A i \in 1 .. n : tm[i] = s.timers[i]
    BY <1>2, <2>10
  <2>12. ac \in [T -> Nat] /\ \A u \in T : ac[u] = IF u = t THEN 0 ELSE s.active[u]
    BY <2>10
  <2>13. ASSUME NEW u \in T
         PROVE  (\E i \in 1 .. n : g.timers[i].w = u) <=> u # t /\ h.active[u] # 0
    <3>1. ASSUME NEW i \in 1 .. n, moved[i].w = u
          PROVE  u # t /\ h.active[u] # 0
      <4>1. u # t
        BY <2>2, <3>1
      <4>2. i = k => h.active[u] = m
        BY <1>1, <1>5, <1>6, <2>1, <3>1
      <4>3. i # k => h.active[u] = i
        BY <1>1, <1>5, <1>6, <3>1
      <4>4. m # 0 /\ i # 0
        BY <1>2
      <4>5. QED
        BY <4>1, <4>2, <4>3, <4>4
    <3>2. ASSUME u # t, h.active[u] # 0
          PROVE  \E i \in 1 .. n : moved[i].w = u
      <4> DEFINE j == h.active[u]
      <4>1. j \in 1 .. m /\ h.timers[j].w = u /\ j # k
        BY <1>1, <1>2, <3>2
      <4>2. CASE j = m
        <5>1. moved[k].w = u
          BY <1>2, <1>5, <4>1, <4>2
        <5>2. QED
          BY <2>1, <5>1
      <4>3. CASE j # m
        <5>1. j \in 1 .. n
          BY <1>2, <4>1, <4>3
        <5>2. moved[j].w = u
          BY <1>5, <4>1
        <5>3. QED
          BY <5>1, <5>2
      <4>4. QED
        BY <4>2, <4>3
    <3>3. QED
      BY <1>4, <3>1, <3>2
  <2>14. \A u \in T : ac[u] = IF \E i \in 1 .. n : g.timers[i].w = u THEN s.active[u] ELSE 0
    <3>1. SUFFICES ASSUME NEW u \in T
                   PROVE  ac[u] = IF \E i \in 1 .. n : g.timers[i].w = u THEN s.active[u] ELSE 0
      BY Zenon
    <3>2. CASE u = t
      BY <2>12, <2>13, <3>2
    <3>3. CASE u # t /\ h.active[u] # 0
      BY <2>12, <2>13, <3>3
    <3>4. CASE u # t /\ h.active[u] = 0
      <4>1. \A i \in 1 .. n : g.timers[i].w # u
        BY <2>13, <3>4
      <4>2. s.active[u] = g.active[u]
        BY <2>8, <4>1 DEF Settled
      <4>3. QED
        BY <1>4, <2>12, <3>4, <4>1, <4>2
    <3>5. QED
      BY <3>2, <3>3, <3>4
  <2>15. r = [timers |-> tm, active |-> ac]
    BY <2>9
  <2>16. \A i \in 1 .. n : g.timers[i].w \in T
    BY <1>4, <2>2
  <2> HIDE DEF s, tm, ac, r, left
  <2>17. /\ HeapOK(r, T)
         /\ \A u \in T : r.active[u] # 0 <=> \E i \in 1 .. n : g.timers[i].w = u
    BY <1>2, <2>8, <2>11, <2>12, <2>14, <2>15, <2>16, SettledIsHeap, SMTT(60)
  <2>18. \A u \in T : r.active[u] # 0 <=> u # t /\ h.active[u] # 0
    BY <2>13, <2>17
  <2>19. FirstOf(moved, n) = {e \in Held(h) : e.w # t}
    <3>1. ASSUME NEW i \in 1 .. n
          PROVE  moved[i].w # t /\ \E j \in 1 .. m : moved[i] = h.timers[j]
      BY <1>5, <1>6, <2>1, <2>2
    <3>2. ASSUME NEW j \in 1 .. m, h.timers[j].w # t
          PROVE  \E i \in 1 .. n : moved[i] = h.timers[j]
      <4>1. j # k
        BY <1>2, <3>2
      <4>2. j = m \/ j \in 1 .. n
        BY <1>2
      <4>3. j = m => moved[k] = h.timers[j]
        BY <1>2, <1>5
      <4>4. j \in 1 .. n => moved[j] = h.timers[j]
        BY <1>5, <4>1
      <4>5. QED
        BY <2>1, <4>2, <4>3, <4>4
    <3>3. QED
      BY <1>7, <3>1, <3>2 DEF FirstOf
  <2>20. Held(r) = FirstOf(moved, n)
    <3>1. r.timers = tm
      BY <2>15
    <3>2. FirstOf(tm, n) = FirstOf(g.timers, n)
      BY <2>8, <2>11, SettledHolds
    <3>3. QED
      BY <1>4, <2>11, <3>1, <3>2 DEF Held
  <2>21. QED
    BY <1>3, <2>17, <2>18, <2>19, <2>20
<1>9. CASE ~ (k <= n)
  <2>1. k = m
    BY <1>1, <1>2, <1>9
  <2>2. left = h
    BY <1>9
  <2> DEFINE tm == SubSeq(h.timers, 1, n)
             ac == [h.active EXCEPT ![t] = 0]
  <2>3. tm \in Seq(Entries(T)) /\ Len(tm) = n /\ \A i \in 1 .. n : tm[i] = h.timers[i]
    <3>1. n <= Len(h.timers)
      BY <1>1, <1>2 DEF m
    <3>2. QED
      BY <1>1, <1>2, <3>1
  <2>4. ac \in [T -> Nat] /\ \A u \in T : ac[u] = IF u = t THEN 0 ELSE h.active[u]
    BY <1>1
  <2>5. \A i \in 1 .. n : h.timers[i].w \in T /\ h.active[h.timers[i].w] = i
    BY <1>1, <1>6
  <2>6. Settled(h, h, n, T)
    BY <1>1, <2>5 DEF Settled
  <2>7. InOrder(h, n)
    <3>1. \A i \in 2 .. n : i \in 2 .. m
      BY <1>1, <1>2
    <3>2. QED
      BY <1>1, <3>1 DEF InOrder
  <2>8. ASSUME NEW u \in T
        PROVE  (\E i \in 1 .. n : h.timers[i].w = u) <=> u # t /\ h.active[u] # 0
    <3>1. ASSUME NEW i \in 1 .. n, h.timers[i].w = u
          PROVE  u # t /\ h.active[u] # 0
      BY <1>1, <1>2, <1>6, <2>1, <3>1
    <3>2. ASSUME u # t, h.active[u] # 0
          PROVE  h.active[u] \in 1 .. n /\ h.timers[h.active[u]].w = u
      <4>1. h.active[u] \in 1 .. m /\ h.timers[h.active[u]].w = u /\ h.active[u] # k
        BY <1>1, <1>2, <3>2
      <4>2. QED
        BY <1>2, <2>1, <4>1
    <3>3. QED
      BY <3>1, <3>2
  <2>9. \A u \in T : ac[u] = IF \E i \in 1 .. n : h.timers[i].w = u THEN h.active[u] ELSE 0
    BY <2>4, <2>8
  <2>10. r = [timers |-> tm, active |-> ac]
    BY <2>2
  <2>11. \A i \in 1 .. n : h.timers[i].w \in T
    BY <2>5
  <2> HIDE DEF tm, ac, r
  <2>12. /\ HeapOK(r, T)
         /\ \A u \in T : r.active[u] # 0 <=> \E i \in 1 .. n : h.timers[i].w = u
    BY <1>2, <2>3, <2>4, <2>6, <2>7, <2>9, <2>10, <2>11, SettledIsHeap, SMTT(30)
  <2>13. \A u \in T : r.active[u] # 0 <=> u # t /\ h.active[u] # 0
    BY <2>8, <2>12
  <2>14. Held(r) = {h.timers[i] : i \in 1 .. n}
    <3>1. r.timers = tm
      BY <2>10
    <3>2. FirstOf(tm, n) = FirstOf(h.timers, n)
      BY <2>3 DEF FirstOf
    <3>3. QED
      BY <2>3, <3>1, <3>2 DEF Held, FirstOf
  <2>15. {h.timers[i] : i \in 1 .. n} = {e \in Held(h) : e.w # t}
    <3>1. ASSUME NEW i \in 1 .. n
          PROVE  i \in 1 .. m /\ h.timers[i].w # t
      <4>1. h.active[h.timers[i].w] = i /\ h.active[t] = k /\ i # k
        BY <1>1, <1>6, <2>1, <2>5 DEF k
      <4>2. QED
        BY <1>6, <4>1
    <3>2. ASSUME NEW j \in 1 .. m, h.timers[j].w # t
          PROVE  j \in 1 .. n
      BY <1>2, <2>1, <3>2
    <3>3. QED
      BY <1>7, <3>1, <3>2
  <2>16. QED
    BY <1>3, <2>12, <2>13, <2>14, <2>15
<1> QED  BY <1>1, <1>2, <1>8, <1>9

\* timers_reify leaves a heap with the same timers when the first one is repeated later
\* (ev.c:3361-3371).
THEOREM PostponeKeepsHeap ==
  ASSUME NEW T, NEW h, HeapOK(h, T), h.timers # << >>,
         NEW at \in Int, h.timers[1].at <= at
  PROVE  LET r == HeapPostpone(h, at)
         IN  /\ HeapOK(r, T)
             /\ \A u \in T : r.active[u] # 0 <=> h.active[u] # 0
             /\ Held(r) = (Held(h) \ {h.timers[1]}) \cup {[h.timers[1] EXCEPT !.at = at]}
<1> DEFINE n == Len(h.timers)
           first == [w |-> h.timers[1].w, at |-> at]
           tm == [h.timers EXCEPT ![1] = first]
           g == [timers |-> tm, active |-> h.active]
           r == downheap(g, n, 1)
<1>1. /\ h.timers \in Seq(Entries(T)) /\ h.active \in [T -> Nat] /\ n \in Nat
      /\ DOMAIN h.timers = 1 .. n
      /\ \A i \in 1 .. n : h.timers[i] \in Entries(T) /\ h.timers[i].at \in Int
                           /\ h.timers[i].w \in T /\ h.active[h.timers[i].w] = i
                           /\ h.timers[i] = [w |-> h.timers[i].w, at |-> h.timers[i].at]
      /\ InOrder(h, n)
      /\ \A i, j \in 1 .. n : h.timers[i].w = h.timers[j].w => i = j
      /\ \A u \in T : h.active[u] # 0 => h.active[u] \in 1 .. n /\ h.timers[h.active[u]].w = u
  BY HeapFacts, SMTT(30)
<1>2. 1 \in 1 .. n
  BY <1>1
<1>3. [h EXCEPT !.timers[1].at = at] = g
  <2>1. [h.timers[1] EXCEPT !.at = at] = first
    <3>1. h.timers[1] = [w |-> h.timers[1].w, at |-> h.timers[1].at]
      BY <1>1, <1>2
    <3>2. QED
      BY <3>1
  <2>2. [h EXCEPT !.timers[1].at = at] = [h EXCEPT !.timers = tm]
    BY <1>1, <1>2, <2>1
  <2> HIDE DEF tm
  <2>3. [h EXCEPT !.timers = tm] = g
    BY DEF HeapOK
  <2>4. QED
    BY <2>2, <2>3
<1>4. HeapPostpone(h, at) = r
  BY <1>3 DEF HeapPostpone
<1>5. /\ tm \in Seq(Entries(T)) /\ Len(tm) = n
      /\ \A i \in 1 .. n : tm[i] = IF i = 1 THEN first ELSE h.timers[i]
  <2>1. first \in Entries(T)
    BY <1>1, <1>2 DEF Entries
  <2> HIDE DEF first
  <2>2. QED
    BY <1>1, <1>2, <2>1
<1>6. Held(h) = FirstOf(h.timers, n) /\ first = [h.timers[1] EXCEPT !.at = at]
  <2>1. h.timers[1] = [w |-> h.timers[1].w, at |-> h.timers[1].at]
    BY <1>1, <1>2
  <2>2. QED
    BY <2>1 DEF Held
<1> HIDE DEF tm, n
<1>7. ASSUME NEW i \in 1 .. n
      PROVE  tm[i].w = h.timers[i].w /\ tm[i].at \in Int
  <2>1. CASE i = 1
    BY <1>5, <2>1
  <2>2. CASE i # 1
    <3>1. tm[i] = h.timers[i]
      BY <1>5, <2>2
    <3>2. QED
      BY <1>1, <3>1
  <2>3. QED
    BY <2>1, <2>2
<1>8. Almost(g, n, 1, T)
  <2>1. \A i, j \in 1 .. n : tm[i].w = tm[j].w => i = j
    BY <1>1, <1>7
  <2>2. \A i \in 1 .. n : h.active[tm[i].w] = i
    BY <1>1, <1>7
  <2>3. n <= Len(tm)
    BY <1>1, <1>5
  <2>4. QED
    BY <1>1, <1>2, <1>5, <2>1, <2>2, <2>3 DEF Almost
<1>9. ASSUME NEW i \in 2 .. n, HPARENT(i) # 1
      PROVE  g.timers[HPARENT(i)].at <= g.timers[i].at
  <2>1. i \in Nat /\ i >= 2 /\ i \in 1 .. n /\ i # 1
    BY <1>1
  <2>2. HPARENT(i) \in 1 .. n
    BY <1>1, <2>1, ParentBefore
  <2>3. h.timers[HPARENT(i)].at <= h.timers[i].at
    BY <1>1 DEF InOrder
  <2>4. QED
    BY <1>5, <1>9, <2>1, <2>2, <2>3
<1>10. Settled(g, r, n, T) /\ InOrder(r, n)
  BY <1>8, <1>9, DownheapSettles
<1>11. r.timers \in Seq(Entries(T)) /\ r.active \in [T -> Nat] /\ Len(r.timers) = n
  BY <1>5, <1>10 DEF Settled
<1>12. r = [timers |-> r.timers, active |-> r.active]
  BY DEF downheap, Placed
<1>13. ASSUME NEW u \in T
       PROVE  (\E i \in 1 .. n : g.timers[i].w = u) <=> h.active[u] # 0
  <2>1. ASSUME NEW i \in 1 .. n, h.timers[i].w = u PROVE h.active[u] # 0
    <3>1. h.active[u] = i
      BY <1>1, <2>1
    <3>2. QED
      BY <1>1, <3>1
  <2>2. QED
    BY <1>1, <1>7, <2>1
<1>14. \A u \in T : r.active[u] = IF \E i \in 1 .. n : g.timers[i].w = u THEN r.active[u] ELSE 0
  <2>1. SUFFICES ASSUME NEW u \in T, ~ \E i \in 1 .. n : g.timers[i].w = u
                 PROVE  r.active[u] = 0
    OBVIOUS
  <2>2. r.active[u] = h.active[u]
    BY <1>10, <2>1 DEF Settled
  <2>3. QED
    BY <1>13, <2>1, <2>2
<1>15. \A i \in 1 .. n : g.timers[i].w \in T
  BY <1>1, <1>7
<1> HIDE DEF g, r
<1>16. /\ HeapOK(r, T)
       /\ \A u \in T : r.active[u] # 0 <=> \E i \in 1 .. n : g.timers[i].w = u
  BY <1>1, <1>10, <1>11, <1>12, <1>14, <1>15, SettledIsHeap, SMTT(60)
<1>17. FirstOf(g.timers, n) = (Held(h) \ {h.timers[1]}) \cup {first}
  <2>1. \A i \in 1 .. n : i # 1 => h.timers[i] # h.timers[1]
    BY <1>1, <1>2
  <2>2. FirstOf(tm, n) = (Held(h) \ {h.timers[1]}) \cup {first}
    <3> HIDE DEF first
    <3> QED  BY <1>2, <1>5, <1>6, <2>1 DEF FirstOf
  <2>3. QED
    BY <2>2 DEF g
<1>18. Held(r) = FirstOf(g.timers, n)
  BY <1>10, <1>11, SettledHolds DEF Held
<1> QED  BY <1>4, <1>13, <1>16, <1>6, <1>17, <1>18

\* All times move together.
LEMMA ShiftKeepsHeap ==
  ASSUME NEW T, NEW h, HeapOK(h, T), NEW d \in Int
  PROVE  LET r == [h EXCEPT !.timers = [i \in DOMAIN @ |-> [w |-> @[i].w, at |-> @[i].at - d]]]
         IN  HeapOK(r, T) /\ r.active = h.active
<1>0. /\ h.timers \in Seq(Entries(T)) /\ h.active \in [T -> Nat] /\ Len(h.timers) \in Nat
      /\ DOMAIN h.timers = 1 .. Len(h.timers)
      /\ \A i \in 1 .. Len(h.timers) :
           /\ h.timers[i] \in Entries(T) /\ h.timers[i].w \in T /\ h.timers[i].at \in Int
           /\ h.timers[i] = [w |-> h.timers[i].w, at |-> h.timers[i].at]
           /\ h.active[h.timers[i].w] = i
      /\ InOrder(h, Len(h.timers))
      /\ \A u \in T : h.active[u] # 0 =>
           h.active[u] \in 1 .. Len(h.timers) /\ h.timers[h.active[u]].w = u
  BY HeapFacts, Zenon
<1> DEFINE n == Len(h.timers)
           tm == [i \in DOMAIN h.timers |-> [w |-> h.timers[i].w, at |-> h.timers[i].at - d]]
           r == [timers |-> tm, active |-> h.active]
<1>1. /\ h.timers \in Seq(Entries(T)) /\ h.active \in [T -> Nat] /\ n \in Nat
      /\ DOMAIN h.timers = 1 .. n
      /\ \A i \in 1 .. n :
           /\ h.timers[i] \in Entries(T) /\ h.timers[i].w \in T /\ h.timers[i].at \in Int
           /\ h.timers[i] = [w |-> h.timers[i].w, at |-> h.timers[i].at]
           /\ h.active[h.timers[i].w] = i
      /\ InOrder(h, n)
      /\ \A u \in T : h.active[u] # 0 => h.active[u] \in 1 .. n /\ h.timers[h.active[u]].w = u
  BY <1>0, Zenon
<1>2. [h EXCEPT !.timers = [i \in DOMAIN @ |-> [w |-> @[i].w, at |-> @[i].at - d]]] = r
  <2>1. ASSUME NEW x
        PROVE  [h EXCEPT !.timers = x] = [timers |-> x, active |-> h.active]
    BY DEF HeapOK
  <2>2. [h EXCEPT !.timers = tm] = r
    <3> HIDE DEF tm
    <3> QED  BY <2>1
  <2>3. QED
    BY <2>2
<1>3. ASSUME NEW i \in 1 .. n
      PROVE  /\ tm[i].w = h.timers[i].w
             /\ tm[i].at = h.timers[i].at - d
             /\ tm[i] \in Entries(T)
  <2> DEFINE e == h.timers[i]
             f == [w |-> e.w, at |-> e.at - d]
  <2>1. e.w \in T /\ e.at \in Int
    BY <1>1
  <2>2. tm[i] = f
    BY <1>1
  <2> HIDE DEF e, tm, n
  <2>3. e.at - d \in Int
    BY <2>1
  <2>4. f.w = e.w /\ f.at = e.at - d /\ f \in Entries(T)
    BY <2>1, <2>3 DEF Entries
  <2>5. QED
    BY <2>2, <2>4 DEF e
<1>4. tm \in Seq(Entries(T)) /\ Len(tm) = n
  <2>1. tm = [i \in 1 .. n |-> tm[i]]
    BY <1>1
  <2> HIDE DEF tm, n
  <2>2. tm \in [1 .. n -> Entries(T)]
    BY <1>3, <2>1
  <2>3. QED
    BY <1>1, <2>2
<1> HIDE DEF tm, n
<1>5. verify_heap(r)
  <2>1. DOMAIN r.timers = 1 .. n
    BY <1>1, <1>4
  <2>2. SUFFICES ASSUME NEW i \in 1 .. n
                 PROVE  /\ h.active[tm[i].w] = i
                        /\ i > 1 => tm[HPARENT(i)].at <= tm[i].at
    BY <2>1 DEF verify_heap
  <2>3. h.active[tm[i].w] = i
    <3>1. tm[i].w = h.timers[i].w
      BY <1>3
    <3>2. QED
      BY <1>1, <3>1
  <2>4. ASSUME i > 1
        PROVE  tm[HPARENT(i)].at <= tm[i].at
    <3>1. i \in Nat /\ i >= 2 /\ i \in 2 .. n
      BY <1>1, <2>4
    <3>2. HPARENT(i) \in 1 .. n
      BY <1>1, <3>1, ParentBefore
    <3>3. h.timers[HPARENT(i)].at <= h.timers[i].at
      BY <1>1, <3>1 DEF InOrder
    <3>4. /\ tm[i].at = h.timers[i].at - d
          /\ tm[HPARENT(i)].at = h.timers[HPARENT(i)].at - d
      BY <1>3, <3>2
    <3>5. h.timers[i].at \in Int /\ h.timers[HPARENT(i)].at \in Int
      BY <1>1, <3>2
    <3>6. QED
      BY <3>3, <3>4, <3>5
  <2>5. QED
    BY <2>3, <2>4
<1>6. \A u \in T : h.active[u] # 0 => h.active[u] \in DOMAIN tm /\ tm[h.active[u]].w = u
  BY <1>1, <1>3, <1>4
<1>7. HeapOK(r, T)
  BY <1>1, <1>4, <1>5, <1>6 DEF HeapOK
<1> QED  BY <1>2, <1>7

-----------------------------------------------------------------------------
(* Timers started one after another *)

NoTimers(T) == [timers |-> << >>, active |-> [w \in T |-> 0]]

\* heap[i] holds the first i of the timers, started in the order of their numbers.
StartedStepwise(heap, ats) ==
  heap = [i \in 0 .. Len(ats) |->
            IF i = 0 THEN NoTimers(DOMAIN ats) ELSE HeapInsert(heap[i - 1], i, ats[i])]

FirstTimers(ats, i) == {[w |-> w, at |-> ats[w]] : w \in 1 .. i}

\* The first i timers have been started.
StartedOK(h, ats, i) ==
  /\ HeapOK(h, DOMAIN ats)
  /\ \A w \in DOMAIN ats : h.active[w] # 0 <=> w \in 1 .. i
  /\ Held(h) = FirstTimers(ats, i)

LEMMA NothingStarted ==
  ASSUME NEW ats \in Seq(Int)
  PROVE  StartedOK(NoTimers(DOMAIN ats), ats, 0)
<1> DEFINE T == DOMAIN ats
           h == NoTimers(T)
<1>1. h.timers = << >> /\ h.active = [w \in T |-> 0] /\ h = [timers |-> << >>, active |-> [w \in T |-> 0]]
  BY DEF NoTimers
<1>2. h \in [timers : Seq(Entries(T)), active : [T -> Nat]]
  <2> HIDE DEF T
  <2>1. << >> \in Seq(Entries(T)) /\ [w \in T |-> 0] \in [T -> Nat]
    OBVIOUS
  <2> HIDE DEF h
  <2>2. QED
    BY <1>1, <2>1, Zenon
<1>3. DOMAIN h.timers = {} /\ 1 .. Len(h.timers) = {} /\ 1 .. 0 = {}
  BY <1>1
<1>4. verify_heap(h)
  BY <1>3, Zenon DEF verify_heap
<1>5. \A w \in T : h.active[w] = 0
  BY <1>1
<1>6. HeapOK(h, T)
  BY <1>2, <1>4, <1>5 DEF HeapOK
<1>7. Held(h) = {} /\ FirstTimers(ats, 0) = {}
  BY <1>3, Zenon DEF Held, FirstOf, FirstTimers
<1> QED  BY <1>3, <1>5, <1>6, <1>7 DEF StartedOK

LEMMA OneMoreStarted ==
  ASSUME NEW ats \in Seq(Int), NEW i \in 1 .. Len(ats), NEW h, StartedOK(h, ats, i - 1)
  PROVE  StartedOK(HeapInsert(h, i, ats[i]), ats, i)
<1> DEFINE T == DOMAIN ats
           r == HeapInsert(h, i, ats[i])
<1>1. T = 1 .. Len(ats) /\ i \in T /\ ats[i] \in Int /\ i \in Nat /\ Len(ats) \in Nat
  OBVIOUS
<1>2. /\ HeapOK(h, T)
      /\ \A w \in T : h.active[w] # 0 <=> w \in 1 .. i - 1
      /\ Held(h) = FirstTimers(ats, i - 1)
  BY DEF StartedOK
<1>3. i \notin 1 .. i - 1 /\ \A w \in Nat : w \in 1 .. i <=> w \in 1 .. i - 1 \/ w = i
  BY <1>1
<1> HIDE DEF T
<1>4. h.active[i] = 0
  BY <1>1, <1>2, <1>3
<1>5. /\ HeapOK(r, T)
      /\ \A u \in T : r.active[u] # 0 <=> u = i \/ h.active[u] # 0
      /\ Held(r) = Held(h) \cup {[w |-> i, at |-> ats[i]]}
  BY <1>1, <1>2, <1>4, InsertKeepsHeap
<1>6. \A u \in T : r.active[u] # 0 <=> u \in 1 .. i
  <2>1. \A u \in T : u \in Nat
    BY <1>1
  <2>2. QED
    BY <1>2, <1>3, <1>5, <2>1
<1>7. Held(r) = FirstTimers(ats, i)
  <2>1. ASSUME NEW x
        PROVE  x \in FirstTimers(ats, i) <=> x \in FirstTimers(ats, i - 1) \/ x = [w |-> i, at |-> ats[i]]
    <3>1. \A w : w \in 1 .. i <=> w \in 1 .. i - 1 \/ w = i
      BY <1>1
    <3>2. QED
      BY <3>1, Zenon DEF FirstTimers
  <2>2. QED
    BY <1>2, <1>5, <2>1
<1> HIDE DEF r
<1>8. QED
  BY <1>5, <1>6, <1>7 DEF StartedOK, T, r

\* However many are started, there is such a sequence of heaps.
LEMMA StartsExist ==
  ASSUME NEW ats \in Seq(Int)
  PROVE  \E heap : StartedStepwise(heap, ats)
<1> DEFINE n == Len(ats)
           T == DOMAIN ats
           Q == {h \in [timers : Seq(Entries(T)), active : [T -> Nat]] : HeapOK(h, T)}
           Start(h, i) == IF h.active[i] = 0 THEN HeapInsert(h, i, ats[i]) ELSE h
           F == [i \in 1 .. n |-> [h \in Q |-> Start(h, i)]]
<1>1. n \in Nat /\ T = 1 .. n /\ \A i \in 1 .. n : i \in T /\ ats[i] \in Int
  OBVIOUS
<1>2. \A h : HeapOK(h, T) => h \in Q
  BY DEF HeapOK
<1>3. NoTimers(T) \in Q
  BY <1>2, NothingStarted DEF StartedOK
<1> HIDE DEF n, T
<1>4. F \in [1 .. n -> [Q -> Q]]
  <2>1. ASSUME NEW i \in 1 .. n, NEW h \in Q
        PROVE  Start(h, i) \in Q
    <3>1. CASE h.active[i] = 0
      <4>1. HeapOK(HeapInsert(h, i, ats[i]), T)
        BY <1>1, <3>1, InsertKeepsHeap
      <4>2. QED
        BY <1>2, <3>1, <4>1
    <3>2. CASE h.active[i] # 0
      BY <3>2
    <3>3. QED
      BY <3>1, <3>2
  <2> HIDE DEF Start, Q
  <2>2. QED
    BY <2>1
<1> HIDE DEF Q
<1>5. PICK f : Rounds(f, n, Q, NoTimers(T), F)
  <2> HIDE DEF F
  <2> QED  BY <1>1, <1>3, <1>4, Iteration
<1>6. /\ f[0] = NoTimers(T) /\ f = [i \in 0 .. n |-> f[i]]
      /\ \A i \in 1 .. n : f[i] = F[i][f[i - 1]] /\ f[i - 1] \in Q
  <2>1. \A i \in 1 .. n : i - 1 \in 0 .. n
    BY <1>1
  <2> HIDE DEF F
  <2>2. QED
    BY <1>5, <2>1 DEF Rounds
<1>7. \A i \in 1 .. n : f[i] = Start(f[i - 1], i)
  BY <1>6, Zenon
<1> HIDE DEF F
<1> DEFINE S == {i \in 0 .. n : StartedOK(f[i], ats, i)}
<1>8. 0 \in S
  <2>1. StartedOK(f[0], ats, 0)
    BY <1>6, NothingStarted DEF T
  <2>2. QED
    BY <1>1, <2>1
<1>9. ASSUME NEW i \in 1 .. n, i - 1 \in S
      PROVE  i \in S /\ f[i] = HeapInsert(f[i - 1], i, ats[i])
  <2>1. StartedOK(f[i - 1], ats, i - 1) /\ i \in T /\ i \in 0 .. n
    BY <1>1, <1>9
  <2>2. i \notin 1 .. i - 1
    BY <1>1
  <2>3. f[i - 1].active[i] = 0
    BY <2>1, <2>2 DEF StartedOK, T
  <2>4. f[i] = HeapInsert(f[i - 1], i, ats[i])
    BY <1>7, <2>3
  <2>5. StartedOK(f[i], ats, i)
    BY <2>1, <2>4, OneMoreStarted DEF n
  <2>6. QED
    BY <2>1, <2>4, <2>5
<1> HIDE DEF S
<1>10. \A i \in 0 .. n : i \in S
  BY <1>1, <1>8, <1>9, Climb
<1>11. \A i \in 1 .. n : f[i] = HeapInsert(f[i - 1], i, ats[i])
  <2>1. \A i \in 1 .. n : i - 1 \in 0 .. n
    BY <1>1
  <2>2. QED
    BY <1>9, <1>10, <2>1
<1>12. \A i \in 0 .. n : f[i] = IF i = 0 THEN NoTimers(T) ELSE HeapInsert(f[i - 1], i, ats[i])
  <2>1. \A i \in 0 .. n : i = 0 \/ i \in 1 .. n
    BY <1>1
  <2>2. QED
    BY <1>6, <1>11, <2>1
<1>13. f = [i \in 0 .. n |-> IF i = 0 THEN NoTimers(T) ELSE HeapInsert(f[i - 1], i, ats[i])]
  BY <1>6, <1>12, Zenon
<1> QED  BY <1>13, Zenon DEF StartedStepwise, n, T

\* And all of them are heaps of the timers started so far.
LEMMA StartsKeepHeap ==
  ASSUME NEW ats \in Seq(Int), NEW heap, StartedStepwise(heap, ats)
  PROVE  \A i \in 0 .. Len(ats) : StartedOK(heap[i], ats, i)
<1> DEFINE n == Len(ats)
           S == {i \in 0 .. n : StartedOK(heap[i], ats, i)}
<1>1. n \in Nat
  OBVIOUS
<1>2. ASSUME NEW i \in 0 .. n
      PROVE  heap[i] = IF i = 0 THEN NoTimers(DOMAIN ats) ELSE HeapInsert(heap[i - 1], i, ats[i])
  BY Zenon DEF StartedStepwise
<1> HIDE DEF n
<1>3. 0 \in S
  <2>1. 0 \in 0 .. n
    BY <1>1
  <2>2. heap[0] = NoTimers(DOMAIN ats)
    BY <1>2, <2>1
  <2>3. QED
    BY <2>1, <2>2, NothingStarted
<1>4. ASSUME NEW i \in 1 .. n, i - 1 \in S
      PROVE  i \in S
  <2>1. i \in 0 .. n /\ i # 0 /\ StartedOK(heap[i - 1], ats, i - 1)
    BY <1>1, <1>4
  <2>2. heap[i] = HeapInsert(heap[i - 1], i, ats[i])
    BY <1>2, <2>1
  <2>3. StartedOK(heap[i], ats, i)
    BY <2>1, <2>2, OneMoreStarted DEF n
  <2>4. QED
    BY <2>1, <2>3
<1> HIDE DEF S
<1>5. \A i \in 0 .. n : i \in S
  BY <1>1, <1>3, <1>4, Climb
<1> QED  BY <1>5 DEF S, n

EntriesOf(h) == {h.timers[i] : i \in DOMAIN h.timers}

\* What TimersStayHeap claims of timers that have all been started.
AllKept(heap, ats) ==
  LET all   == heap[Len(ats)]
      first == all.timers[1]
      later == HeapPostpone(all, first.at + 2)
  IN  /\ \A i \in DOMAIN ats : verify_heap(heap[i])
      /\ EntriesOf(all) = {[w |-> w, at |-> ats[w]] : w \in DOMAIN ats}
      /\ \A w \in DOMAIN ats :
           LET left == HeapRemove(all, w)
           IN  /\ verify_heap(left) /\ left.active[w] = 0
               /\ EntriesOf(left) = {e \in EntriesOf(all) : e.w # w}
      /\ verify_heap(later)
      /\ EntriesOf(later) = (EntriesOf(all) \ {first}) \cup {[first EXCEPT !.at = @ + 2]}

LEMMA HeldIsEntries ==
  ASSUME NEW T, NEW h, HeapOK(h, T)
  PROVE  EntriesOf(h) = Held(h) /\ verify_heap(h)
<1>1. DOMAIN h.timers = 1 .. Len(h.timers)
  BY HeapFacts
<1> QED  BY <1>1, Zenon DEF EntriesOf, Held, FirstOf, HeapOK

\* Timers started in any order of their deadlines, however many, are a heap that holds
\* them all with their deadlines; so are those left when one is stopped, and all of
\* them when the first is repeated later (ev.c:3904-3958 and 3361-3371).
THEOREM StartedTimersAreKept ==
  ASSUME NEW ats \in Seq(Int), ats # << >>, NEW heap, StartedStepwise(heap, ats)
  PROVE  AllKept(heap, ats)
<1> DEFINE n     == Len(ats)
           T     == DOMAIN ats
           all   == heap[n]
           first == all.timers[1]
           later == HeapPostpone(all, first.at + 2)
<1>1. n \in Nat /\ T = 1 .. n /\ n \in 0 .. n /\ 1 \in T /\ \A i \in T : i \in 0 .. n
  OBVIOUS
<1>2. \A i \in 0 .. n : StartedOK(heap[i], ats, i)
  BY StartsKeepHeap
<1>3. \A i \in T : verify_heap(heap[i])
  BY <1>1, <1>2 DEF StartedOK, HeapOK
<1>4. /\ HeapOK(all, T) /\ \A w \in T : all.active[w] # 0
      /\ Held(all) = {[w |-> w, at |-> ats[w]] : w \in T}
  BY <1>1, <1>2 DEF StartedOK, FirstTimers
<1>5. EntriesOf(all) = Held(all)
  BY <1>4, HeldIsEntries
<1> HIDE DEF n, T, all
<1>6. ASSUME NEW w \in T
      PROVE  LET left == HeapRemove(all, w)
             IN  /\ verify_heap(left) /\ left.active[w] = 0
                 /\ EntriesOf(left) = {e \in EntriesOf(all) : e.w # w}
  <2> DEFINE left == HeapRemove(all, w)
  <2>1. all.active[w] # 0
    BY <1>4
  <2>2. /\ HeapOK(left, T)
        /\ \A u \in T : left.active[u] # 0 <=> u # w /\ all.active[u] # 0
        /\ Held(left) = {e \in Held(all) : e.w # w}
    BY <1>4, <2>1, RemoveKeepsHeap
  <2> HIDE DEF left
  <2>3. EntriesOf(left) = Held(left) /\ verify_heap(left)
    BY <2>2, HeldIsEntries
  <2>4. left.active[w] = 0
    BY <2>2
  <2>5. QED
    BY <1>5, <2>2, <2>3, <2>4 DEF left
<1>7. all.timers # << >> /\ first.at \in Int /\ first = [w |-> first.w, at |-> first.at]
  <2>1. all.active[1] \in 1 .. Len(all.timers)
    BY <1>1, <1>4, HeapFacts
  <2>2. Len(all.timers) \in Nat /\ all.timers \in Seq(Entries(T))
    BY <1>4, HeapFacts
  <2>3. 1 \in 1 .. Len(all.timers)
    BY <2>1, <2>2
  <2>4. QED
    BY <1>4, <2>2, <2>3, HeapFacts
<1>8. first.at + 2 \in Int /\ first.at <= first.at + 2
  BY <1>7
<1>9. /\ HeapOK(later, T)
      /\ Held(later) = (Held(all) \ {first}) \cup {[first EXCEPT !.at = first.at + 2]}
  BY <1>4, <1>7, <1>8, PostponeKeepsHeap
<1>10. [first EXCEPT !.at = @ + 2] = [first EXCEPT !.at = first.at + 2]
  BY <1>7
<1> HIDE DEF later
<1>11. EntriesOf(later) = Held(later) /\ verify_heap(later)
  BY <1>9, HeldIsEntries
<1> HIDE DEF first
<1>12. /\ EntriesOf(all) = {[w |-> w, at |-> ats[w]] : w \in T}
       /\ EntriesOf(later) = (EntriesOf(all) \ {first}) \cup {[first EXCEPT !.at = @ + 2]}
  BY <1>4, <1>5, <1>9, <1>10, <1>11
<1> QED  BY <1>3, <1>6, <1>11, <1>12, Zenon DEF AllKept, n, T, all, first, later
===============================================================================
