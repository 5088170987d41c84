----------------------------- MODULE CodecsProofs -----------------------------
(***************************************************************************)
(* Proofs about what the program computes: the clock that never goes back, *)
(* the table of redundancy, the blobs packets travel in, the command       *)
(* line, the checksums, the cooking of packets, and many timers.           *)
(***************************************************************************)
EXTENDS Codecs, TLAPS, NaturalsInduction, WellFoundedInduction, FiniteSetTheorems

-----------------------------------------------------------------------------
(* Repetitions *)

\* A set of natural numbers has a least element.
LEMMA LeastElement ==
  ASSUME NEW S, S \subseteq Nat, S # {}
  PROVE  \E m \in S : \A n \in S : m <= n
<1>1. IsWellFoundedOn(OpToRel(<, Nat), Nat)
  BY NatLessThanWellFounded, Zenon
<1>2. PICK m \in S : \A n \in S : ~ (<<n, m>> \in OpToRel(<, Nat))
  BY <1>1, WFMin, Zenon
<1>3. ASSUME NEW n \in S
      PROVE  m <= n
  <2>1. n \in Nat /\ m \in Nat
    OBVIOUS
  <2>2. ~ (n < m)
    BY <1>2, <2>1, Zenon DEF OpToRel
  <2>3. QED
    BY <2>1, <2>2
<1>4. QED
  BY <1>3

\* What holds at 0 and from each number to the next holds up to n.
LEMMA Climb ==
  ASSUME NEW n \in Nat, NEW S, 0 \in S, \A i \in 1 .. n : i - 1 \in S => i \in S
  PROVE  n \in S /\ \A i \in 0 .. n : i \in S
<1> DEFINE missing == {i \in 0 .. n : i \notin S}
<1>1. ASSUME missing # {}
      PROVE  FALSE
  <2>1. missing \subseteq Nat
    OBVIOUS
  <2>2. PICK m \in missing : \A i \in missing : m <= i
    <3> HIDE DEF missing
    <3> QED  BY <1>1, <2>1, LeastElement
  <2>3. m \in 0 .. n /\ m \notin S /\ m # 0
    BY <2>2
  <2>4. m \in 1 .. n /\ m - 1 \in 0 .. n /\ ~ (m <= m - 1)
    BY <2>3
  <2>5. m - 1 \in S
    BY <2>2, <2>4
  <2>6. QED
    BY <2>3, <2>4, <2>5
<1>2. n \in 0 .. n
  OBVIOUS
<1> QED  BY <1>1, <1>2

\* f[i] is what F makes of q in i rounds.
Rounds(f, n, Q, q, F) ==
  /\ f \in [0 .. n -> Q] /\ f[0] = q
  /\ \A i \in 1 .. n : f[i] = F[i][f[i - 1]]

\* A function defined by rounds exists and is what each round makes of the one before.
LEMMA Iteration ==
  ASSUME NEW n \in Nat, NEW Q, NEW q \in Q, NEW F \in [1 .. n -> [Q -> Q]]
  PROVE  \E f : Rounds(f, n, Q, q, F)
<1> DEFINE Solves(f, m) == Rounds(f, m, Q, q, F)
           S == {m \in 0 .. n : \E f : Solves(f, m)}
<1>1. 0 \in S
  <2>1. Solves([i \in 0 .. 0 |-> q], 0)
    BY DEF Rounds
  <2>2. 0 \in 0 .. n
    OBVIOUS
  <2> HIDE DEF Solves
  <2>3. QED
    BY <2>1, <2>2
<1>2. ASSUME NEW m \in 1 .. n, m - 1 \in S
      PROVE  m \in S
  <2>1. PICK f : Solves(f, m - 1)
    BY <1>2
  <2> DEFINE x == F[m][f[m - 1]]
             g == [i \in 0 .. m |-> IF i = m THEN x ELSE f[i]]
  <2>2. f \in [0 .. m - 1 -> Q] /\ f[0] = q /\ f[m - 1] \in Q /\ x \in Q
    BY <2>1 DEF Rounds
  <2> HIDE DEF x
  <2>3. g \in [0 .. m -> Q] /\ g[0] = q
    BY <2>2
  <2>4. ASSUME NEW i \in 1 .. m
        PROVE  g[i] = F[i][g[i - 1]]
    <3>1. i - 1 \in 0 .. m /\ i - 1 # m /\ g[i - 1] = f[i - 1]
      OBVIOUS
    <3>2. CASE i = m
      BY <3>1, <3>2 DEF x
    <3>3. CASE i # m
      <4>1. i \in 1 .. m - 1
        BY <3>3
      <4>2. f[i] = F[i][f[i - 1]]
        BY <2>1, <4>1 DEF Rounds
      <4>3. g[i] = f[i]
        BY <3>3
      <4>4. QED
        BY <3>1, <4>2, <4>3
    <3>4. QED
      BY <3>2, <3>3
  <2> HIDE DEF g
  <2>5. Solves(g, m) /\ m \in 0 .. n
    BY <2>3, <2>4 DEF Rounds
  <2> HIDE DEF Solves
  <2>6. QED
    BY <2>5
<1>3. n \in S
  <2> HIDE DEF S
  <2> QED  BY <1>1, <1>2, Climb
<1> QED  BY <1>3

-----------------------------------------------------------------------------
(* What is computed *)

\* What is computed with is what was handed in.
InputOK ==
  /\ input.kind = "checksum" => input.args \in Messages
  /\ input.kind = "xor" => input.args.data \in DataLens /\ input.args.pat \in PatternLens
  /\ input.kind = "key" => input.args \in KeyLens
  /\ input.kind = "transmit" => input.args.sent \in Datagrams /\ input.args.burst \in Bursts
  /\ input.kind = "clock" => input.args \in Clocks
  /\ input.kind = "fec" => input.args \in Strings
  /\ input.kind = "pack" => input.args \in Packings
  /\ input.kind = "timers" => input.args.dheap \in {2, 4} /\ input.args.ats \in Deadlines
  /\ input.kind = "unpack" => input.args \in Buffers
  /\ input.kind = "arguments" =>
       input.args.argv \in CommandLines /\ input.args.junk \in Uninitialized

\* Every step hands in one of the inputs, or none.
LEMMA InputStaysOK ==
  ASSUME InputOK, [Next]_input
  PROVE  InputOK'
<1>1. CASE ParseFec
  BY <1>1 DEF ParseFec, Compute, InputOK
<1>2. CASE ReadClock
  BY <1>2 DEF ReadClock, Compute, InputOK
<1>3. CASE Pack
  BY <1>3 DEF Pack, Compute, InputOK
<1>4. CASE Unpack
  BY <1>4 DEF Unpack, Compute, InputOK
<1>5. CASE Finish
  BY <1>5 DEF Finish, Idle, InputOK
<1>6. CASE UNCHANGED input
  BY <1>6 DEF InputOK
<1>0. CASE Checksum
  BY <1>0 DEF Checksum, Compute, InputOK
<1>7. CASE Erase \/ Invert \/ TakeDegree
  BY <1>7 DEF Erase, Invert, TakeDegree, Compute, InputOK
<1>8. CASE AddPackets \/ StartTimers
  BY <1>8 DEF AddPackets, StartTimers, Compute, InputOK
<1>9. CASE Begin
  BY <1>9 DEF Begin, Compute, InputOK
<1>10. CASE Spread
  BY <1>10 DEF Spread, Compute, InputOK
<1>11. CASE PrepareKey
  BY <1>11 DEF PrepareKey, Compute, InputOK
<1>12. CASE Transmit
  BY <1>12 DEF Transmit, Compute, InputOK
<1> QED  BY <1>0, <1>1, <1>2, <1>3, <1>4, <1>5, <1>6, <1>7, <1>8, <1>9, <1>10, <1>11, <1>12 DEF Next

\* Whatever is computed with is one of the inputs.
LEMMA InputsAreGiven == Spec => []InputOK
<1>1. Init => InputOK
  BY DEF Init, Idle, InputOK
<1>2. InputOK /\ [Next]_input => InputOK'
  BY InputStaysOK
<1> QED  BY <1>1, <1>2, PTL DEF Spec

-----------------------------------------------------------------------------
(* The clock *)

Corrections == [value_fix : Int, largest_value : Int, now : Int]

\* f[i] is the correction after i readings.
ReadStepwise(f, raw) ==
  /\ f[0] = Start
  /\ \A i \in 1 .. Len(raw) : f[i] = get_current_time_us(f[i - 1], raw[i])
  /\ \A i \in 1 .. Len(raw) : Readings(raw)[i] = f[i].now

\* A reading changes the correction and what is seen, or the largest value and that.
LEMMA ReadingFacts ==
  ASSUME NEW c \in Corrections, NEW raw_value \in Int
  PROVE  LET d     == get_current_time_us(c, raw_value)
             fixed == raw_value + c.value_fix
             back  == fixed < c.largest_value
         IN  /\ d \in Corrections
             /\ d.value_fix = IF back THEN c.value_fix + c.largest_value - fixed ELSE c.value_fix
             /\ d.largest_value = IF back THEN c.largest_value ELSE fixed
             /\ d.now = IF back THEN c.largest_value ELSE fixed
<1> DEFINE fixed == raw_value + c.value_fix
           fix == c.value_fix + c.largest_value - fixed
<1>1. c.value_fix \in Int /\ c.largest_value \in Int /\ c.now \in Int
  BY DEF Corrections
<1>2. fixed \in Int /\ fix \in Int /\ raw_value + fix = c.largest_value
  BY <1>1
<1>3. get_current_time_us(c, raw_value)
        = IF fixed < c.largest_value
          THEN [[c EXCEPT !.value_fix = fix] EXCEPT !.now = raw_value + fix]
          ELSE [[c EXCEPT !.largest_value = fixed] EXCEPT !.now = fixed]
  BY DEF get_current_time_us
<1> HIDE DEF fixed, fix
<1>4. CASE fixed < c.largest_value
  <2> DEFINE e == [c EXCEPT !.value_fix = fix]
             d == [e EXCEPT !.now = raw_value + fix]
  <2>1. /\ e \in Corrections /\ e.value_fix = fix
        /\ e.largest_value = c.largest_value
    BY <1>2 DEF Corrections
  <2> HIDE DEF e
  <2>2. /\ d \in Corrections /\ d.value_fix = e.value_fix
        /\ d.largest_value = e.largest_value /\ d.now = c.largest_value
    BY <1>1, <1>2, <2>1 DEF Corrections
  <2>3. get_current_time_us(c, raw_value) = d
    BY <1>3, <1>4 DEF e
  <2> HIDE DEF d
  <2>4. QED
    BY <1>4, <2>1, <2>2, <2>3 DEF fixed, fix
<1>5. CASE ~ (fixed < c.largest_value)
  <2> DEFINE e == [c EXCEPT !.largest_value = fixed]
             d == [e EXCEPT !.now = fixed]
  <2>1. /\ e \in Corrections /\ e.value_fix = c.value_fix
        /\ e.largest_value = fixed
    BY <1>2 DEF Corrections
  <2> HIDE DEF e
  <2>2. /\ d \in Corrections /\ d.value_fix = e.value_fix
        /\ d.largest_value = e.largest_value /\ d.now = fixed
    BY <1>1, <1>2, <2>1 DEF Corrections
  <2>3. get_current_time_us(c, raw_value) = d
    BY <1>3, <1>5 DEF e
  <2> HIDE DEF d
  <2>4. QED
    BY <1>5, <2>1, <2>2, <2>3 DEF fixed
<1> QED  BY <1>4, <1>5

\* The readings are taken one after the other.
LEMMA ReadingsUnfold ==
  ASSUME NEW raw \in Seq(Int)
  PROVE  \E f : ReadStepwise(f, raw)
<1> DEFINE n == Len(raw)
           Body(g) == [i \in 0 .. n |->
                         IF i = 0 THEN Start ELSE get_current_time_us(g[i - 1], raw[i])]
           F == [i \in 1 .. n |-> [c \in Corrections |-> get_current_time_us(c, raw[i])]]
           after == CHOOSE g : g = Body(g)
<1>1. n \in Nat /\ DOMAIN raw = 1 .. n /\ \A i \in 1 .. n : raw[i] \in Int
  OBVIOUS
<1> HIDE DEF n
<1>2. F \in [1 .. n -> [Corrections -> Corrections]]
  <2>1. ASSUME NEW i \in 1 .. n, NEW c \in Corrections
        PROVE  get_current_time_us(c, raw[i]) \in Corrections
    BY <1>1, ReadingFacts
  <2>2. QED
    BY <2>1
<1>3. Start \in Corrections
  BY DEF Start, Corrections
<1>4. PICK f : Rounds(f, n, Corrections, Start, F)
  <2> HIDE DEF F
  <2> QED  BY <1>1, <1>2, <1>3, Iteration
<1>5. f = Body(f)
  <2>1. ASSUME NEW i \in 0 .. n
        PROVE  f[i] = IF i = 0 THEN Start ELSE get_current_time_us(f[i - 1], raw[i])
    <3>1. CASE i = 0
      BY <1>4, <3>1 DEF Rounds
    <3>2. CASE i # 0
      <4>1. i \in 1 .. n /\ f[i - 1] \in Corrections
        BY <1>1, <1>4, <3>2 DEF Rounds
      <4>2. f[i] = F[i][f[i - 1]]
        BY <1>4, <4>1 DEF Rounds
      <4>3. F[i][f[i - 1]] = get_current_time_us(f[i - 1], raw[i])
        BY <4>1
      <4>4. QED
        BY <3>2, <4>2, <4>3
    <3>3. QED
      BY <3>1, <3>2
  <2>2. f = [i \in 0 .. n |-> f[i]]
    BY <1>4 DEF Rounds
  <2> HIDE DEF F
  <2>3. QED
    BY <2>1, <2>2
<1>6. after = Body(after)
  <2> HIDE DEF Body
  <2> QED  BY <1>5
<1>7. Readings(raw) = [i \in DOMAIN raw |-> after[i].now]
  BY DEF Readings, n
<1> HIDE DEF after
<1>8. after[0] = Start /\ \A i \in 1 .. n : after[i] = get_current_time_us(after[i - 1], raw[i])
  <2>1. ASSUME NEW i \in 0 .. n
        PROVE  after[i] = IF i = 0 THEN Start ELSE get_current_time_us(after[i - 1], raw[i])
    BY <1>6
  <2>2. 0 \in 0 .. n /\ \A i \in 1 .. n : i \in 0 .. n /\ i # 0
    BY <1>1
  <2>3. QED
    BY <2>1, <2>2
<1>9. \A i \in 1 .. n : Readings(raw)[i] = after[i].now
  BY <1>1, <1>7
<1>10. ReadStepwise(after, raw)
  BY <1>8, <1>9 DEF n, ReadStepwise
<1> QED  BY <1>10

\* What a caller gets is the largest value so far, and as far from the wall clock as the
\* correction says.
Corrected(c, raw_value) ==
  c \in Corrections /\ c.now = c.largest_value /\ c.now = raw_value + c.value_fix

LEMMA ReadingIsCorrected ==
  ASSUME NEW c \in Corrections, c.now = c.largest_value, NEW raw_value \in Int
  PROVE  LET d == get_current_time_us(c, raw_value)
         IN  /\ Corrected(d, raw_value)
             /\ d.now = IF raw_value + c.value_fix < c.now THEN c.now
                        ELSE raw_value + c.value_fix
<1>1. /\ c.value_fix \in Int /\ c.largest_value \in Int /\ c.now \in Int
  BY DEF Corrections
<1> DEFINE d     == get_current_time_us(c, raw_value)
           fixed == raw_value + c.value_fix
           back  == fixed < c.largest_value
<1>2. /\ d \in Corrections
      /\ d.value_fix = IF back THEN c.value_fix + c.largest_value - fixed ELSE c.value_fix
      /\ d.largest_value = IF back THEN c.largest_value ELSE fixed
      /\ d.now = IF back THEN c.largest_value ELSE fixed
  BY ReadingFacts
<1> HIDE DEF d
<1>3. Corrected(d, raw_value)
  BY <1>1, <1>2 DEF Corrected
<1>4. d.now = IF raw_value + c.value_fix < c.now THEN c.now ELSE raw_value + c.value_fix
  BY <1>1, <1>2
<1> QED  BY <1>3, <1>4 DEF d

\* Between two readings the time that callers see grows as the wall clock does, and not
\* at all when that is set back.
LEMMA ReadingsNeverGoBack ==
  ASSUME NEW raw \in Seq(Int), NEW i \in 2 .. Len(raw)
  PROVE  Readings(raw)[i] - Readings(raw)[i - 1]
           = IF raw[i] > raw[i - 1] THEN raw[i] - raw[i - 1] ELSE 0
<1>0. PICK f : ReadStepwise(f, raw)
  BY ReadingsUnfold
<1> DEFINE n == Len(raw)
<1>1. /\ n \in Nat /\ \A j \in 1 .. n : raw[j] \in Int
      /\ i \in 1 .. n /\ i - 1 \in 1 .. n
  OBVIOUS
<1>2. /\ f[0] = Start
      /\ \A j \in 1 .. n : f[j] = get_current_time_us(f[j - 1], raw[j])
      /\ \A j \in 1 .. n : Readings(raw)[j] = f[j].now
  BY <1>0 DEF ReadStepwise
<1> HIDE DEF n
<1> DEFINE S == {j \in 0 .. n : f[j] \in Corrections /\ f[j].now = f[j].largest_value}
<1>3. 0 \in S
  BY <1>1, <1>2 DEF Start, Corrections
<1>4. ASSUME NEW j \in 1 .. n, j - 1 \in S
      PROVE  j \in S
  <2>1. Corrected(get_current_time_us(f[j - 1], raw[j]), raw[j])
    BY <1>1, <1>4, ReadingIsCorrected
  <2>2. Corrected(f[j], raw[j]) /\ j \in 0 .. n
    BY <1>1, <1>2, <2>1
  <2>3. QED
    BY <2>2 DEF Corrected
<1>5. \A j \in 0 .. n : j \in S
  <2> HIDE DEF S
  <2> QED  BY <1>1, <1>3, <1>4, Climb
<1>6. \A j \in 0 .. n : f[j] \in Corrections /\ f[j].now = f[j].largest_value
  BY <1>5
<1>7. ASSUME NEW j \in 1 .. n
      PROVE  /\ Corrected(f[j], raw[j]) /\ j - 1 \in 0 .. n
             /\ f[j].now = IF raw[j] + f[j - 1].value_fix < f[j - 1].now THEN f[j - 1].now
                           ELSE raw[j] + f[j - 1].value_fix
  <2>1. j - 1 \in 0 .. n /\ raw[j] \in Int
    BY <1>1
  <2>2. f[j] = get_current_time_us(f[j - 1], raw[j])
    BY <1>2
  <2>3. QED
    BY <1>6, <2>1, <2>2, ReadingIsCorrected
<1>8. Corrected(f[i - 1], raw[i - 1])
  BY <1>1, <1>7
<1>9. f[i].now = IF raw[i] + f[i - 1].value_fix < f[i - 1].now THEN f[i - 1].now
                 ELSE raw[i] + f[i - 1].value_fix
  BY <1>1, <1>7
<1>10. /\ f[i - 1].now = raw[i - 1] + f[i - 1].value_fix
       /\ f[i - 1].now \in Int /\ f[i - 1].value_fix \in Int
       /\ raw[i] \in Int /\ raw[i - 1] \in Int
  BY <1>1, <1>8 DEF Corrected, Corrections
<1>11. Readings(raw)[i] = f[i].now /\ Readings(raw)[i - 1] = f[i - 1].now
  BY <1>1, <1>2
<1> QED  BY <1>9, <1>10, <1>11

\* However the wall clock is set, the time of the timers stands still while it goes back
\* and otherwise goes on as fast as it does (common.cpp:426-448).
THEOREM ClockNeverGoesBack == Spec => []TimeNeverGoesBack
<1>1. InputOK => TimeNeverGoesBack
  <2> SUFFICES ASSUME InputOK, input.kind = "clock"
               PROVE  LET raw  == input.args
                          seen == Readings(raw)
                      IN  \A i \in 2 .. Len(raw) :
                            seen[i] - seen[i - 1]
                              = (IF raw[i] > raw[i - 1] THEN raw[i] - raw[i - 1] ELSE 0)
    BY DEF TimeNeverGoesBack
  <2>1. input.args \in Seq(Int)
    BY InputsAssumption DEF InputOK
  <2>2. QED
    BY <2>1, ReadingsNeverGoBack
<1> QED  BY <1>1, InputsAreGiven, PTL

-----------------------------------------------------------------------------
(* The table of redundancy *)

PairSet == [x : Int, y : Int]

\* Rounded up, a quotient is no less than the fraction.
LEMMA CeilDivIsAbove ==
  ASSUME NEW a \in Int, NEW b \in Int, b > 0
  PROVE  CeilDiv(a, b) \in Int /\ CeilDiv(a, b) * b >= a
<1> DEFINE q == (-a) \div b
<1>1. q \in Int /\ b * q <= -a
  OBVIOUS
<1>2. CeilDiv(a, b) = -q
  BY DEF CeilDiv
<1> HIDE DEF q
<1>3. (-q) * b = -(b * q)
  BY <1>1
<1> QED  BY <1>1, <1>2, <1>3

\* It is the least number that is no less.
LEMMA CeilDivIsLeast ==
  ASSUME NEW a \in Int, NEW b \in Int, b > 0, NEW k \in Int, k * b >= a
  PROVE  CeilDiv(a, b) <= k
<1> DEFINE q == (-a) \div b
<1>1. q \in Int /\ -a < b * q + b
  OBVIOUS
<1>2. CeilDiv(a, b) = -q
  BY DEF CeilDiv
<1> HIDE DEF q
<1>3. (-k) * b = -(k * b) /\ (q + 1) * b = b * q + b
  BY <1>1
<1>4. (-k) * b < (q + 1) * b
  BY <1>1, <1>3
<1>5. -k >= q + 1 => (-k) * b >= (q + 1) * b
  BY <1>1
<1>6. -k < q + 1
  BY <1>1, <1>3, <1>4, <1>5
<1> QED  BY <1>1, <1>2, <1>6

\* A line between two heights that are not negative does not fall below zero.
LEMMA LineIsAboveZero ==
  ASSUME NEW ay \in Nat, NEW by \in Nat, NEW t \in Nat, NEW d \in Nat, t <= d, d > 0,
         NEW c \in Int, c * d >= (by - ay) * t
  PROVE  ay + c >= 0
<1>1. (ay + c) * d = ay * d + c * d
  OBVIOUS
<1>2. (by - ay) * t = by * t - ay * t
  OBVIOUS
<1>3. ay * d - ay * t = ay * (d - t)
  OBVIOUS
<1>4. ay * (d - t) >= 0 /\ by * t >= 0
  OBVIOUS
<1>5. ay * d \in Int /\ ay * t \in Int /\ by * t \in Int /\ c * d \in Int
  OBVIOUS
<1>6. (ay + c) * d >= 0
  BY <1>1, <1>2, <1>3, <1>4, <1>5
<1>7. ay + c <= -1 => (ay + c) * d <= -d
  OBVIOUS
<1> QED  BY <1>6, <1>7

\* A line between two groups that the code can encode has such groups only.
LEMMA LineIsBelowCap ==
  ASSUME NEW u \in Nat, NEW v \in Nat, NEW t \in Nat, NEW d \in Nat, t <= d
  PROVE  (u - t) * d >= (u - v - d) * t
<1>1. (u - t) * d = u * d - t * d
  OBVIOUS
<1>2. (u - v - d) * t = u * t - v * t - d * t
  OBVIOUS
<1>3. u * d - u * t = u * (d - t) /\ u * (d - t) >= 0 /\ v * t >= 0 /\ t * d = d * t
  OBVIOUS
<1>4. u * d \in Int /\ u * t \in Int /\ v * t \in Int /\ d * t \in Int
  OBVIOUS
<1> QED  BY <1>1, <1>2, <1>3, <1>4

\* A pair the code can encode.
Encodable(p) == p \in PairSet /\ p.x >= 1 /\ p.y >= 0 /\ p.x + p.y <= max_fec_packet_num

\* Between two pairs the redundancy is no less than on the line, and the code can encode it.
LEMMA BetweenIsOnLine ==
  ASSUME NEW a, Encodable(a), NEW b, Encodable(b), NEW x \in Int, a.x <= x, x <= b.x, a.x < b.x
  PROVE  /\ Between(a, b, x) \in 0 .. max_fec_packet_num - x
         /\ (Between(a, b, x) - a.y) * (b.x - a.x) >= (b.y - a.y) * (x - a.x)
<1> DEFINE m == max_fec_packet_num
           d == b.x - a.x
           t == x - a.x
           c == CeilDiv((b.y - a.y) * t, d)
           u == m - a.x - a.y
           v == m - b.x - b.y
<1>1. /\ a.x \in Int /\ a.y \in Nat /\ b.x \in Int /\ b.y \in Nat /\ m \in Nat
      /\ d \in Nat /\ d > 0 /\ t \in Nat /\ t <= d /\ u \in Nat /\ v \in Nat
  BY FecAssumption DEF Encodable, PairSet
<1>2. (b.y - a.y) * t \in Int
  BY <1>1
<1>3. c \in Int /\ c * d >= (b.y - a.y) * t
  <2> HIDE DEF d, t
  <2> QED  BY <1>1, <1>2, CeilDivIsAbove
<1>4. Between(a, b, x) = IF x + (a.y + c) > m THEN m - x ELSE a.y + c
  BY DEF Between
<1>5. a.y + c >= 0
  <2> HIDE DEF c, d, t
  <2> QED  BY <1>1, <1>3, LineIsAboveZero
<1>6. (u - t) * d >= (u - v - d) * t
  <2> HIDE DEF d, t, u, v
  <2> QED  BY <1>1, LineIsBelowCap
<1>7. u - t = (m - x) - a.y /\ u - v - d = b.y - a.y
  BY <1>1
<1> HIDE DEF c
<1>8. CASE x + (a.y + c) > m
  <2>1. Between(a, b, x) = m - x /\ m - x \in 0 .. m - x
    BY <1>1, <1>4, <1>8 DEF Encodable
  <2>2. ((m - x) - a.y) * d >= (b.y - a.y) * t
    BY <1>6, <1>7
  <2>3. QED
    BY <2>1, <2>2
<1>9. CASE ~ (x + (a.y + c) > m)
  <2>1. Between(a, b, x) = a.y + c /\ a.y + c \in 0 .. m - x /\ (a.y + c) - a.y = c
    BY <1>1, <1>3, <1>4, <1>5, <1>9
  <2>2. QED
    BY <1>3, <2>1
<1> QED  BY <1>8, <1>9

\* Between two pairs the decoder takes there are only groups it takes.
LEMMA BetweenIsTaken ==
  ASSUME NEW a, Encodable(a), NEW b, Encodable(b), NEW x \in Int, a.x <= x, x <= b.x, a.x < b.x,
         TakenByDecoder(a.x, a.y), TakenByDecoder(b.x, b.y)
  PROVE  TakenByDecoder(x, Between(a, b, x))
<1> DEFINE m == max_fec_packet_num
           d == b.x - a.x
           t == x - a.x
           c == CeilDiv((b.y - a.y) * t, d)
           u == m - 1 - a.x - a.y
           v == m - 1 - b.x - b.y
<1>1. /\ a.x \in Int /\ a.y \in Nat /\ b.x \in Int /\ b.y \in Nat /\ m \in Nat
      /\ d \in Nat /\ d > 0 /\ t \in Nat /\ t <= d /\ u \in Nat /\ v \in Nat
  BY FecAssumption DEF Encodable, PairSet, TakenByDecoder
<1>2. (b.y - a.y) * t \in Int
  BY <1>1
<1>3. (u - t) * d >= (u - v - d) * t
  <2> HIDE DEF d, t, u, v
  <2> QED  BY <1>1, LineIsBelowCap
<1>4. u - v - d = b.y - a.y
  BY <1>1
<1>5. c \in Int /\ c <= u - t
  <2>1. (u - t) * d >= (b.y - a.y) * t /\ u - t \in Int
    BY <1>1, <1>3, <1>4
  <2> HIDE DEF d, t, u
  <2>2. QED
    BY <1>1, <1>2, <2>1, CeilDivIsAbove, CeilDivIsLeast
<1>6. Between(a, b, x) = IF x + (a.y + c) > m THEN m - x ELSE a.y + c
  BY DEF Between
<1> HIDE DEF c
<1>7. x + (a.y + c) < m
  BY <1>1, <1>5
<1>8. Between(a, b, x) = a.y + c
  BY <1>1, <1>5, <1>6, <1>7
<1> QED  BY <1>7, <1>8 DEF TakenByDecoder

\* What is checked before anything is stored.
LEMMA AcceptableFacts ==
  ASSUME NEW s \in Seq(PairSet), Acceptable(s)
  PROVE  /\ Len(s) \in Nat /\ Len(s) >= 1 /\ DOMAIN s = 1 .. Len(s)
         /\ \A i \in 1 .. Len(s) : Encodable(s[i]) /\ s[i].x \in Int /\ s[i].y \in Int
         /\ \A i \in 2 .. Len(s) : s[i - 1].x < s[i].x
<1>1. Len(s) \in Nat /\ DOMAIN s = 1 .. Len(s) /\ s # << >>
  BY DEF Acceptable
<1>2. Len(s) >= 1
  BY <1>1
<1>3. \A i \in 1 .. Len(s) : s[i] \in PairSet
  OBVIOUS
<1>4. \A i \in 1 .. Len(s) : Encodable(s[i]) /\ s[i].x \in Int /\ s[i].y \in Int
  BY <1>1, <1>3 DEF Acceptable, Encodable, PairSet
<1>5. ASSUME NEW i \in 2 .. Len(s)
      PROVE  s[i - 1].x < s[i].x
  <2>1. s[i].x > s[i - 1].x
    BY DEF Acceptable
  <2>2. i \in 1 .. Len(s) /\ i - 1 \in 1 .. Len(s)
    BY <1>1
  <2>3. QED
    BY <1>4, <2>1, <2>2
<1> QED  BY <1>1, <1>2, <1>4, <1>5

\* Neighbours ascend, and so do all.
LEMMA Ascending ==
  ASSUME NEW s \in Seq(PairSet), Acceptable(s), NEW i \in 1 .. Len(s)
  PROVE  \A j \in 1 .. Len(s) : i < j => s[i].x < s[j].x
<1> DEFINE n == Len(s)
           S == {k \in 0 .. n : i < k => s[i].x < s[k].x}
<1>1. /\ n \in Nat /\ \A k \in 1 .. n : s[k].x \in Int
      /\ \A k \in 2 .. n : s[k - 1].x < s[k].x
  BY AcceptableFacts
<1>2. i \in 1 .. n
  OBVIOUS
<1> HIDE DEF n
<1>3. 0 \in S
  BY <1>1, <1>2
<1>4. ASSUME NEW k \in 1 .. n, k - 1 \in S
      PROVE  k \in S
  <2>1. k \in 0 .. n
    BY <1>1
  <2>2. CASE i < k - 1
    <3>1. s[i].x < s[k - 1].x /\ k \in 2 .. n /\ k - 1 \in 1 .. n
      BY <1>1, <1>2, <1>4, <2>2
    <3>2. s[i].x \in Int /\ s[k - 1].x \in Int /\ s[k].x \in Int /\ s[k - 1].x < s[k].x
      BY <1>1, <1>2, <3>1
    <3>3. QED
      BY <2>1, <3>1, <3>2
  <2>3. CASE i = k - 1
    BY <1>1, <1>2, <2>1, <2>3
  <2>4. CASE i > k - 1
    BY <1>1, <1>2, <2>1, <2>4
  <2>5. QED
    BY <1>1, <1>2, <2>2, <2>3, <2>4
<1>5. \A k \in 0 .. n : k \in S
  <2> HIDE DEF S
  <2> QED  BY <1>1, <1>3, <1>4, Climb
<1> QED  BY <1>1, <1>5 DEF n

\* Whatever is between the first pair and the last is between two neighbours.
LEMMA SegmentExists ==
  ASSUME NEW s \in Seq(PairSet), Acceptable(s), NEW x \in Int,
         s[1].x < x, x <= s[Len(s)].x
  PROVE  \E j \in 2 .. Len(s) : s[j - 1].x < x /\ x <= s[j].x
<1> DEFINE n == Len(s)
           S == {j \in 1 .. n : x <= s[j].x}
<1>1. n \in Nat /\ n >= 1 /\ \A j \in 1 .. n : s[j].x \in Int
  BY AcceptableFacts
<1>2. x <= s[n].x /\ s[1].x < x
  OBVIOUS
<1> HIDE DEF n
<1>3. S \subseteq Nat /\ S # {}
  BY <1>1, <1>2
<1>4. PICK j \in S : \A k \in S : j <= k
  <2> HIDE DEF S
  <2> QED  BY <1>3, LeastElement
<1>5. j \in 1 .. n /\ x <= s[j].x /\ j # 1
  BY <1>1, <1>2, <1>4
<1>6. j \in 2 .. n /\ j - 1 \in 1 .. n /\ j - 1 \notin S
  BY <1>1, <1>4, <1>5
<1>7. s[j - 1].x < x
  BY <1>1, <1>6
<1> QED  BY <1>5, <1>6, <1>7 DEF n

\* Between two neighbours the redundancy is theirs.
LEMMA SegmentValue ==
  ASSUME NEW s \in Seq(PairSet), Acceptable(s), NEW x \in Int,
         NEW i \in 2 .. Len(s), s[i - 1].x < x, x <= s[i].x
  PROVE  Redundancy(s, x) = IF x = s[i].x THEN s[i].y ELSE Between(s[i - 1], s[i], x)
<1> DEFINE n == Len(s)
           j == CHOOSE k \in 2 .. n : s[k - 1].x < x /\ x <= s[k].x
<1>1. n \in Nat /\ n >= 1 /\ \A k \in 1 .. n : s[k].x \in Int
  BY AcceptableFacts
<1>2. i \in 1 .. n /\ i - 1 \in 1 .. n /\ 1 \in 1 .. n /\ i \in Int
  BY <1>1
<1>3. s[1].x < x
  <2>1. CASE i - 1 = 1
    BY <2>1
  <2>2. CASE i - 1 # 1
    <3>1. s[1].x < s[i - 1].x
      BY <1>1, <1>2, <2>2, Ascending
    <3>2. QED
      BY <1>1, <1>2, <3>1
  <2>3. QED
    BY <2>1, <2>2
<1>4. j \in 2 .. n /\ s[j - 1].x < x /\ x <= s[j].x
  OBVIOUS
<1> HIDE DEF j
<1>5. j \in 1 .. n /\ j - 1 \in 1 .. n /\ j \in Int
  BY <1>1, <1>4
<1>6. ~ (i < j)
  <2>1. ASSUME i < j
        PROVE  FALSE
    <3>1. i = j - 1 \/ s[i].x < s[j - 1].x
      BY <1>2, <1>5, <2>1, Ascending
    <3>2. QED
      BY <1>1, <1>2, <1>4, <1>5, <3>1
  <2>2. QED
    BY <2>1
<1>7. ~ (j < i)
  <2>1. ASSUME j < i
        PROVE  FALSE
    <3>1. j = i - 1 \/ s[j].x < s[i - 1].x
      BY <1>2, <1>5, <2>1, Ascending
    <3>2. QED
      BY <1>1, <1>2, <1>4, <1>5, <3>1
  <2>2. QED
    BY <2>1
<1>8. i = j
  BY <1>2, <1>5, <1>6, <1>7
<1>9. ~ (x <= s[1].x)
  BY <1>1, <1>2, <1>3
<1>10. Redundancy(s, x) = IF x = s[j].x THEN s[j].y ELSE Between(s[j - 1], s[j], x)
  BY <1>9 DEF Redundancy, j
<1> QED  BY <1>8, <1>10

\* The redundancy of every number of packets is what the code can encode, at the pairs
\* theirs, and between two of them no less than the line.
LEMMA RedundancyFacts ==
  ASSUME NEW s \in Seq(PairSet), Acceptable(s)
  PROVE  /\ \A i \in 1 .. Len(s) : Redundancy(s, s[i].x) = s[i].y
         /\ \A x \in 1 .. s[Len(s)].x : Redundancy(s, x) \in 0 .. max_fec_packet_num - x
         /\ \A i \in 2 .. Len(s) : \A x \in Int : s[i - 1].x <= x /\ x <= s[i].x =>
              (Redundancy(s, x) - s[i - 1].y) * (s[i].x - s[i - 1].x)
                >= (s[i].y - s[i - 1].y) * (x - s[i - 1].x)
<1> DEFINE n == Len(s)
           m == max_fec_packet_num
<1>1. /\ n \in Nat /\ n >= 1 /\ m \in Nat
      /\ \A i \in 1 .. n : /\ Encodable(s[i]) /\ s[i].x \in Int /\ s[i].y \in Int
                           /\ s[i].x >= 1 /\ s[i].y >= 0 /\ s[i].x + s[i].y <= m
      /\ \A i \in 2 .. n : s[i - 1].x < s[i].x
  BY AcceptableFacts, FecAssumption DEF Encodable
<1>2. ASSUME NEW i \in 1 .. n
      PROVE  Redundancy(s, s[i].x) = s[i].y
  <2>1. CASE i = 1
    BY <1>1, <2>1 DEF Redundancy
  <2>2. CASE i # 1
    <3>1. i \in 2 .. n /\ s[i].x \in Int /\ s[i - 1].x < s[i].x /\ s[i].x <= s[i].x
      BY <1>1, <2>2
    <3>2. QED
      BY <3>1, SegmentValue
  <2>3. QED
    BY <2>1, <2>2
<1>3. ASSUME NEW x \in 1 .. s[n].x
      PROVE  Redundancy(s, x) \in 0 .. m - x
  <2>0. x \in Int /\ 1 \in 1 .. n /\ n \in 1 .. n
    BY <1>1
  <2>1. CASE x <= s[1].x
    <3>1. Redundancy(s, x) = s[1].y
      BY <2>1 DEF Redundancy
    <3>2. QED
      BY <1>1, <2>0, <2>1, <3>1
  <2>2. CASE ~ (x <= s[1].x)
    <3>1. s[1].x < x /\ x <= s[n].x
      BY <1>1, <2>0, <2>2
    <3>2. PICK i \in 2 .. n : s[i - 1].x < x /\ x <= s[i].x
      BY <2>0, <3>1, SegmentExists
    <3>3. i \in 1 .. n /\ i - 1 \in 1 .. n
      BY <1>1
    <3>4. Redundancy(s, x) = IF x = s[i].x THEN s[i].y ELSE Between(s[i - 1], s[i], x)
      BY <2>0, <3>2, SegmentValue
    <3>5. Between(s[i - 1], s[i], x) \in 0 .. m - x
      <4>1. s[i - 1].x <= x /\ x <= s[i].x /\ s[i - 1].x < s[i].x
        BY <1>1, <2>0, <3>2, <3>3, SMTT(30)
      <4>2. QED
        BY <1>1, <2>0, <3>3, <4>1, BetweenIsOnLine
    <3>6. x = s[i].x => s[i].y \in 0 .. m - x
      BY <1>1, <3>3
    <3>7. QED
      BY <3>4, <3>5, <3>6
  <2>3. QED
    BY <2>1, <2>2
<1>4. ASSUME NEW i \in 2 .. n, NEW x \in Int, s[i - 1].x <= x, x <= s[i].x
      PROVE  (Redundancy(s, x) - s[i - 1].y) * (s[i].x - s[i - 1].x)
               >= (s[i].y - s[i - 1].y) * (x - s[i - 1].x)
  <2>1. i \in 1 .. n /\ i - 1 \in 1 .. n /\ s[i - 1].x < s[i].x
    BY <1>1
  <2>2. CASE x = s[i - 1].x
    <3>1. Redundancy(s, x) = s[i - 1].y
      BY <1>2, <2>1, <2>2
    <3>2. /\ x - s[i - 1].x = 0 /\ Redundancy(s, x) - s[i - 1].y = 0
          /\ s[i].x - s[i - 1].x \in Int /\ s[i].y - s[i - 1].y \in Int
      BY <1>1, <2>1, <2>2, <3>1, SMTT(30)
    <3>3. \A k \in Int : 0 * k = 0 /\ k * 0 = 0
      OBVIOUS
    <3>4. QED
      BY <3>2, <3>3
  <2>3. CASE x # s[i - 1].x
    <3>1. s[i - 1].x < x
      BY <1>1, <1>4, <2>1, <2>3
    <3>2. Redundancy(s, x) = IF x = s[i].x THEN s[i].y ELSE Between(s[i - 1], s[i], x)
      BY <1>4, <3>1, SegmentValue
    <3>3. CASE x = s[i].x
      <4>1. Redundancy(s, x) = s[i].y
        BY <3>2, <3>3
      <4>2. s[i].x - s[i - 1].x \in Int /\ s[i].y - s[i - 1].y \in Int
        BY <1>1, <2>1
      <4>3. (s[i].y - s[i - 1].y) * (s[i].x - s[i - 1].x) \in Int
        BY <4>2
      <4>4. QED
        BY <3>3, <4>1, <4>3
    <3>4. CASE x # s[i].x
      <4>1. Redundancy(s, x) = Between(s[i - 1], s[i], x)
        BY <3>2, <3>4
      <4>2. Encodable(s[i - 1]) /\ Encodable(s[i])
        BY <1>1, <2>1
      <4>3. QED
        BY <1>4, <2>1, <4>1, <4>2, BetweenIsOnLine
    <3>5. QED
      BY <3>3, <3>4
  <2>4. QED
    BY <2>2, <2>3
<1> QED  BY <1>2, <1>3, <1>4

\* The rows of the table that a string gives.
Rows(s) ==
  [x \in 1 .. max_fec_packet_num |->
     IF x <= s[Len(s)].x THEN [x |-> x, y |-> Redundancy(s, x)] ELSE [x |-> 0, y |-> 0]]

\* Into an empty table a string writes its last number and its rows.
LEMMA FilledTable ==
  ASSUME NEW s \in Seq(PairSet), Acceptable(s)
  PROVE  LET par == rs_from_str(NoTable, s)
         IN  /\ par = [NoTable EXCEPT !.rs_cnt = s[Len(s)].x, !.rs_par = Rows(s)]
             /\ par.rs_cnt = s[Len(s)].x
             /\ par.rs_par = Rows(s)
<1> DEFINE cnt   == s[Len(s)].x
           empty == NoTable.rs_par
<1>1. /\ empty = [x \in 1 .. max_fec_packet_num |-> [x |-> 0, y |-> 0]]
      /\ DOMAIN empty = 1 .. max_fec_packet_num
      /\ \A x \in 1 .. max_fec_packet_num : empty[x] = [x |-> 0, y |-> 0]
  BY DEF NoTable
<1>2. [x \in DOMAIN empty |-> IF x <= cnt THEN [x |-> x, y |-> Redundancy(s, x)] ELSE empty[x]]
        = Rows(s)
  <2> HIDE DEF empty, cnt
  <2>1. Rows(s) = [x \in 1 .. max_fec_packet_num |->
                     IF x <= cnt THEN [x |-> x, y |-> Redundancy(s, x)] ELSE [x |-> 0, y |-> 0]]
    BY DEF Rows, cnt
  <2>2. QED
    BY <1>1, <2>1
<1>3. rs_from_str(NoTable, s)
        = [NoTable EXCEPT !.rs_cnt = cnt,
             !.rs_par = [x \in DOMAIN empty |->
                           IF x <= cnt THEN [x |-> x, y |-> Redundancy(s, x)] ELSE empty[x]]]
  BY DEF rs_from_str
<1>4. rs_from_str(NoTable, s) = [NoTable EXCEPT !.rs_cnt = cnt, !.rs_par = Rows(s)]
  BY <1>2, <1>3
<1>5. /\ [NoTable EXCEPT !.rs_cnt = cnt, !.rs_par = Rows(s)].rs_cnt = cnt
      /\ [NoTable EXCEPT !.rs_cnt = cnt, !.rs_par = Rows(s)].rs_par = Rows(s)
  <2> HIDE DEF cnt
  <2> QED  BY DEF NoTable
<1> QED  BY <1>4, <1>5

\* The decoder takes every group of a table exactly if it takes those of its pairs.
LEMMA RedundancyIsTaken ==
  ASSUME NEW s \in Seq(PairSet), Acceptable(s)
  PROVE  (\A x \in 1 .. s[Len(s)].x : TakenByDecoder(x, Redundancy(s, x)))
           <=> (\A i \in DOMAIN s : TakenByDecoder(s[i].x, s[i].y))
<1> DEFINE n == Len(s)
<1>1. /\ n \in Nat /\ n >= 1 /\ DOMAIN s = 1 .. n
      /\ \A i \in 1 .. n : /\ Encodable(s[i]) /\ s[i].x \in Int /\ s[i].y \in Int /\ s[i].x >= 1
      /\ \A i \in 2 .. n : s[i - 1].x < s[i].x
  BY AcceptableFacts DEF Encodable
<1>2. ASSUME \A x \in 1 .. s[n].x : TakenByDecoder(x, Redundancy(s, x)), NEW i \in 1 .. n
      PROVE  TakenByDecoder(s[i].x, s[i].y)
  <2>0. n \in Nat /\ n >= 1
    BY <1>1
  <2> HIDE DEF n
  <2>1. n \in 1 .. n /\ i \in 1 .. n /\ (i = n \/ i < n)
    BY <2>0
  <2>2. s[i].x <= s[n].x
    <3>1. i < n => s[i].x < s[n].x
      BY <2>1, Ascending DEF n
    <3>2. s[i].x \in Int /\ s[n].x \in Int
      BY <1>1, <2>1
    <3>3. QED
      BY <2>1, <3>1, <3>2
  <2>3. s[i].x \in 1 .. s[n].x
    BY <1>1, <2>1, <2>2
  <2>4. Redundancy(s, s[i].x) = s[i].y
    BY <2>1, RedundancyFacts DEF n
  <2>5. QED
    BY <1>2, <2>3, <2>4
<1>3. ASSUME \A i \in 1 .. n : TakenByDecoder(s[i].x, s[i].y), NEW x \in 1 .. s[n].x
      PROVE  TakenByDecoder(x, Redundancy(s, x))
  <2>0. x \in Int /\ 1 \in 1 .. n /\ n \in 1 .. n
    BY <1>1
  <2>1. CASE x <= s[1].x
    <3>1. Redundancy(s, x) = s[1].y
      BY <2>1 DEF Redundancy
    <3>2. TakenByDecoder(s[1].x, s[1].y) /\ s[1].x \in Int /\ s[1].y \in Int
      BY <1>1, <1>3, <2>0
    <3>3. QED
      BY <2>0, <2>1, <3>1, <3>2, FecAssumption DEF TakenByDecoder
  <2>2. CASE ~ (x <= s[1].x)
    <3>1. s[1].x < x /\ x <= s[n].x
      BY <1>1, <2>0, <2>2
    <3>2. PICK i \in 2 .. n : s[i - 1].x < x /\ x <= s[i].x
      BY <2>0, <3>1, SegmentExists
    <3>3. i \in 1 .. n /\ i - 1 \in 1 .. n
      BY <1>1
    <3>4. Redundancy(s, x) = IF x = s[i].x THEN s[i].y ELSE Between(s[i - 1], s[i], x)
      BY <2>0, <3>2, SegmentValue
    <3>5. TakenByDecoder(x, Between(s[i - 1], s[i], x))
      <4>1. s[i - 1].x <= x /\ x <= s[i].x /\ s[i - 1].x < s[i].x
        BY <1>1, <2>0, <3>2, <3>3, SMTT(30)
      <4>2. /\ Encodable(s[i - 1]) /\ TakenByDecoder(s[i - 1].x, s[i - 1].y)
            /\ Encodable(s[i]) /\ TakenByDecoder(s[i].x, s[i].y)
        BY <1>1, <1>3, <3>3
      <4>3. QED
        BY <2>0, <4>1, <4>2, BetweenIsTaken
    <3>6. x = s[i].x => TakenByDecoder(x, s[i].y)
      BY <1>3, <3>3
    <3>7. QED
      BY <3>4, <3>5, <3>6
  <2>3. QED
    BY <2>1, <2>2
<1> HIDE DEF n
<1>4. QED
  BY <1>1, <1>2, <1>3 DEF n

\* A row holds its number and what the code can encode with it.
LEMMA RowFacts ==
  ASSUME NEW s \in Seq(PairSet), Acceptable(s)
  PROVE  /\ s[Len(s)].x \in 1 .. max_fec_packet_num
         /\ \A x \in 1 .. s[Len(s)].x :
              /\ x \in 1 .. max_fec_packet_num
              /\ Rows(s)[x] = [x |-> x, y |-> Redundancy(s, x)]
              /\ Rows(s)[x].x = x /\ Rows(s)[x].y = Redundancy(s, x)
              /\ Redundancy(s, x) \in 0 .. max_fec_packet_num - x
<1> DEFINE m   == max_fec_packet_num
           cnt == s[Len(s)].x
<1>1. cnt \in 1 .. m /\ m \in Nat
  <2>1. m \in Nat /\ Len(s) \in 1 .. Len(s) /\ Encodable(s[Len(s)])
    BY FecAssumption, AcceptableFacts
  <2>2. QED
    BY <2>1 DEF Encodable, PairSet
<1>2. ASSUME NEW x \in 1 .. cnt
      PROVE  /\ x \in 1 .. m
             /\ Rows(s)[x] = [x |-> x, y |-> Redundancy(s, x)]
             /\ Redundancy(s, x) \in 0 .. m - x
  <2>1. x \in 1 .. m /\ x <= cnt
    BY <1>1
  <2>2. Redundancy(s, x) \in 0 .. m - x
    BY RedundancyFacts
  <2>3. Rows(s)[x] = [x |-> x, y |-> Redundancy(s, x)]
    BY <2>1 DEF Rows
  <2>4. QED
    BY <2>1, <2>2, <2>3
<1> QED  BY <1>1, <1>2

\* At the pairs of a string the rows are the pairs, and between two of them no lower than
\* the line.
LEMMA RowsFollowTheLine ==
  ASSUME NEW s \in Seq(PairSet), Acceptable(s)
  PROVE  /\ \A i \in 1 .. Len(s) : Rows(s)[s[i].x] = s[i]
         /\ \A i \in 2 .. Len(s) : \A x \in 1 .. max_fec_packet_num :
              s[i - 1].x <= x /\ x <= s[i].x =>
                (Rows(s)[x].y - s[i - 1].y) * (s[i].x - s[i - 1].x)
                  >= (s[i].y - s[i - 1].y) * (x - s[i - 1].x)
<1> DEFINE n   == Len(s)
           cnt == s[n].x
<1>1. n \in Nat /\ n >= 1 /\ \A i \in 1 .. n : Encodable(s[i]) /\ s[i].x \in Int
  BY AcceptableFacts
<1>2. ASSUME NEW i \in 1 .. n
      PROVE  s[i].x \in 1 .. cnt
  <2>1. i = n \/ (n \in 1 .. n /\ i < n)
    BY <1>1
  <2>2. i = n \/ s[i].x < s[n].x
    BY <2>1, Ascending
  <2>3. s[i].x >= 1 /\ s[i].x \in Int /\ s[n].x \in Int
    BY <1>1 DEF Encodable
  <2>4. QED
    BY <2>2, <2>3
<1>3. ASSUME NEW i \in 1 .. n
      PROVE  Rows(s)[s[i].x] = s[i]
  <2>1. Rows(s)[s[i].x] = [x |-> s[i].x, y |-> Redundancy(s, s[i].x)]
    BY <1>2, RowFacts
  <2>2. Redundancy(s, s[i].x) = s[i].y
    BY RedundancyFacts
  <2>3. s[i] \in PairSet
    BY <1>1 DEF Encodable
  <2>4. s[i] = [x |-> s[i].x, y |-> s[i].y]
    BY <2>3 DEF PairSet
  <2>5. QED
    BY <2>1, <2>2, <2>4
<1>4. ASSUME NEW i \in 2 .. n, NEW x \in 1 .. max_fec_packet_num, s[i - 1].x <= x, x <= s[i].x
      PROVE  (Rows(s)[x].y - s[i - 1].y) * (s[i].x - s[i - 1].x)
               >= (s[i].y - s[i - 1].y) * (x - s[i - 1].x)
  <2>1. i \in 1 .. n /\ x \in Int
    BY <1>1
  <2>2. x \in 1 .. cnt
    <3>1. s[i].x \in 1 .. cnt /\ cnt \in Int
      BY <1>1, <1>2, <2>1
    <3>2. QED
      BY <1>4, <3>1
  <2>3. Rows(s)[x].y = Redundancy(s, x)
    BY <2>2, RowFacts
  <2>4. (Redundancy(s, x) - s[i - 1].y) * (s[i].x - s[i - 1].x)
          >= (s[i].y - s[i - 1].y) * (x - s[i - 1].x)
    BY <1>4, <2>1, RedundancyFacts
  <2>5. QED
    BY <2>3, <2>4
<1> QED  BY <1>3, <1>4

\* A function on an interval is a sequence.
LEMMA FunctionIsSequence ==
  ASSUME NEW S, NEW n \in Nat, NEW f \in [1 .. n -> S]
  PROVE  f \in Seq(S) /\ Len(f) = n /\ DOMAIN f = 1 .. n
OBVIOUS

\* A pair for each number, in their order, is accepted.
LEMMA NumberedPairs ==
  ASSUME NEW n \in Nat, n >= 1, NEW t \in [1 .. n -> PairSet],
         \A x \in 1 .. n : t[x].x = x /\ t[x].y \in 0 .. max_fec_packet_num - x
  PROVE  t \in Seq(PairSet) /\ Len(t) = n /\ Acceptable(t)
<1> DEFINE m == max_fec_packet_num
<1>1. t \in Seq(PairSet) /\ Len(t) = n /\ DOMAIN t = 1 .. n
  BY FunctionIsSequence
<1>2. t # Unparsable
  <2>1. Unparsable \notin Seq(PairSet)
    BY FecAssumption, Zenon DEF PairSet
  <2>2. QED
    BY <1>1, <2>1, Zenon
<1>3. t # << >>
  <2>1. Len(<< >>) = 0
    OBVIOUS
  <2>2. QED
    BY <1>1, <2>1
<1>4. ASSUME NEW i \in DOMAIN t
      PROVE  t[i].x >= 1 /\ t[i].y >= 0 /\ t[i].x + t[i].y <= m
  <2>1. i \in 1 .. n /\ m \in Int
    BY <1>1, FecAssumption
  <2>2. t[i].x = i /\ t[i].y \in 0 .. m - i
    BY <2>1
  <2>3. QED
    BY <2>1, <2>2
<1>5. ASSUME NEW i \in 2 .. Len(t)
      PROVE  t[i].x > t[i - 1].x
  <2>1. i \in 1 .. n /\ i - 1 \in 1 .. n
    BY <1>1
  <2>2. t[i].x = i /\ t[i - 1].x = i - 1
    BY <2>1
  <2>3. QED
    BY <2>1, <2>2
<1>6. Acceptable(t)
  BY <1>2, <1>3, <1>4, <1>5 DEF Acceptable
<1> QED  BY <1>1, <1>6

\* A table that is printed has a pair for each number, which is accepted and read back.
LEMMA PrintedTable ==
  ASSUME NEW s \in Seq(PairSet), Acceptable(s),
         NEW t, t = [x \in 1 .. s[Len(s)].x |-> Rows(s)[x]]
  PROVE  /\ t \in Seq(PairSet) /\ Acceptable(t)
         /\ t[Len(t)].x = s[Len(s)].x
         /\ Rows(t) = Rows(s)
<1> DEFINE m   == max_fec_packet_num
           cnt == s[Len(s)].x
<1>1. /\ cnt \in 1 .. m /\ m \in Nat /\ cnt \in Nat /\ cnt >= 1
      /\ \A x \in 1 .. cnt : /\ x \in 1 .. m
                             /\ Redundancy(s, x) \in 0 .. m - x
                             /\ t[x] = [x |-> x, y |-> Redundancy(s, x)]
                             /\ t[x].x = x /\ t[x].y = Redundancy(s, x)
  <2>1. \A x \in 1 .. cnt : t[x] = Rows(s)[x]
    OBVIOUS
  <2>2. m \in Nat /\ cnt \in 1 .. m
    BY FecAssumption, RowFacts
  <2> HIDE DEF cnt
  <2>3. \A x \in 1 .. cnt : /\ x \in 1 .. m
                            /\ Redundancy(s, x) \in 0 .. m - x
                            /\ Rows(s)[x] = [x |-> x, y |-> Redundancy(s, x)]
                            /\ Rows(s)[x].x = x /\ Rows(s)[x].y = Redundancy(s, x)
    BY RowFacts DEF cnt
  <2>4. QED
    BY <2>1, <2>2, <2>3
<1>2. DOMAIN t = 1 .. cnt
  OBVIOUS
<1> HIDE DEF cnt
<1>3. ASSUME NEW x \in 1 .. cnt
      PROVE  t[x] \in PairSet
  <2>1. t[x] = [x |-> x, y |-> Redundancy(s, x)] /\ x \in Int
    <3>1. t[x] = [x |-> x, y |-> Redundancy(s, x)]
      BY <1>1, Zenon
    <3>2. x \in Int
      OBVIOUS
    <3>3. QED
      BY <3>1, <3>2, Zenon
  <2>2. Redundancy(s, x) \in 0 .. m - x
    BY <1>1, Zenon
  <2>3. Redundancy(s, x) \in Int
    BY <2>2
  <2>4. QED
    BY <2>1, <2>3 DEF PairSet
<1>4. t \in [1 .. cnt -> PairSet]
  <2>1. t = [x \in 1 .. cnt |-> t[x]]
    BY DEF cnt
  <2>2. QED
    BY <1>3, <2>1, Zenon
<1>5. t \in Seq(PairSet) /\ Len(t) = cnt /\ Acceptable(t)
  <2>1. \A x \in 1 .. cnt : t[x].x = x /\ t[x].y \in 0 .. m - x
    BY <1>1, Zenon
  <2>2. cnt \in Nat /\ cnt >= 1
    BY <1>1
  <2>3. QED
    BY <1>4, <2>1, <2>2, NumberedPairs, Zenon
<1>6. t[Len(t)].x = cnt
  <2>1. cnt \in 1 .. cnt
    BY <1>1
  <2>2. QED
    BY <1>1, <1>5, <2>1, Zenon
<1>7. ASSUME NEW x \in 1 .. cnt
      PROVE  Redundancy(t, x) = Redundancy(s, x)
  <2>1. Redundancy(t, t[x].x) = t[x].y
    BY <1>5, RedundancyFacts
  <2>2. QED
    BY <1>1, <2>1
<1>8. Rows(t) = Rows(s)
  <2>1. ASSUME NEW x \in 1 .. m
        PROVE  (IF x <= cnt THEN [x |-> x, y |-> Redundancy(t, x)] ELSE [x |-> 0, y |-> 0])
                 = (IF x <= cnt THEN [x |-> x, y |-> Redundancy(s, x)] ELSE [x |-> 0, y |-> 0])
    <3>1. x <= cnt => x \in 1 .. cnt
      BY <1>1
    <3>2. QED
      BY <1>7, <3>1
  <2>2. /\ Rows(t) = [x \in 1 .. m |-> IF x <= cnt THEN [x |-> x, y |-> Redundancy(t, x)]
                                       ELSE [x |-> 0, y |-> 0]]
        /\ Rows(s) = [x \in 1 .. m |-> IF x <= cnt THEN [x |-> x, y |-> Redundancy(s, x)]
                                       ELSE [x |-> 0, y |-> 0]]
    BY <1>6 DEF Rows, cnt
  <2>3. QED
    BY <2>1, <2>2
<1> QED  BY <1>5, <1>6, <1>8 DEF cnt

\* Whatever pairs are accepted for -f, the table has a group that the code can encode for
\* every number of packets up to the tail, with at least the redundancy of the line, and
\* printed as a string and read again it is the same table (fec_manager.h:40-152).
THEOREM TableIsInterpolated == Spec => []RedundancyIsInterpolated
<1>1. InputOK => RedundancyIsInterpolated
  <2> SUFFICES ASSUME InputOK, input.kind = "fec", Acceptable(input.args)
               PROVE  RedundancyIsInterpolated
    BY DEF RedundancyIsInterpolated
  <2> DEFINE s   == input.args
             par == rs_from_str(NoTable, s)
             t   == rs_to_str(par)
  <2>1. s \in Seq(PairSet) /\ Acceptable(s)
    <3>1. s \in Strings /\ s # Unparsable
      BY DEF InputOK, Acceptable
    <3>2. QED
      BY <3>1, InputsAssumption DEF PairSet
  <2>2. /\ par = [NoTable EXCEPT !.rs_cnt = s[Len(s)].x, !.rs_par = Rows(s)]
        /\ par.rs_cnt = s[Len(s)].x
        /\ par.rs_par = Rows(s)
    BY <2>1, FilledTable
  <2> HIDE DEF s
  <2>3. t = [x \in 1 .. s[Len(s)].x |-> Rows(s)[x]]
    <3> HIDE DEF par
    <3> QED  BY <2>2 DEF rs_to_str
  <2>4. /\ t \in Seq(PairSet) /\ Acceptable(t)
        /\ t[Len(t)].x = s[Len(s)].x
        /\ Rows(t) = Rows(s)
    <3> HIDE DEF t
    <3> QED  BY <2>1, <2>3, PrintedTable
  <2>5. rs_from_str(NoTable, t) = par
    <3> HIDE DEF par, t
    <3>1. rs_from_str(NoTable, t) = [NoTable EXCEPT !.rs_cnt = t[Len(t)].x, !.rs_par = Rows(t)]
      BY <2>4, FilledTable
    <3>2. QED
      BY <2>2, <2>4, <3>1
  <2> HIDE DEF par, t
  <2>6. \A x \in 1 .. par.rs_cnt : /\ par.rs_par[x].x = x
                                   /\ par.rs_par[x].y \in 0 .. max_fec_packet_num - x
    <3>1. ASSUME NEW x \in 1 .. par.rs_cnt
          PROVE  par.rs_par[x].x = x /\ par.rs_par[x].y \in 0 .. max_fec_packet_num - x
      <4>1. x \in 1 .. s[Len(s)].x
        BY <2>2
      <4>2. /\ Rows(s)[x].x = x /\ Rows(s)[x].y = Redundancy(s, x)
            /\ Redundancy(s, x) \in 0 .. max_fec_packet_num - x
        BY <2>1, <4>1, RowFacts
      <4>3. QED
        BY <2>2, <4>2
    <3>2. QED
      BY <3>1
  <2>7. DOMAIN s = 1 .. Len(s) /\ Len(s) \in 1 .. Len(s)
    BY <2>1, AcceptableFacts
  <2>8. \A i \in DOMAIN s : par.rs_par[s[i].x] = s[i]
    BY <2>1, <2>2, <2>7, RowsFollowTheLine
  <2>9. \A i \in 2 .. Len(s), x \in 1 .. max_fec_packet_num :
          s[i - 1].x <= x /\ x <= s[i].x =>
            (par.rs_par[x].y - s[i - 1].y) * (s[i].x - s[i - 1].x)
              >= (s[i].y - s[i - 1].y) * (x - s[i - 1].x)
    BY <2>1, <2>2, RowsFollowTheLine
  <2>10. get_tail(par) = s[Len(s)]
    BY <2>2, <2>7, <2>8 DEF get_tail
  <2>11. QED
    BY <2>5, <2>6, <2>8, <2>9, <2>10 DEF RedundancyIsInterpolated, par, s, t
<1> QED  BY <1>1, InputsAreGiven, PTL

-----------------------------------------------------------------------------
(* Blobs *)

Bytes == 0 .. 255

MaxLength == 65535

MaxCount == 2147483647

Blobs == [counter : Nat, buf : Seq(Bytes)]

\* r is s followed by t.
IsConcatenation(r, s, t) ==
  /\ Len(r) = Len(s) + Len(t) /\ Len(s) \in Nat /\ Len(t) \in Nat
  /\ \A i \in 1 .. Len(s) : r[i] = s[i]
  /\ \A i \in 1 .. Len(t) : r[Len(s) + i] = t[i]

LEMMA Concatenation ==
  ASSUME NEW S, NEW s \in Seq(S), NEW t \in Seq(S)
  PROVE  s \o t \in Seq(S) /\ IsConcatenation(s \o t, s, t)
BY DEF IsConcatenation

\* r is what is in s between a and b.
IsPiece(r, s, a, b) ==
  /\ Len(r) = b - a
  /\ \A i \in 1 .. b - a : r[i] = s[a + i]

LEMMA Piece ==
  ASSUME NEW S, NEW s \in Seq(S), NEW a \in Nat, NEW b \in Nat, a <= b, b <= Len(s)
  PROVE  SubSeq(s, a + 1, b) \in Seq(S) /\ IsPiece(SubSeq(s, a + 1, b), s, a, b)
BY DEF IsPiece

\* The two bytes of a length, and the length that is read from them.
LEMMA LengthField ==
  ASSUME NEW v \in Nat, v <= MaxLength
  PROVE  /\ u16(v) \in Seq(Bytes) /\ Len(u16(v)) = 2
         /\ u16(v)[1] = v \div 256 /\ u16(v)[2] = v % 256
         /\ v \div 256 \in Bytes /\ v % 256 \in Bytes
         /\ (v \div 256) * 256 + (v % 256) = v
<1>1. v \div 256 \in 0 .. 255 /\ v % 256 \in 0 .. 255 /\ (v \div 256) * 256 + (v % 256) = v
  BY SMT DEF MaxLength
<1>2. (v \div 256) % 256 = v \div 256
  BY <1>1
<1>3. u16(v) = << v \div 256, v % 256 >>
  BY <1>2 DEF u16
<1> QED  BY <1>1, <1>3 DEF Bytes

LEMMA LengthIsRead ==
  ASSUME NEW s \in Seq(Bytes), Len(s) = 2
  PROVE  read_u16(s) \in Nat
<1>1. s[1] \in Bytes /\ s[2] \in Bytes
  <2>1. \A i \in 1 .. Len(s) : s[i] \in Bytes
    OBVIOUS
  <2>2. 1 \in 1 .. 2 /\ 2 \in 1 .. 2
    OBVIOUS
  <2>3. QED
    BY <2>1, <2>2, Zenon
<1>2. Bytes \subseteq Nat
  BY DEF Bytes
<1>3. s[1] \in Nat /\ s[2] \in Nat
  BY <1>1, <1>2, Zenon
<1>4. \A x, y \in Nat : x * 256 + y \in Nat
  OBVIOUS
<1> QED  BY <1>3, <1>4, Zenon DEF read_u16

\* The four bytes of a count, and the count that is read from them.
LEMMA CountField ==
  ASSUME NEW v \in Nat, v <= MaxCount
  PROVE  /\ u32(v) \in Seq(Bytes) /\ Len(u32(v)) = 4
         /\ read_u32(u32(v)) = v
<1> DEFINE hi == v \div 65536
           lo == v % 65536
<1>1. /\ hi \in Nat /\ hi <= 32767 /\ hi <= MaxLength
      /\ lo \in Nat /\ lo <= MaxLength /\ v = hi * 65536 + lo
  BY SMT DEF MaxLength, MaxCount
<1>2. v % 256 = lo % 256 /\ (v \div 256) % 256 = lo \div 256
  BY SMT
<1>3. u16(v) = u16(lo)
  <2>1. (lo \div 256) % 256 = lo \div 256 /\ (lo % 256) = lo % 256
    BY <1>1, SMT DEF MaxLength
  <2>2. QED
    BY <1>2, <2>1, SMT DEF u16
<1> HIDE DEF hi, lo
<1>4. /\ u16(hi) \in Seq(Bytes) /\ Len(u16(hi)) = 2
      /\ u16(hi)[1] = hi \div 256 /\ u16(hi)[2] = hi % 256
      /\ (hi \div 256) * 256 + (hi % 256) = hi
      /\ hi \div 256 \in Bytes /\ hi % 256 \in Bytes
  BY <1>1, LengthField, SMT
<1>5. /\ u16(lo) \in Seq(Bytes) /\ Len(u16(lo)) = 2
      /\ u16(lo)[1] = lo \div 256 /\ u16(lo)[2] = lo % 256
      /\ (lo \div 256) * 256 + (lo % 256) = lo
      /\ lo \div 256 \in Bytes /\ lo % 256 \in Bytes
  BY <1>1, LengthField, SMT
<1> DEFINE s == u32(v)
<1>6. s = u16(hi) \o u16(lo)
  BY <1>3, SMT DEF u32, hi
<1> HIDE DEF s
<1>7. /\ s \in Seq(Bytes) /\ Len(s) = 4
      /\ s[1] = hi \div 256 /\ s[2] = hi % 256 /\ s[3] = lo \div 256 /\ s[4] = lo % 256
  <2>0. s \in Seq(Bytes) /\ IsConcatenation(s, u16(hi), u16(lo))
    BY <1>4, <1>5, <1>6, Concatenation
  <2>1. /\ s \in Seq(Bytes) /\ Len(s) = 2 + 2
        /\ \A i \in 1 .. 2 : s[i] = u16(hi)[i]
        /\ \A i \in 1 .. 2 : s[2 + i] = u16(lo)[i]
    BY <1>4, <1>5, <2>0 DEF IsConcatenation
  <2>2. s[1] = u16(hi)[1] /\ s[2] = u16(hi)[2] /\ s[2 + 1] = u16(lo)[1] /\ s[2 + 2] = u16(lo)[2]
    BY <2>1, SMT
  <2>3. QED
    BY <1>4, <1>5, <2>1, <2>2, SMT
<1>8. hi \div 256 \in Int /\ ~ (hi \div 256 >= 128)
  BY <1>1, SMT
<1>9. read_u16(<< s[3], s[4] >>) = lo
  <2>1. read_u16(<< s[3], s[4] >>) = s[3] * 256 + s[4]
    BY SMT DEF read_u16
  <2>2. QED
    BY <1>5, <1>7, <2>1, SMT
<1>10. read_u32(s) = s[1] * 16777216 + s[2] * 65536 + lo
  <2>1. s[1] \in Int /\ ~ (s[1] >= 128)
    BY <1>7, <1>8, Zenon
  <2>2. QED
    BY <1>9, <2>1, SMT DEF read_u32
<1>11. read_u32(s) = v
  BY <1>1, <1>4, <1>7, <1>10, SMT DEF Bytes
<1> QED  BY <1>7, <1>11, SMT DEF s

\* A packet lies in a buffer behind its first l bytes, with its length before it.
LiesAt(buf, l, p) ==
  /\ l + 2 + Len(p) <= Len(buf)
  /\ buf[l + 1] = Len(p) \div 256 /\ buf[l + 2] = Len(p) % 256
  /\ \A q \in 1 .. Len(p) : buf[l + 2 + q] = p[q]

\* The packet p joins those of b behind what the buffer holds.
Joins(c, b, p) ==
  /\ c \in Blobs /\ c.counter = b.counter + 1
  /\ Len(b.buf) \in Nat /\ Len(p) \in Nat /\ Len(c.buf) = Len(b.buf) + 2 + Len(p)
  /\ \A q \in 1 .. Len(b.buf) : c.buf[q] = b.buf[q]
  /\ LiesAt(c.buf, Len(b.buf), p)

\* A packet goes behind what the buffer holds, with its length before it.
LEMMA EncodeInputFacts ==
  ASSUME NEW b \in Blobs, NEW p \in Seq(Bytes), Len(p) <= MaxLength
  PROVE  Joins(EncodeInput(b, p), b, p)
<1> DEFINE l == Len(b.buf)
           n == Len(p)
           s == b.buf \o u16(n)
           t == s \o p
<1>1. b.counter \in Nat /\ b.buf \in Seq(Bytes) /\ l \in Nat /\ n \in Nat /\ n <= MaxLength
  BY DEF Blobs
<1>2. EncodeInput(b, p) = [counter |-> b.counter + 1, buf |-> t]
  BY ZenonT(40) DEF EncodeInput
<1>3. /\ u16(n) \in Seq(Bytes) /\ Len(u16(n)) = 2
      /\ u16(n)[1] = n \div 256 /\ u16(n)[2] = n % 256
  <2> HIDE DEF n
  <2> QED  BY <1>1, LengthField, ZenonT(40)
<1>4. /\ s \in Seq(Bytes) /\ Len(s) = l + 2
      /\ \A q \in 1 .. l : s[q] = b.buf[q]
      /\ s[l + 1] = n \div 256 /\ s[l + 2] = n % 256
  <2>1. /\ s \in Seq(Bytes) /\ Len(s) = l + Len(u16(n))
        /\ \A q \in 1 .. l : s[q] = b.buf[q]
        /\ \A q \in 1 .. Len(u16(n)) : s[l + q] = u16(n)[q]
    <3> HIDE DEF n
    <3>1. s \in Seq(Bytes) /\ IsConcatenation(s, b.buf, u16(n))
      BY <1>1, <1>3, Concatenation
    <3> HIDE DEF s
    <3>2. QED
      BY <3>1 DEF IsConcatenation
  <2> HIDE DEF s, l, n
  <2>2. s[l + 1] = u16(n)[1] /\ s[l + 2] = u16(n)[2]
    BY <1>3, <2>1
  <2>3. QED
    BY <1>3, <2>1, <2>2
<1>5. /\ t \in Seq(Bytes) /\ Len(t) = Len(s) + n
      /\ \A q \in 1 .. Len(s) : t[q] = s[q]
      /\ \A q \in 1 .. n : t[Len(s) + q] = p[q]
  <2> HIDE DEF s
  <2>1. t \in Seq(Bytes) /\ IsConcatenation(t, s, p)
    BY <1>4, Concatenation
  <2> HIDE DEF t
  <2>2. QED
    BY <2>1 DEF IsConcatenation
<1> HIDE DEF t, s, l, n
<1>6. /\ Len(t) = l + 2 + n
      /\ \A q \in 1 .. l : t[q] = b.buf[q]
      /\ t[l + 1] = n \div 256 /\ t[l + 2] = n % 256
      /\ \A q \in 1 .. n : t[l + 2 + q] = p[q]
  <2>1. \A q \in 1 .. l + 2 : t[q] = s[q]
    BY <1>4, <1>5
  <2>2. \A q \in 1 .. l : q \in 1 .. l + 2
    BY <1>1
  <2>3. l + 1 \in 1 .. l + 2 /\ l + 2 \in 1 .. l + 2
    BY <1>1
  <2>4. \A q \in 1 .. n : t[l + 2 + q] = p[q]
    BY <1>4, <1>5
  <2>5. Len(t) = l + 2 + n
    BY <1>4, <1>5
  <2>6. QED
    BY <1>4, <2>1, <2>2, <2>3, <2>4, <2>5
<1> DEFINE c == EncodeInput(b, p)
<1>7. c \in Blobs /\ c.counter = b.counter + 1 /\ c.buf = t
  BY <1>1, <1>2, <1>5 DEF Blobs
<1> HIDE DEF c
<1>8. l + 2 + n <= Len(t)
  BY <1>1, <1>6
<1>9. LiesAt(t, l, p)
  BY <1>6, <1>8, Zenon DEF LiesAt, n
<1> QED  BY <1>1, <1>6, <1>7, <1>9, Zenon DEF Joins, c, l, n

\* The packets blob_encode_t::input lets through.
Packets(ps) ==
  ps \in Seq(Seq(Bytes)) /\ \A i \in 1 .. Len(ps) : ps[i] \in Seq(Bytes) /\ Len(ps[i]) <= MaxLength

\* f[i] is the blob after i packets.
BlobStepwise(f, ps) ==
  /\ f \in [0 .. Len(ps) -> Blobs] /\ f[0] = EncodeEmpty
  /\ \A i \in 1 .. Len(ps) : f[i] = EncodeInput(f[i - 1], ps[i])
  /\ Encoded(ps) = f[Len(ps)]

\* Packets are added one after the other.
LEMMA BlobUnfolds ==
  ASSUME NEW ps, Packets(ps)
  PROVE  \E f : BlobStepwise(f, ps)
<1> DEFINE n == Len(ps)
           Body(g) == [i \in 0 .. n |-> IF i = 0 THEN EncodeEmpty ELSE EncodeInput(g[i - 1], ps[i])]
           F == [i \in 1 .. n |-> [c \in Blobs |-> EncodeInput(c, ps[i])]]
           after == CHOOSE g : g = Body(g)
<1>1. n \in Nat /\ \A i \in 1 .. n : ps[i] \in Seq(Bytes) /\ Len(ps[i]) <= MaxLength
  BY DEF Packets
<1> HIDE DEF n
<1>2. F \in [1 .. n -> [Blobs -> Blobs]]
  <2>1. ASSUME NEW i \in 1 .. n, NEW c \in Blobs
        PROVE  EncodeInput(c, ps[i]) \in Blobs
    BY <1>1, EncodeInputFacts DEF Joins
  <2>2. QED
    BY <2>1
<1>3. EncodeEmpty \in Blobs
  <2>1. <<0, 0, 0, 0>> \in Seq(Bytes)
    BY DEF Bytes
  <2>2. QED
    BY <2>1 DEF EncodeEmpty, Blobs
<1>4. PICK f : Rounds(f, n, Blobs, EncodeEmpty, F)
  <2> HIDE DEF F
  <2> QED  BY <1>1, <1>2, <1>3, Iteration
<1>5. f = Body(f)
  <2>1. ASSUME NEW i \in 0 .. n
        PROVE  f[i] = IF i = 0 THEN EncodeEmpty ELSE EncodeInput(f[i - 1], ps[i])
    <3>1. CASE i = 0
      BY <1>4, <3>1 DEF Rounds
    <3>2. CASE i # 0
      <4>1. i \in 1 .. n /\ f[i - 1] \in Blobs
        BY <1>1, <1>4, <3>2 DEF Rounds
      <4>2. f[i] = F[i][f[i - 1]]
        BY <1>4, <4>1 DEF Rounds
      <4>3. F[i][f[i - 1]] = EncodeInput(f[i - 1], ps[i])
        BY <4>1
      <4>4. QED
        BY <3>2, <4>2, <4>3
    <3>3. QED
      BY <3>1, <3>2
  <2>2. f = [i \in 0 .. n |-> f[i]]
    BY <1>4 DEF Rounds
  <2> HIDE DEF F
  <2>3. QED
    BY <2>1, <2>2
<1>6. after = Body(after)
  <2> HIDE DEF Body
  <2> QED  BY <1>5
<1>7. Encoded(ps) = after[n]
  BY DEF Encoded, n
<1> HIDE DEF after
<1>8. /\ after[0] = EncodeEmpty /\ DOMAIN after = 0 .. n /\ after = [i \in 0 .. n |-> after[i]]
      /\ \A i \in 1 .. n : after[i] = EncodeInput(after[i - 1], ps[i])
  <2>1. ASSUME NEW i \in 0 .. n
        PROVE  after[i] = IF i = 0 THEN EncodeEmpty ELSE EncodeInput(after[i - 1], ps[i])
    BY <1>6
  <2>2. 0 \in 0 .. n /\ \A i \in 1 .. n : i \in 0 .. n /\ i # 0
    BY <1>1
  <2>3. DOMAIN after = 0 .. n /\ after = [i \in 0 .. n |-> after[i]]
    BY <1>6
  <2>4. QED
    BY <2>1, <2>2, <2>3
<1> DEFINE S == {i \in 0 .. n : after[i] \in Blobs}
<1>9. 0 \in S
  BY <1>1, <1>3, <1>8
<1>10. ASSUME NEW i \in 1 .. n, i - 1 \in S
       PROVE  i \in S
  <2>0. after[i] = EncodeInput(after[i - 1], ps[i])
    BY <1>8
  <2>1. after[i] = EncodeInput(after[i - 1], ps[i]) /\ after[i - 1] \in Blobs /\ i \in 0 .. n
    BY <1>1, <1>10, <2>0
  <2>2. after[i] \in Blobs
    BY <1>1, <2>1, EncodeInputFacts DEF Joins
  <2>3. QED
    BY <2>1, <2>2
<1>11. \A i \in 0 .. n : i \in S
  <2> HIDE DEF S
  <2> QED  BY <1>1, <1>9, <1>10, Climb
<1>12. after \in [0 .. n -> Blobs]
  BY <1>8, <1>11
<1>13. BlobStepwise(after, ps)
  BY <1>7, <1>8, <1>12 DEF n, BlobStepwise
<1> QED  BY <1>13

\* It lies there as well in a longer buffer with the same bytes behind the count.
LEMMA LiesInLonger ==
  ASSUME NEW a \in Seq(Bytes), NEW b \in Seq(Bytes), Len(a) <= Len(b),
         \A q \in 5 .. Len(a) : b[q] = a[q],
         NEW l \in Nat, l >= 4, NEW p \in Seq(Bytes), LiesAt(a, l, p)
  PROVE  LiesAt(b, l, p)
<1> DEFINE n == Len(p)
<1>1. n \in Nat /\ Len(a) \in Nat /\ Len(b) \in Nat
  OBVIOUS
<1>2. /\ l + 2 + n <= Len(a)
      /\ a[l + 1] = n \div 256 /\ a[l + 2] = n % 256
      /\ \A q \in 1 .. n : a[l + 2 + q] = p[q]
  BY DEF LiesAt
<1> HIDE DEF n
<1>3. l + 1 \in 5 .. Len(a) /\ l + 2 \in 5 .. Len(a)
  BY <1>1, <1>2
<1>4. b[l + 1] = a[l + 1] /\ b[l + 2] = a[l + 2]
  BY <1>3
<1>5. ASSUME NEW q \in 1 .. n
      PROVE  b[l + 2 + q] = p[q]
  <2>1. l + 2 + q \in 5 .. Len(a)
    BY <1>1, <1>2
  <2>2. b[l + 2 + q] = a[l + 2 + q]
    BY <2>1
  <2>3. QED
    BY <1>2, <2>2
<1>6. l + 2 + n <= Len(b)
  BY <1>1, <1>2
<1> QED  BY <1>2, <1>4, <1>5, <1>6 DEF LiesAt, n

\* The packets lie in the buffer one behind the other, the i-th up to ends[i].
Laid(buf, ends, ps) ==
  /\ ends \in [0 .. Len(ps) -> Nat] /\ ends[0] = 4
  /\ \A i \in 0 .. Len(ps) : ends[i] >= 4
  /\ \A i \in 1 .. Len(ps) : /\ ends[i] = ends[i - 1] + 2 + Len(ps[i])
                             /\ LiesAt(buf, ends[i - 1], ps[i])

Ends(f, ps) == [i \in 0 .. Len(ps) |-> Len(f[i].buf)]

\* What is encoded are the packets, in their order, and their number.
LEMMA BlobIsLaid ==
  ASSUME NEW ps, Packets(ps), NEW f, BlobStepwise(f, ps)
  PROVE  /\ Encoded(ps) \in Blobs /\ Encoded(ps).counter = Len(ps)
         /\ Laid(Encoded(ps).buf, Ends(f, ps), ps)
         /\ Len(Encoded(ps).buf) = Ends(f, ps)[Len(ps)]
<1> DEFINE n == Len(ps)
           L == Ends(f, ps)
<1>1. n \in Nat /\ \A i \in 1 .. n : ps[i] \in Seq(Bytes) /\ Len(ps[i]) \in Nat /\ Len(ps[i]) <= MaxLength
  BY DEF Packets
<1>2. /\ f \in [0 .. n -> Blobs] /\ f[0] = EncodeEmpty /\ Encoded(ps) = f[n]
      /\ \A i \in 1 .. n : f[i] = EncodeInput(f[i - 1], ps[i])
  BY DEF BlobStepwise
<1>3. DOMAIN L = 0 .. n /\ L = [i \in 0 .. n |-> L[i]] /\ \A i \in 0 .. n : L[i] = Len(f[i].buf)
  BY DEF Ends
<1> HIDE DEF n, L
<1>4. ASSUME NEW i \in 1 .. n
      PROVE  /\ i - 1 \in 0 .. n /\ i \in 0 .. n
             /\ f[i].counter = f[i - 1].counter + 1
             /\ L[i - 1] \in Nat /\ L[i] = L[i - 1] + 2 + Len(ps[i])
             /\ \A q \in 1 .. L[i - 1] : f[i].buf[q] = f[i - 1].buf[q]
             /\ LiesAt(f[i].buf, L[i - 1], ps[i])
  <2>1. i - 1 \in 0 .. n /\ i \in 0 .. n
    BY <1>1
  <2>2. f[i - 1] \in Blobs /\ L[i - 1] = Len(f[i - 1].buf) /\ L[i] = Len(f[i].buf)
    BY <1>2, <1>3, <2>1
  <2>3. f[i] = EncodeInput(f[i - 1], ps[i])
    BY <1>2
  <2>4. Joins(f[i], f[i - 1], ps[i])
    BY <1>1, <2>2, <2>3, EncodeInputFacts
  <2>5. /\ f[i].counter = f[i - 1].counter + 1
        /\ Len(f[i - 1].buf) \in Nat /\ Len(f[i].buf) = Len(f[i - 1].buf) + 2 + Len(ps[i])
        /\ \A q \in 1 .. Len(f[i - 1].buf) : f[i].buf[q] = f[i - 1].buf[q]
        /\ LiesAt(f[i].buf, Len(f[i - 1].buf), ps[i])
    BY <2>4, Zenon DEF Joins
  <2>6. QED
    BY <2>1, <2>2, <2>5, Zenon
<1> DEFINE A == {m \in 0 .. n : f[m].counter = m /\ L[m] \in Nat /\ L[m] >= 4}
<1>5. 0 \in A
  <2>0. 0 \in 0 .. n
    BY <1>1
  <2>1. f[0] = [counter |-> 0, buf |-> <<0, 0, 0, 0>>] /\ 0 \in 0 .. n /\ L[0] = Len(f[0].buf)
    BY <1>2, <1>3, <2>0, Zenon DEF EncodeEmpty
  <2>2. f[0].counter = 0 /\ L[0] = 4
    BY <2>1
  <2>3. QED
    BY <2>1, <2>2
<1>6. ASSUME NEW m \in 1 .. n, m - 1 \in A
      PROVE  m \in A
  <2>1. f[m - 1].counter = m - 1 /\ L[m - 1] >= 4
    BY <1>6
  <2>2. m \in 0 .. n /\ f[m].counter = f[m - 1].counter + 1 /\ L[m - 1] \in Nat
        /\ L[m] = L[m - 1] + 2 + Len(ps[m]) /\ Len(ps[m]) \in Nat
    BY <1>1, <1>4
  <2>3. QED
    BY <2>1, <2>2
<1>7. \A m \in 0 .. n : f[m].counter = m /\ L[m] \in Nat /\ L[m] >= 4
  <2>1. \A m \in 0 .. n : m \in A
    <3> HIDE DEF A
    <3> QED  BY <1>1, <1>5, <1>6, Climb
  <2>2. QED
    BY <2>1
<1> DEFINE S == {m \in 0 .. n : \A i \in 1 .. m : LiesAt(f[m].buf, L[i - 1], ps[i])}
<1>8. 0 \in S
  BY <1>1
<1>9. ASSUME NEW m \in 1 .. n, m - 1 \in S
      PROVE  m \in S
  <2>1. ASSUME NEW i \in 1 .. m
        PROVE  LiesAt(f[m].buf, L[i - 1], ps[i])
    <3>1. CASE i = m
      BY <1>4, <3>1
    <3>2. CASE i # m
      <4>1. i \in 1 .. m - 1 /\ i \in 1 .. n /\ i - 1 \in 0 .. n
        BY <1>1, <3>2
      <4>2. LiesAt(f[m - 1].buf, L[i - 1], ps[i])
        BY <1>9, <4>1
      <4>3. L[i - 1] \in Nat /\ L[i - 1] >= 4 /\ ps[i] \in Seq(Bytes)
        BY <1>1, <1>7, <4>1
      <4>4. /\ m - 1 \in 0 .. n /\ m \in 0 .. n /\ f[m - 1] \in Blobs /\ f[m] \in Blobs
            /\ L[m - 1] = Len(f[m - 1].buf) /\ L[m] = Len(f[m].buf)
        BY <1>1, <1>2, <1>3
      <4>5. f[m - 1].buf \in Seq(Bytes) /\ f[m].buf \in Seq(Bytes)
        BY <4>4 DEF Blobs
      <4>6. L[m - 1] \in Nat /\ L[m] = L[m - 1] + 2 + Len(ps[m]) /\ Len(ps[m]) \in Nat
        BY <1>1, <1>4
      <4>7. \A q \in 1 .. L[m - 1] : f[m].buf[q] = f[m - 1].buf[q]
        BY <1>4
      <4>8. Len(f[m - 1].buf) <= Len(f[m].buf)
        <5>1. L[m - 1] <= L[m]
          BY <4>6
        <5>2. QED
          BY <4>4, <5>1, Zenon
      <4>9. \A q \in 5 .. Len(f[m - 1].buf) : f[m].buf[q] = f[m - 1].buf[q]
        BY <4>4, <4>6, <4>7
      <4>10. QED
        BY <4>2, <4>3, <4>5, <4>8, <4>9, LiesInLonger
    <3>3. QED
      BY <3>1, <3>2
  <2>2. m \in 0 .. n
    BY <1>1
  <2>3. QED
    BY <2>1, <2>2
<1>10. n \in S
  <2> HIDE DEF S
  <2> QED  BY <1>1, <1>8, <1>9, Climb
<1>11. \A i \in 1 .. n : LiesAt(f[n].buf, L[i - 1], ps[i])
  BY <1>10
<1>12. n \in 0 .. n /\ 0 \in 0 .. n
  BY <1>1
<1>13. L \in [0 .. n -> Nat] /\ L[0] = 4
  <2>1. L \in [0 .. n -> Nat]
    BY <1>3, <1>7
  <2>2. Len(EncodeEmpty.buf) = 4
    BY DEF EncodeEmpty
  <2>3. L[0] = 4
    BY <1>2, <1>3, <1>12, <2>2, Zenon
  <2>4. QED
    BY <2>1, <2>3
<1>14. Laid(f[n].buf, L, ps)
  BY <1>4, <1>7, <1>11, <1>13 DEF Laid, n
<1>15. f[n] \in Blobs /\ f[n].counter = n /\ L[n] = Len(f[n].buf)
  BY <1>2, <1>3, <1>7, <1>12
<1> QED  BY <1>2, <1>14, <1>15 DEF n, L

\* Without its last packet a group is what was encoded before that was added.
LEMMA EncodedBeforeLast ==
  ASSUME NEW ps, Packets(ps), Len(ps) >= 1, NEW f, BlobStepwise(f, ps)
  PROVE  Encoded(Front(ps)) = f[Len(ps) - 1]
<1> DEFINE n == Len(ps)
           fr == Front(ps)
<1>1. n \in Nat /\ n - 1 \in Nat /\ ps \in Seq(Seq(Bytes)) /\ n >= 1
      /\ \A i \in 1 .. n : ps[i] \in Seq(Bytes) /\ Len(ps[i]) <= MaxLength
  BY DEF Packets
<1>2. /\ fr \in Seq(Seq(Bytes)) /\ Len(fr) = n - 1
      /\ \A i \in 1 .. n - 1 : fr[i] = ps[i]
  <2>1. fr = SubSeq(ps, 1, n - 1) /\ n = Len(ps)
    BY DEF Front
  <2> HIDE DEF fr, n
  <2>2. fr \in Seq(Seq(Bytes)) /\ Len(fr) = n - 1
    BY <1>1, <2>1
  <2>3. ASSUME NEW i \in 1 .. n - 1
        PROVE  fr[i] = ps[i]
    BY <1>1, <2>1
  <2>4. QED
    BY <2>2, <2>3
<1> HIDE DEF fr, n
<1>3. Packets(fr)
  <2>1. ASSUME NEW i \in 1 .. Len(fr)
        PROVE  fr[i] \in Seq(Bytes) /\ Len(fr[i]) <= MaxLength
    <3>1. i \in 1 .. n - 1 /\ i \in 1 .. n
      BY <1>1, <1>2
    <3>2. QED
      BY <1>1, <1>2, <3>1, Zenon
  <2>2. QED
    BY <1>2, <2>1, Zenon DEF Packets
<1>4. PICK g : BlobStepwise(g, fr)
  BY <1>3, BlobUnfolds
<1>5. /\ g[0] = EncodeEmpty /\ Encoded(fr) = g[n - 1]
      /\ \A i \in 1 .. n - 1 : g[i] = EncodeInput(g[i - 1], fr[i])
  BY <1>2, <1>4 DEF BlobStepwise
<1>6. f[0] = EncodeEmpty /\ \A i \in 1 .. n : f[i] = EncodeInput(f[i - 1], ps[i])
  BY DEF BlobStepwise, n
<1> DEFINE S == {m \in 0 .. n - 1 : g[m] = f[m]}
<1>7. 0 \in S
  BY <1>1, <1>5, <1>6
<1>8. ASSUME NEW m \in 1 .. n - 1, m - 1 \in S
      PROVE  m \in S
  <2>1. g[m] = EncodeInput(g[m - 1], ps[m]) /\ g[m - 1] = f[m - 1]
    BY <1>2, <1>5, <1>8
  <2>2. m \in 1 .. n /\ m \in 0 .. n - 1
    BY <1>1
  <2>3. f[m] = EncodeInput(f[m - 1], ps[m])
    BY <1>6, <2>2
  <2>4. QED
    BY <2>1, <2>2, <2>3
<1>9. n - 1 \in S
  <2> HIDE DEF S
  <2> QED  BY <1>1, <1>7, <1>8, Climb
<1> QED  BY <1>5, <1>9 DEF fr, n

\* Rounded up, a part is enough, and all parts have fewer bytes than parts to spare.
LEMMA RoundUpFacts ==
  ASSUME NEW a \in Nat, NEW n \in Nat, n >= 1
  PROVE  LET r == round_up_div(a, n)
         IN  r \in Nat /\ a <= r * n /\ r * n <= a + n - 1
<1> DEFINE r == (a + n - 1) \div n
<1>1. r \in Int /\ n * r <= a + n - 1 /\ a + n - 1 < n * r + n
  OBVIOUS
<1>2. round_up_div(a, n) = r
  BY DEF round_up_div
<1> HIDE DEF r
<1>3. n * r = r * n /\ r * n \in Int
  BY <1>1
<1>4. a <= r * n /\ r * n <= a + n - 1
  BY <1>1, <1>3
<1>5. r >= 0
  <2>1. r < 0 => r * n <= -n
    BY <1>1
  <2>2. QED
    BY <1>1, <1>4, <2>1
<1> QED  BY <1>1, <1>2, <1>4, <1>5

\* Sequences that agree everywhere are the same.
LEMMA SameSequence ==
  ASSUME NEW S, NEW s \in Seq(S), NEW t \in Seq(S), Len(s) = Len(t),
         \A i \in 1 .. Len(s) : s[i] = t[i]
  PROVE  s = t
OBVIOUS

\* A piece and the next one are a longer piece.
LEMMA PiecesMeet ==
  ASSUME NEW S, NEW s \in Seq(S), NEW a \in Nat, NEW b \in Nat, a <= b, b <= Len(s)
  PROVE  SubSeq(s, 1, a) \o SubSeq(s, a + 1, b) = SubSeq(s, 1, b)
<1> DEFINE x == SubSeq(s, 1, a)
           y == SubSeq(s, a + 1, b)
           z == SubSeq(s, 1, b)
           r == x \o y
<1>1. Len(s) \in Nat /\ 0 \in Nat /\ 0 + 1 = 1 /\ a <= Len(s) /\ 0 <= a /\ 0 <= b
  OBVIOUS
<1>2. x \in Seq(S) /\ Len(x) = a /\ \A i \in 1 .. a : x[i] = s[i]
  OBVIOUS
<1>3. y \in Seq(S) /\ Len(y) = b - a /\ \A i \in 1 .. b - a : y[i] = s[a + i]
  BY Piece DEF IsPiece
<1>4. z \in Seq(S) /\ Len(z) = b /\ \A i \in 1 .. b : z[i] = s[i]
  OBVIOUS
<1> HIDE DEF x, y, z
<1>5. r \in Seq(S) /\ IsConcatenation(r, x, y)
  BY <1>2, <1>3, Concatenation
<1> HIDE DEF r
<1>6. Len(r) = b /\ \A i \in 1 .. a : r[i] = x[i]
  BY <1>2, <1>3, <1>5 DEF IsConcatenation
<1>7. \A i \in 1 .. b - a : r[a + i] = y[i]
  BY <1>2, <1>3, <1>5 DEF IsConcatenation
<1>8. ASSUME NEW i \in 1 .. b
      PROVE  r[i] = z[i]
  <2>1. CASE i <= a
    <3>1. i \in 1 .. a
      BY <2>1
    <3>2. QED
      BY <1>2, <1>4, <1>6, <3>1
  <2>2. CASE ~ (i <= a)
    <3>1. i - a \in 1 .. b - a /\ a + (i - a) = i
      BY <2>2
    <3>2. r[a + (i - a)] = y[i - a] /\ y[i - a] = s[a + (i - a)]
      BY <1>3, <1>7, <3>1, Zenon
    <3>3. QED
      BY <1>4, <3>1, <3>2
  <2>3. QED
    BY <2>1, <2>2
<1>9. r = z
  BY <1>4, <1>5, <1>6, <1>8, SameSequence
<1> QED  BY <1>9 DEF r, x, y, z

\* Pieces of equal length that are put together again are the beginning of the whole.
LEMMA PiecesFlatten ==
  ASSUME NEW S, NEW all \in Seq(S), NEW len \in Nat, NEW n \in Nat, n >= 1,
         len * n <= Len(all),
         NEW shards, shards = [i \in 1 .. n |-> SubSeq(all, len * (i - 1) + 1, len * i)]
  PROVE  FlattenSeq(shards) = SubSeq(all, 1, len * n)
<1> DEFINE Body(g) == [i \in 1 .. Len(shards) |-> IF i = 1 THEN shards[i] ELSE g[i - 1] \o shards[i]]
           flatten == CHOOSE g : g = Body(g)
           f == [i \in 1 .. n |-> SubSeq(all, 1, len * i)]
<1>1. /\ Len(shards) = n
      /\ \A i \in 1 .. n : shards[i] = SubSeq(all, len * (i - 1) + 1, len * i)
  OBVIOUS
<1>2. ASSUME NEW i \in 1 .. n
      PROVE  /\ len * (i - 1) \in Nat /\ len * i \in Nat
             /\ len * (i - 1) <= len * i /\ len * i <= Len(all)
  <2>1. len * (i - 1) = len * i - len /\ len * i \in Int /\ len * n = len * i + len * (n - i)
    OBVIOUS
  <2>2. len * (n - i) >= 0 /\ len * (i - 1) >= 0 /\ len * (n - i) \in Int /\ len * (i - 1) \in Int
    OBVIOUS
  <2>3. Len(all) \in Nat /\ len * n \in Int /\ len * n <= Len(all)
    OBVIOUS
  <2> DEFINE u == len * (i - 1)
             v == len * i
             w == len * (n - i)
             x == len * n
  <2>4. /\ u = v - len /\ x = v + w /\ u \in Int /\ v \in Int /\ w \in Int /\ x \in Int
        /\ w >= 0 /\ u >= 0 /\ x <= Len(all)
    BY <2>1, <2>2, <2>3, Zenon
  <2> HIDE DEF u, v, w, x
  <2>5. u \in Nat /\ v \in Nat /\ u <= v /\ v <= Len(all)
    BY <2>3, <2>4
  <2>6. QED
    BY <2>5, Zenon DEF u, v
<1>3. ASSUME NEW i \in 1 .. n
      PROVE  /\ i = 1 => shards[i] = SubSeq(all, 1, len * i)
             /\ i # 1 => SubSeq(all, 1, len * (i - 1)) \o shards[i] = SubSeq(all, 1, len * i)
  <2>1. i = 1 => len * (i - 1) + 1 = 1
    OBVIOUS
  <2>2. SubSeq(all, 1, len * (i - 1)) \o SubSeq(all, len * (i - 1) + 1, len * i) = SubSeq(all, 1, len * i)
    <3> DEFINE a == len * (i - 1)
               b == len * i
    <3>1. a \in Nat /\ b \in Nat /\ a <= b /\ b <= Len(all)
      BY <1>2
    <3> HIDE DEF a, b
    <3>2. SubSeq(all, 1, a) \o SubSeq(all, a + 1, b) = SubSeq(all, 1, b)
      BY <3>1, PiecesMeet
    <3>3. QED
      BY <3>2, Zenon DEF a, b
  <2>3. shards[i] = SubSeq(all, len * (i - 1) + 1, len * i)
    BY <1>1, Zenon
  <2>4. QED
    BY <2>1, <2>2, <2>3, Zenon
<1>4. f = Body(f)
  <2>1. ASSUME NEW i \in 1 .. n
        PROVE  f[i] = IF i = 1 THEN shards[i] ELSE f[i - 1] \o shards[i]
    <3>1. i # 1 => i - 1 \in 1 .. n
      OBVIOUS
    <3>2. i # 1 => f[i - 1] = SubSeq(all, 1, len * (i - 1))
      BY <3>1, Zenon
    <3>3. f[i] = SubSeq(all, 1, len * i)
      BY Zenon
    <3>4. QED
      BY <1>3, <3>2, <3>3, Zenon
  <2>2. f = [i \in 1 .. n |-> f[i]]
    BY Zenon
  <2> HIDE DEF f
  <2>3. [i \in 1 .. n |-> f[i]] = [i \in 1 .. n |-> IF i = 1 THEN shards[i] ELSE f[i - 1] \o shards[i]]
    BY <2>1, Zenon
  <2>4. Len(shards) = n
    BY <1>1
  <2>5. QED
    BY <2>2, <2>3, <2>4, Zenon
<1>5. flatten = Body(flatten)
  <2> HIDE DEF Body, f
  <2> QED  BY <1>4, Zenon
<1>6. FlattenSeq(shards) = flatten[n]
  <2>1. Len(shards) # 0
    BY <1>1
  <2>2. QED
    BY <1>1, <2>1, Zenon DEF FlattenSeq
<1> HIDE DEF flatten
<1>7. ASSUME NEW i \in 1 .. n
      PROVE  flatten[i] = IF i = 1 THEN shards[i] ELSE flatten[i - 1] \o shards[i]
  BY <1>1, <1>5, Zenon
<1> HIDE DEF Body, f
<1> DEFINE T == {i \in 0 .. n : i = 0 \/ flatten[i] = SubSeq(all, 1, len * i)}
<1>8. 0 \in T
  OBVIOUS
<1>9. ASSUME NEW i \in 1 .. n, i - 1 \in T
      PROVE  i \in T
  <2>1. i \in 0 .. n /\ (i # 1 => i - 1 # 0)
    OBVIOUS
  <2>2. i # 1 => flatten[i - 1] = SubSeq(all, 1, len * (i - 1))
    BY <1>9, <2>1, Zenon
  <2>3. flatten[i] = SubSeq(all, 1, len * i)
    BY <1>3, <1>7, <2>2, ZenonT(60)
  <2>4. QED
    BY <2>1, <2>3, Zenon
<1>10. n \in T
  <2> HIDE DEF T
  <2> QED  BY <1>8, <1>9, Climb
<1>11. n # 0
  OBVIOUS
<1> QED  BY <1>6, <1>10, <1>11, Zenon

\* The count, then the packets, then what the buffer held before.
IsFilled(all, b, c, old) ==
  /\ Len(all) = Len(b) + Len(old)
  /\ \A q \in 1 .. 4 : all[q] = u32(c)[q]
  /\ \A q \in 5 .. Len(b) : all[q] = b[q]

LEMMA FilledBuffer ==
  ASSUME NEW b \in Seq(Bytes), Len(b) >= 4, NEW c \in Nat, c <= MaxCount,
         NEW old \in Seq(Bytes)
  PROVE  LET all == u32(c) \o SubSeq(b, 5, Len(b)) \o old
         IN  all \in Seq(Bytes) /\ IsFilled(all, b, c, old)
<1> DEFINE m == Len(b)
           head == u32(c)
           mid == SubSeq(b, 5, m)
           front == head \o mid
           all == front \o old
<1>1. head \in Seq(Bytes) /\ Len(head) = 4
  BY CountField
<1>2. m \in Nat /\ m >= 4 /\ 4 + 1 = 5 /\ Len(old) \in Nat
  OBVIOUS
<1>3. mid \in Seq(Bytes) /\ Len(mid) = m - 4 /\ \A q \in 1 .. m - 4 : mid[q] = b[4 + q]
  <2>1. mid = SubSeq(b, 4 + 1, m)
    BY <1>2, Zenon
  <2>2. 4 \in Nat /\ 4 <= m /\ m <= Len(b)
    BY <1>2
  <2> HIDE DEF mid, m
  <2>3. mid \in Seq(Bytes) /\ IsPiece(mid, b, 4, m)
    BY <1>2, <2>1, <2>2, Piece
  <2>4. QED
    BY <2>3 DEF IsPiece
<1> HIDE DEF head, mid
<1>4. front \in Seq(Bytes) /\ IsConcatenation(front, head, mid)
  BY <1>1, <1>3, Concatenation
<1> HIDE DEF front
<1>6. all \in Seq(Bytes) /\ IsConcatenation(all, front, old)
  BY <1>4, Concatenation
<1> HIDE DEF all
<1> HIDE DEF m
<1>7. Len(front) = m /\ \A q \in 1 .. 4 : front[q] = head[q]
  BY <1>1, <1>2, <1>3, <1>4 DEF IsConcatenation
<1>8. \A q \in 1 .. m - 4 : front[4 + q] = mid[q]
  BY <1>1, <1>3, <1>4 DEF IsConcatenation
<1>9. Len(all) = m + Len(old) /\ \A q \in 1 .. m : all[q] = front[q]
  BY <1>6, <1>7 DEF IsConcatenation
<1>10. ASSUME NEW q \in 1 .. 4
       PROVE  all[q] = head[q]
  <2>1. q \in 1 .. m
    BY <1>2
  <2>2. QED
    BY <1>7, <1>9, <2>1, Zenon
<1>11. ASSUME NEW q \in 5 .. m
       PROVE  all[q] = b[q]
  <2>1. q \in 1 .. m /\ q - 4 \in 1 .. m - 4 /\ 4 + (q - 4) = q
    BY <1>2
  <2>2. front[4 + (q - 4)] = mid[q - 4] /\ mid[q - 4] = b[4 + (q - 4)]
    BY <1>3, <1>8, <2>1, Zenon
  <2>3. QED
    BY <1>9, <2>1, <2>2, Zenon
<1>12. IsFilled(all, b, c, old)
  BY <1>9, <1>10, <1>11, Zenon DEF IsFilled, m, head
<1> QED  BY <1>6, <1>12, Zenon DEF all, front, head, mid, m

\* The count is in the first four bytes.
LEMMA SameCount ==
  ASSUME NEW s, NEW t, \A q \in 1 .. 4 : s[q] = t[q]
  PROVE  read_u32(s) = read_u32(t)
<1>1. s[1] = t[1] /\ s[2] = t[2] /\ s[3] = t[3] /\ s[4] = t[4]
  OBVIOUS
<1> QED  BY <1>1, SMT DEF read_u32

\* From the shards of a blob the decoder gets the number of packets and their bytes.
LEMMA DecodedBuffer ==
  ASSUME NEW blob \in Blobs, Len(blob.buf) >= 4, blob.counter <= MaxCount,
         NEW n \in Nat, n >= 1, NEW old \in Seq(Bytes), Len(old) >= n
  PROVE  LET shards == EncodeOutput(blob, n, old)
             buf    == DecodeInput(shards)
         IN  /\ buf \in Seq(Bytes) /\ Len(blob.buf) <= Len(buf)
             /\ read_u32(buf) = blob.counter
             /\ \A q \in 5 .. Len(blob.buf) : buf[q] = blob.buf[q]
             /\ Len(shards[1]) = round_up_div(Len(blob.buf), n)
<1> DEFINE b == blob.buf
           m == Len(b)
           c == blob.counter
           len == round_up_div(m, n)
           all == u32(c) \o SubSeq(b, 5, m) \o old
           shards == EncodeOutput(blob, n, old)
           buf == DecodeInput(shards)
           w == len * n
<1>1. b \in Seq(Bytes) /\ m \in Nat /\ m >= 4 /\ c \in Nat /\ c <= MaxCount /\ Len(old) \in Nat
  BY DEF Blobs
<1>2. /\ all \in Seq(Bytes) /\ Len(all) = m + Len(old)
      /\ \A q \in 1 .. 4 : all[q] = u32(c)[q]
      /\ \A q \in 5 .. m : all[q] = b[q]
  <2>1. all \in Seq(Bytes) /\ IsFilled(all, b, c, old)
    <3> HIDE DEF b, c
    <3> QED  BY <1>1, FilledBuffer
  <2> HIDE DEF all, b, c
  <2>2. QED
    BY <2>1, Zenon DEF IsFilled
<1>3. shards = [i \in 1 .. n |-> SubSeq(all, len * (i - 1) + 1, len * i)]
  BY Zenon DEF EncodeOutput
<1> HIDE DEF all, b, c, shards
<1>4. len \in Nat /\ m <= w /\ w <= m + n - 1
  <2> HIDE DEF m
  <2> QED  BY <1>1, RoundUpFacts
<1> HIDE DEF len, m
<1>5. w \in Int /\ w <= Len(all)
  <2> HIDE DEF w
  <2>1. w \in Int
    BY <1>4 DEF w
  <2>2. QED
    BY <1>1, <1>2, <1>4, <2>1
<1>6. buf = SubSeq(all, 1, w)
  <2>1. len * n <= Len(all)
    BY <1>5
  <2>2. FlattenSeq(shards) = SubSeq(all, 1, len * n)
    BY <1>2, <1>3, <1>4, <2>1, PiecesFlatten
  <2>3. QED
    BY <2>2, Zenon DEF DecodeInput
<1> HIDE DEF w, buf
<1>7. buf \in Seq(Bytes) /\ Len(buf) = w /\ \A q \in 1 .. w : buf[q] = all[q]
  <2>1. w \in Nat /\ w <= Len(all)
    BY <1>1, <1>4, <1>5
  <2>2. QED
    BY <1>2, <1>6, <2>1
<1>8. \A q \in 1 .. 4 : buf[q] = u32(c)[q]
  <2>1. ASSUME NEW q \in 1 .. 4
        PROVE  buf[q] = u32(c)[q]
    <3>1. q \in 1 .. w
      BY <1>1, <1>4, <1>5
    <3>2. QED
      BY <1>2, <1>7, <3>1, Zenon
  <2>2. QED
    BY <2>1
<1>9. read_u32(buf) = c
  <2>1. read_u32(u32(c)) = c
    BY <1>1, CountField
  <2>2. QED
    BY <1>8, <2>1, SameCount, Zenon
<1>10. \A q \in 5 .. m : buf[q] = b[q]
  <2>1. ASSUME NEW q \in 5 .. m
        PROVE  buf[q] = b[q]
    <3>1. q \in 1 .. w
      BY <1>1, <1>4, <1>5
    <3>2. QED
      BY <1>2, <1>7, <3>1, Zenon
  <2>2. QED
    BY <2>1
<1>11. Len(shards[1]) = len
  <2>1. 1 \in 1 .. n /\ len * (1 - 1) + 1 = 0 + 1 /\ len * 1 = len
    BY <1>4
  <2>2. shards[1] = SubSeq(all, 0 + 1, len)
    BY <1>3, <2>1, Zenon
  <2>3. len <= w
    <3>1. len * n = len + len * (n - 1) /\ len * (n - 1) >= 0 /\ len * (n - 1) \in Int
      BY <1>4
    <3>2. QED
      BY <1>4, <3>1 DEF w
  <2>4. 0 \in Nat /\ 0 <= len /\ len <= Len(all) /\ Len(all) \in Nat
    BY <1>1, <1>2, <1>4, <1>5, <2>3
  <2>5. Len(SubSeq(all, 0 + 1, len)) = len - 0
    <3>1. IsPiece(SubSeq(all, 0 + 1, len), all, 0, len)
      BY <1>2, <1>4, <2>4, Piece
    <3>2. QED
      BY <3>1, Zenon DEF IsPiece
  <2>6. QED
    BY <1>4, <2>2, <2>5
<1>12. m <= Len(buf)
  BY <1>4, <1>7
<1> QED  BY <1>7, <1>9, <1>10, <1>11, <1>12, Zenon DEF b, m, c, len, shards, buf

Spots == [at : Nat, len : Nat]

Inside(buf, packets) ==
  packets \in Seq(Spots) /\ \A i \in 1 .. Len(packets) : packets[i].at + packets[i].len <= Len(buf)

\* How far a buffer is read, and where the packets lie that were found.
Readers(buf) ==
  {r \in [pos : Nat, packets : Seq(Spots)] : Inside(buf, r.packets)} \cup {Refused}

\* The reader finds no packet that is not all in the buffer.
LEMMA ReadPacketStaysInside ==
  ASSUME NEW buf \in Seq(Bytes), NEW r \in Readers(buf)
  PROVE  ReadPacket(buf, r) \in Readers(buf)
<1> DEFINE pos  == r.pos
           end  == Len(buf)
           len  == read_u16(SubSeq(buf, pos + 1, pos + 2))
           spot == [at |-> pos + 2, len |-> len]
           ks   == Append(r.packets, spot)
<1>1. CASE r = Refused \/ pos + 2 > end
  BY <1>1 DEF ReadPacket, Readers
<1>2. CASE r # Refused /\ ~ (pos + 2 > end)
  <2>1. /\ r \in [pos : Nat, packets : Seq(Spots)] /\ Inside(buf, r.packets)
        /\ pos \in Nat /\ pos + 2 <= end /\ end \in Nat
    BY <1>2 DEF Readers
  <2>2. len \in Nat
    <3> DEFINE two == SubSeq(buf, pos + 1, pos + 2)
    <3>1. two \in Seq(Bytes) /\ IsPiece(two, buf, pos, pos + 2)
      <4> HIDE DEF pos
      <4>1. pos + 2 \in Nat /\ pos <= pos + 2 /\ pos + 2 <= Len(buf)
        BY <2>1
      <4>2. QED
        BY <2>1, <4>1, Piece
    <3> HIDE DEF two
    <3>2. two \in Seq(Bytes) /\ Len(two) = 2
      BY <2>1, <3>1 DEF IsPiece
    <3>3. read_u16(two) \in Nat
      BY <3>2, LengthIsRead
    <3>4. QED
      BY <3>3 DEF two
  <2>3. ReadPacket(buf, r)
          = IF pos + 2 + len > end THEN Refused ELSE [pos |-> pos + 2 + len, packets |-> ks]
    BY <1>2, Zenon DEF ReadPacket
  <2> HIDE DEF len, pos, end
  <2>4. CASE pos + 2 + len > end
    BY <2>3, <2>4 DEF Readers
  <2>5. CASE ~ (pos + 2 + len > end)
    <3>1. spot \in Spots /\ spot.at + spot.len <= end
      BY <2>1, <2>2, <2>5 DEF Spots
    <3> HIDE DEF spot
    <3>2. /\ ks \in Seq(Spots) /\ Len(ks) = Len(r.packets) + 1 /\ Len(r.packets) \in Nat
          /\ ks[Len(r.packets) + 1] = spot
          /\ \A i \in 1 .. Len(r.packets) : ks[i] = r.packets[i]
      BY <2>1, <3>1
    <3> HIDE DEF ks
    <3>3. ASSUME NEW i \in 1 .. Len(ks)
          PROVE  ks[i].at + ks[i].len <= Len(buf)
      <4>1. i = Len(r.packets) + 1 \/ i \in 1 .. Len(r.packets)
        BY <3>2
      <4>2. CASE i = Len(r.packets) + 1
        BY <3>1, <3>2, <4>2, Zenon DEF end
      <4>3. CASE i \in 1 .. Len(r.packets)
        BY <2>1, <3>2, <4>3, Zenon DEF Inside
      <4>4. QED
        BY <4>1, <4>2, <4>3
    <3>4. Inside(buf, ks)
      BY <3>2, <3>3, Zenon DEF Inside
    <3>5. pos + 2 + len \in Nat
      BY <2>1, <2>2
    <3> DEFINE next == [pos |-> pos + 2 + len, packets |-> ks]
    <3>6. next \in [pos : Nat, packets : Seq(Spots)] /\ next.packets = ks
      BY <3>2, <3>5
    <3>7. ReadPacket(buf, r) = next
      BY <2>3, <2>5, Zenon
    <3> HIDE DEF next
    <3>8. QED
      BY <3>4, <3>6, <3>7, Zenon DEF Readers
  <2>6. QED
    BY <2>4, <2>5
<1>3. QED
  BY <1>1, <1>2

\* f[i] is what was read after i packets.
ReadingStepwise(f, buf) ==
  /\ f \in [0 .. max_blob_packet_num -> Readers(buf)]
  /\ f[0] = [pos |-> 4, packets |-> << >>]
  /\ \A i \in 1 .. max_blob_packet_num : f[i] = ReadPacket(buf, f[i - 1])
  /\ DecodeOutput(buf) = IF read_u32(buf) <= 0 THEN << >>
                         ELSE IF f[read_u32(buf)] = Refused THEN Refused
                         ELSE f[read_u32(buf)].packets

\* Packets are read one after the other.
LEMMA DecodeUnfolds ==
  ASSUME NEW buf \in Seq(Bytes), Len(buf) >= 4, ~ (read_u32(buf) > max_blob_packet_num)
  PROVE  \E f : ReadingStepwise(f, buf)
<1> DEFINE n == max_blob_packet_num
           Q == Readers(buf)
           Begun == [pos |-> 4, packets |-> << >>]
           Body(g) == [i \in 0 .. n |-> IF i = 0 THEN Begun ELSE ReadPacket(buf, g[i - 1])]
           F == [i \in 1 .. n |-> [r \in Q |-> ReadPacket(buf, r)]]
           read == CHOOSE g : g = Body(g)
<1>1. n \in Nat
  BY CountAssumption, SMT
<1>2. ~ (Len(buf) < 4 \/ read_u32(buf) > n)
  <2>1. Len(buf) \in Nat /\ ~ (Len(buf) < 4)
    OBVIOUS
  <2>2. QED
    BY <2>1, Zenon DEF n
<1>3. DecodeOutput(buf) = IF Len(buf) < 4 \/ read_u32(buf) > n THEN Refused
                          ELSE IF read_u32(buf) <= 0 THEN << >>
                          ELSE IF read[read_u32(buf)] = Refused THEN Refused
                          ELSE read[read_u32(buf)].packets
  BY Zenon DEF DecodeOutput
<1> HIDE DEF n
<1>4. F \in [1 .. n -> [Q -> Q]]
  <2>1. ASSUME NEW i \in 1 .. n, NEW r \in Q
        PROVE  ReadPacket(buf, r) \in Q
    BY ReadPacketStaysInside
  <2> HIDE DEF Q
  <2>2. QED
    BY <2>1
<1>5. Begun \in Q
  <2>1. Begun \in [pos : Nat, packets : Seq(Spots)] /\ Begun.packets = << >>
    OBVIOUS
  <2>2. Inside(buf, << >>)
    BY DEF Inside
  <2> HIDE DEF Begun
  <2>3. QED
    BY <2>1, <2>2, Zenon DEF Readers
<1> HIDE DEF Q, Begun
<1>6. PICK f : Rounds(f, n, Q, Begun, F)
  <2> HIDE DEF F
  <2> QED  BY <1>1, <1>4, <1>5, Iteration
<1>7. f = Body(f)
  <2>1. ASSUME NEW i \in 0 .. n
        PROVE  f[i] = IF i = 0 THEN Begun ELSE ReadPacket(buf, f[i - 1])
    <3>1. CASE i = 0
      BY <1>6, <3>1 DEF Rounds
    <3>2. CASE i # 0
      <4>1. i \in 1 .. n /\ f[i - 1] \in Q
        BY <1>1, <1>6, <3>2 DEF Rounds
      <4>2. f[i] = F[i][f[i - 1]]
        BY <1>6, <4>1 DEF Rounds
      <4>3. F[i][f[i - 1]] = ReadPacket(buf, f[i - 1])
        BY <4>1
      <4>4. QED
        BY <3>2, <4>2, <4>3
    <3>3. QED
      BY <3>1, <3>2
  <2>2. f = [i \in 0 .. n |-> f[i]]
    BY <1>6 DEF Rounds
  <2> HIDE DEF F
  <2>3. QED
    BY <2>1, <2>2
<1>8. read = Body(read)
  <2> HIDE DEF Body
  <2> QED  BY <1>7
<1> HIDE DEF read
<1>9. /\ read[0] = Begun /\ DOMAIN read = 0 .. n /\ read = [i \in 0 .. n |-> read[i]]
      /\ \A i \in 1 .. n : read[i] = ReadPacket(buf, read[i - 1])
  <2>1. ASSUME NEW i \in 0 .. n
        PROVE  read[i] = IF i = 0 THEN Begun ELSE ReadPacket(buf, read[i - 1])
    BY <1>8
  <2>2. 0 \in 0 .. n /\ \A i \in 1 .. n : i \in 0 .. n /\ i # 0
    BY <1>1
  <2>3. DOMAIN read = 0 .. n /\ read = [i \in 0 .. n |-> read[i]]
    BY <1>8
  <2>4. QED
    BY <2>1, <2>2, <2>3
<1> DEFINE S == {i \in 0 .. n : read[i] \in Q}
<1>10. 0 \in S
  BY <1>1, <1>5, <1>9
<1>11. ASSUME NEW i \in 1 .. n, i - 1 \in S
       PROVE  i \in S
  <2>0. read[i] = ReadPacket(buf, read[i - 1])
    BY <1>9
  <2>1. read[i - 1] \in Q /\ i \in 0 .. n
    BY <1>1, <1>11
  <2>2. read[i] \in Q
    BY <2>0, <2>1, ReadPacketStaysInside DEF Q
  <2>3. QED
    BY <2>1, <2>2
<1>12. \A i \in 0 .. n : i \in S
  <2> HIDE DEF S
  <2> QED  BY <1>1, <1>10, <1>11, Climb
<1>13. read \in [0 .. n -> Q]
  BY <1>9, <1>12
<1>14. ReadingStepwise(read, buf)
  BY <1>2, <1>3, <1>9, <1>13, Zenon DEF n, Q, Begun, ReadingStepwise
<1> QED  BY <1>14

\* A packet that lies at the reader's place is found there.
LEMMA PacketIsRead ==
  ASSUME NEW buf \in Seq(Bytes), NEW l \in Nat, NEW p \in Seq(Bytes), Len(p) <= MaxLength,
         LiesAt(buf, l, p), NEW ks \in Seq(Spots)
  PROVE  ReadPacket(buf, [pos |-> l, packets |-> ks])
           = [pos |-> l + 2 + Len(p), packets |-> Append(ks, [at |-> l + 2, len |-> Len(p)])]
<1> DEFINE n   == Len(p)
           r   == [pos |-> l, packets |-> ks]
           two == SubSeq(buf, l + 1, l + 2)
<1>1. /\ n \in Nat /\ n <= MaxLength /\ Len(buf) \in Nat /\ l + 2 + n <= Len(buf)
      /\ buf[l + 1] = n \div 256 /\ buf[l + 2] = n % 256
  BY DEF LiesAt
<1> HIDE DEF n
<1>2. l + 2 \in Nat /\ l <= l + 2 /\ l + 2 <= Len(buf) /\ ~ (l + 2 > Len(buf)) /\ ~ (l + 2 + n > Len(buf))
  BY <1>1
<1>3. two \in Seq(Bytes) /\ IsPiece(two, buf, l, l + 2)
  BY <1>2, Piece
<1> HIDE DEF two
<1>4. two[1] = n \div 256 /\ two[2] = n % 256
  <2>1. (l + 2) - l = 2 /\ 1 \in 1 .. 2 /\ 2 \in 1 .. 2
    OBVIOUS
  <2>2. \A i \in 1 .. 2 : two[i] = buf[l + i]
    BY <1>3, <2>1, Zenon DEF IsPiece
  <2>3. QED
    BY <1>1, <2>1, <2>2, Zenon
<1>5. read_u16(two) = n
  <2>1. (n \div 256) * 256 + (n % 256) = n
    BY <1>1, LengthField, SMTT(30)
  <2>2. QED
    BY <1>4, <2>1, Zenon DEF read_u16
<1>6. r # Refused /\ r.pos = l /\ r.packets = ks
  <2>1. r \in [pos : Nat, packets : Seq([at : Nat, len : Nat])]
    BY DEF Spots
  <2>2. r.pos = l /\ r.packets = ks
    OBVIOUS
  <2> HIDE DEF r
  <2>3. QED
    BY <2>1, <2>2, RefusedAssumption, Zenon
<1> HIDE DEF r
<1>7. ReadPacket(buf, r) = [pos |-> l + 2 + n, packets |-> Append(ks, [at |-> l + 2, len |-> n])]
  BY <1>2, <1>5, <1>6, Zenon DEF ReadPacket, two
<1> QED  BY <1>7, Zenon DEF r, n

\* Where the packets lie.
Places(ends, ps, m) == [k \in 1 .. m |-> [at |-> ends[k - 1] + 2, len |-> Len(ps[k])]]

LEMMA PlacesFacts ==
  ASSUME NEW ps, Packets(ps), NEW ends \in [0 .. Len(ps) -> Nat], NEW m \in 1 .. Len(ps)
  PROVE  /\ Places(ends, ps, m - 1) \in Seq(Spots)
         /\ Append(Places(ends, ps, m - 1), [at |-> ends[m - 1] + 2, len |-> Len(ps[m])])
              = Places(ends, ps, m)
<1> DEFINE n == Len(ps)
           spot(k) == [at |-> ends[k - 1] + 2, len |-> Len(ps[k])]
           s == Places(ends, ps, m - 1)
           t == Places(ends, ps, m)
<1>1. n \in Nat /\ \A k \in 1 .. n : Len(ps[k]) \in Nat
  BY DEF Packets
<1>2. ASSUME NEW k \in 1 .. n
      PROVE  spot(k) \in Spots
  <2>1. k - 1 \in 0 .. n /\ Len(ps[k]) \in Nat
    BY <1>1
  <2>2. ends[k - 1] \in Nat
    BY <2>1
  <2>3. QED
    BY <2>1, <2>2 DEF Spots
<1>3. m \in Nat /\ m - 1 \in Nat /\ m <= n /\ m \in 1 .. n
  BY <1>1
<1>4. /\ s = [k \in 1 .. m - 1 |-> spot(k)] /\ t = [k \in 1 .. m |-> spot(k)]
  BY Zenon DEF Places
<1> HIDE DEF spot, s, t, n
<1>5. s \in [1 .. m - 1 -> Spots] /\ t \in [1 .. m -> Spots]
  <2>1. \A k \in 1 .. m - 1 : k \in 1 .. n
    BY <1>1, <1>3
  <2>2. \A k \in 1 .. m : k \in 1 .. n
    BY <1>1, <1>3
  <2>3. QED
    BY <1>2, <1>4, <2>1, <2>2
<1>6. s \in Seq(Spots) /\ Len(s) = m - 1
  BY <1>3, <1>5, FunctionIsSequence
<1>7. t \in Seq(Spots) /\ Len(t) = m
  BY <1>3, <1>5, FunctionIsSequence
<1> DEFINE r == Append(s, spot(m))
<1>8. /\ r \in Seq(Spots) /\ Len(r) = m /\ r[m] = spot(m)
      /\ \A k \in 1 .. m - 1 : r[k] = s[k]
  BY <1>2, <1>3, <1>6
<1> HIDE DEF r
<1>9. ASSUME NEW k \in 1 .. m
      PROVE  r[k] = t[k]
  <2>1. t[k] = spot(k) /\ (k \in 1 .. m - 1 => s[k] = spot(k))
    BY <1>4
  <2>2. k = m \/ k \in 1 .. m - 1
    BY <1>3
  <2>3. QED
    BY <1>8, <2>1, <2>2, Zenon
<1>10. r = t
  BY <1>7, <1>8, <1>9, SameSequence
<1> QED  BY <1>6, <1>10, Zenon DEF r, s, t, spot

\* Packets that lie one behind the other are found and taken out as they were put in.
LEMMA PacketsAreRead ==
  ASSUME NEW ps, Packets(ps), Len(ps) >= 1, Len(ps) <= max_blob_packet_num,
         NEW buf \in Seq(Bytes), Len(buf) >= 4, read_u32(buf) = Len(ps),
         NEW ends, Laid(buf, ends, ps)
  PROVE  DecodeOutput(buf) # Refused /\ PacketsIn(buf, DecodeOutput(buf)) = ps
<1> DEFINE n   == Len(ps)
           top == max_blob_packet_num
           At(m) == [pos |-> ends[m], packets |-> Places(ends, ps, m)]
<1>1. /\ n \in Nat /\ top \in Nat /\ n >= 1 /\ n <= top
      /\ \A i \in 1 .. n : ps[i] \in Seq(Bytes) /\ Len(ps[i]) \in Nat /\ Len(ps[i]) <= MaxLength
  BY CountAssumption, SMT DEF Packets
<1>2. read_u32(buf) = n /\ ~ (read_u32(buf) > top) /\ ~ (read_u32(buf) <= 0)
  BY <1>1
<1>3. PICK f : ReadingStepwise(f, buf)
  BY <1>2, DecodeUnfolds
<1>4. /\ f[0] = [pos |-> 4, packets |-> << >>]
      /\ \A i \in 1 .. top : f[i] = ReadPacket(buf, f[i - 1])
      /\ DecodeOutput(buf) = IF f[n] = Refused THEN Refused ELSE f[n].packets
  BY <1>2, <1>3, Zenon DEF ReadingStepwise
<1>5. /\ ends \in [0 .. n -> Nat] /\ ends[0] = 4
      /\ \A i \in 1 .. n : ends[i] = ends[i - 1] + 2 + Len(ps[i]) /\ LiesAt(buf, ends[i - 1], ps[i])
  BY Zenon DEF Laid
<1>6. ASSUME NEW m \in 1 .. n
      PROVE  /\ Places(ends, ps, m - 1) \in Seq(Spots)
             /\ Append(Places(ends, ps, m - 1), [at |-> ends[m - 1] + 2, len |-> Len(ps[m])])
                  = Places(ends, ps, m)
  BY <1>5, PlacesFacts
<1> HIDE DEF n, top
<1> DEFINE S == {m \in 0 .. n : f[m] = At(m)}
<1>7. 0 \in S
  <2>1. Places(ends, ps, 0) = << >>
    BY DEF Places
  <2>2. f[0] = At(0)
    BY <1>4, <1>5, <2>1, Zenon
  <2>3. 0 \in 0 .. n
    BY <1>1
  <2> HIDE DEF At
  <2>4. QED
    BY <2>2, <2>3
<1>8. ASSUME NEW m \in 1 .. n, m - 1 \in S
      PROVE  m \in S
  <2> DEFINE ks == Places(ends, ps, m - 1)
             l  == ends[m - 1]
             p  == ps[m]
  <2>1. m \in 1 .. top /\ m \in 0 .. n /\ m - 1 \in 0 .. n
    BY <1>1
  <2>2. f[m] = ReadPacket(buf, [pos |-> l, packets |-> ks])
    <3>1. f[m - 1] = At(m - 1)
      BY <1>8, Zenon
    <3>2. QED
      BY <1>4, <2>1, <3>1, Zenon
  <2>3. /\ l \in Nat /\ p \in Seq(Bytes) /\ Len(p) <= MaxLength
        /\ LiesAt(buf, l, p) /\ ks \in Seq(Spots)
    BY <1>1, <1>5, <1>6, <2>1
  <2>4. /\ ends[m] = l + 2 + Len(p)
        /\ Append(ks, [at |-> l + 2, len |-> Len(p)]) = Places(ends, ps, m)
    BY <1>5, <1>6, Zenon
  <2> HIDE DEF l, p, ks
  <2>5. f[m] = [pos |-> l + 2 + Len(p), packets |-> Append(ks, [at |-> l + 2, len |-> Len(p)])]
    BY <2>2, <2>3, PacketIsRead
  <2>6. f[m] = At(m)
    BY <2>4, <2>5, Zenon
  <2> HIDE DEF At
  <2>7. QED
    BY <2>1, <2>6, Zenon
<1>9. n \in S
  <2> HIDE DEF S
  <2> QED  BY <1>1, <1>7, <1>8, Climb
<1>10. n \in 1 .. n
  BY <1>1
<1>11. Places(ends, ps, n) \in Seq(Spots)
  <2>1. Append(Places(ends, ps, n - 1), [at |-> ends[n - 1] + 2, len |-> Len(ps[n])])
          = Places(ends, ps, n)
    BY <1>6, <1>10, Zenon
  <2>2. [at |-> ends[n - 1] + 2, len |-> Len(ps[n])] \in Spots
    <3>1. n - 1 \in 0 .. n /\ Len(ps[n]) \in Nat
      BY <1>1, <1>10
    <3>2. ends[n - 1] \in Nat
      BY <1>5, <3>1
    <3>3. QED
      BY <3>1, <3>2 DEF Spots
  <2>3. Places(ends, ps, n - 1) \in Seq(Spots)
    BY <1>6, <1>10, Zenon
  <2> DEFINE ks == Places(ends, ps, n - 1)
             spot == [at |-> ends[n - 1] + 2, len |-> Len(ps[n])]
  <2> HIDE DEF ks, spot
  <2>4. Append(ks, spot) \in Seq(Spots)
    BY <2>2, <2>3 DEF ks, spot
  <2>5. QED
    BY <2>1, <2>4, Zenon DEF ks, spot
<1>12. f[n] # Refused /\ f[n].packets = Places(ends, ps, n)
  <2>1. f[n] = At(n)
    BY <1>9, Zenon
  <2>2. ends[n] \in Nat
    BY <1>1, <1>5
  <2>3. At(n) \in [pos : Nat, packets : Seq([at : Nat, len : Nat])]
    BY <1>11, <2>2 DEF Spots
  <2>4. At(n).packets = Places(ends, ps, n)
    BY Zenon
  <2> HIDE DEF At
  <2>5. QED
    BY <2>1, <2>3, <2>4, RefusedAssumption, Zenon
<1>13. DecodeOutput(buf) = Places(ends, ps, n)
  BY <1>4, <1>12, Zenon
<1>14. Places(ends, ps, n) # Refused
  BY <1>11, RefusedAssumption, Zenon DEF Spots
<1> DEFINE ks == Places(ends, ps, n)
           out == PacketsIn(buf, ks)
<1>15. ASSUME NEW k \in 1 .. n
       PROVE  SubSeq(buf, ks[k].at + 1, ks[k].at + ks[k].len) = ps[k]
  <2> DEFINE l == ends[k - 1]
             p == ps[k]
             a == l + 2
             b == l + 2 + Len(p)
             x == SubSeq(buf, a + 1, b)
  <2>0. k - 1 \in 0 .. n
    BY <1>1
  <2>1. l \in Nat /\ p \in Seq(Bytes) /\ Len(p) \in Nat /\ LiesAt(buf, l, p)
    BY <1>1, <1>5, <2>0
  <2>2. ks[k] = [at |-> a, len |-> Len(p)]
    BY DEF Places
  <2>3. ks[k].at = a /\ ks[k].len = Len(p)
    BY <2>2
  <2> HIDE DEF l, p, ks
  <2>4. b <= Len(buf) /\ \A q \in 1 .. Len(p) : buf[a + q] = p[q]
    BY <2>1, Zenon DEF LiesAt
  <2>5. a \in Nat /\ b \in Nat /\ a <= b /\ b = a + Len(p) /\ b - a = Len(p)
    BY <2>1
  <2> HIDE DEF a, b
  <2>6. x \in Seq(Bytes) /\ IsPiece(x, buf, a, b)
    BY <2>4, <2>5, Piece
  <2> HIDE DEF x
  <2>7. Len(x) = Len(p) /\ \A q \in 1 .. Len(p) : x[q] = buf[a + q]
    BY <2>5, <2>6, Zenon DEF IsPiece
  <2>8. \A q \in 1 .. Len(x) : x[q] = p[q]
    BY <2>4, <2>7, Zenon
  <2>9. x = p
    BY <2>1, <2>6, <2>7, <2>8, SameSequence
  <2>10. SubSeq(buf, ks[k].at + 1, ks[k].at + ks[k].len) = x
    BY <2>3, <2>5, Zenon DEF x
  <2>11. QED
    BY <2>9, <2>10, Zenon DEF p
<1>16. DOMAIN ks = 1 .. n /\ ps \in Seq(Seq(Bytes))
  BY Zenon DEF Places, Packets
<1>17. ps = [k \in 1 .. n |-> ps[k]]
  BY <1>16 DEF n
<1> HIDE DEF ks
<1>18. out = [k \in 1 .. n |-> SubSeq(buf, ks[k].at + 1, ks[k].at + ks[k].len)]
  BY <1>16, Zenon DEF PacketsIn
<1>19. out = ps
  <2> HIDE DEF out
  <2> QED  BY <1>15, <1>17, <1>18
<1> QED  BY <1>13, <1>14, <1>19, Zenon DEF out, ks

\* A buffer that is too short or counts too many packets is refused.
LEMMA NothingFromLess ==
  ASSUME NEW buf, Len(buf) < 4 \/ read_u32(buf) > max_blob_packet_num
  PROVE  DecodeOutput(buf) = Refused
BY Zenon DEF DecodeOutput

\* The count that is read is an int, whatever the four bytes are.
LEMMA CountIsInt ==
  ASSUME NEW buf, buf[1] \in Nat, buf[2] \in Nat, buf[3] \in Nat, buf[4] \in Nat
  PROVE  read_u32(buf) \in Int
<1> DEFINE high == IF buf[1] >= 128 THEN buf[1] - 256 ELSE buf[1]
           low  == read_u16(<<buf[3], buf[4]>>)
<1>1. high \in Int
  BY SMT
<1>2. low \in Int
  BY SMT DEF read_u16
<1>3. read_u32(buf) = high * 16777216 + buf[2] * 65536 + low
  BY SMT DEF read_u32
<1> HIDE DEF high, low
<1> QED  BY <1>1, <1>2, <1>3, SMT

\* What is found in any buffer lies in it.
LEMMA FoundIsInside ==
  ASSUME NEW buf \in Seq(Bytes), DecodeOutput(buf) # Refused
  PROVE  Inside(buf, DecodeOutput(buf))
<1> DEFINE n == read_u32(buf)
           top == max_blob_packet_num
<1>1. ~ (Len(buf) < 4) /\ ~ (n > top)
  BY NothingFromLess, Zenon
<1>2. Len(buf) >= 4
  <2>1. Len(buf) \in Nat
    OBVIOUS
  <2>2. QED
    BY <1>1, <2>1
<1>3. PICK f : ReadingStepwise(f, buf)
  BY <1>1, <1>2, DecodeUnfolds
<1>4. n \in Int /\ top \in Nat
  <2>1. \A i \in 1 .. Len(buf) : buf[i] \in Bytes
    OBVIOUS
  <2>2. 1 \in 1 .. Len(buf) /\ 2 \in 1 .. Len(buf) /\ 3 \in 1 .. Len(buf) /\ 4 \in 1 .. Len(buf)
    BY <1>2
  <2>3. Bytes \subseteq Nat
    BY DEF Bytes
  <2>4. buf[1] \in Nat /\ buf[2] \in Nat /\ buf[3] \in Nat /\ buf[4] \in Nat
    BY <2>1, <2>2, <2>3, Zenon
  <2>5. read_u32(buf) \in Int
    BY <2>4, CountIsInt
  <2>6. QED
    BY <2>5, CountAssumption, SMT
<1>5. CASE n <= 0
  <2>1. DecodeOutput(buf) = << >>
    BY <1>3, <1>5, Zenon DEF ReadingStepwise
  <2>2. Inside(buf, << >>)
    BY DEF Inside
  <2>3. QED
    BY <2>1, <2>2, Zenon
<1>6. CASE ~ (n <= 0)
  <2>1. n \in 0 .. top
    BY <1>1, <1>4, <1>6
  <2>2. DecodeOutput(buf) = IF f[n] = Refused THEN Refused ELSE f[n].packets
    BY <1>3, <1>6, Zenon DEF ReadingStepwise
  <2>3. f \in [0 .. top -> Readers(buf)]
    BY <1>3, Zenon DEF ReadingStepwise
  <2>4. f[n] \in Readers(buf) /\ f[n] # Refused /\ DecodeOutput(buf) = f[n].packets
    BY <2>1, <2>2, <2>3, Zenon
  <2>5. QED
    BY <2>4, Zenon DEF Readers
<1> QED  BY <1>5, <1>6

\* The packets of a group come out of its shards as they went in, and the shards are as
\* long as was promised.
LEMMA GroupComesBack ==
  ASSUME NEW p, IsPacking(p)
  PROVE  LET blob   == Encoded(p.packets)
             shards == EncodeOutput(blob, p.n, p.old)
             buf    == DecodeInput(shards)
             last   == p.packets[Len(p.packets)]
         IN  /\ DecodeOutput(buf) # Refused
             /\ PacketsIn(buf, DecodeOutput(buf)) = p.packets
             /\ Len(shards[1]) = get_shard_len_next(Encoded(Front(p.packets)), p.n, Len(last))
<1> DEFINE ps == p.packets
           k  == Len(ps)
           n  == p.n
           old == p.old
           blob   == Encoded(ps)
           shards == EncodeOutput(blob, n, old)
           buf    == DecodeInput(shards)
<1>1. /\ Packets(ps) /\ k \in Nat /\ k >= 1 /\ k <= max_blob_packet_num
      /\ n \in Nat /\ n >= 1 /\ old \in Seq(Bytes) /\ Len(old) >= n
  <2>0. Bytes = 0 .. 255
    BY DEF Bytes
  <2>1. ps \in Seq(Seq(0 .. 255)) /\ k \in 1 .. max_blob_packet_num
    BY SMT DEF IsPacking
  <2>2. n \in Nat \ {0} /\ old \in Seq(0 .. 255) /\ Len(old) >= n
    BY SMT DEF IsPacking
  <2>3. \A i \in DOMAIN ps : Len(ps[i]) <= MaxLength
    BY SMT DEF IsPacking, MaxLength
  <2> HIDE DEF ps, n, old
  <2>4. ps \in Seq(Seq(Bytes)) /\ old \in Seq(Bytes)
    BY <2>0, <2>1, <2>2, Zenon
  <2>5. Packets(ps)
    <3>1. DOMAIN ps = 1 .. Len(ps) /\ \A i \in 1 .. Len(ps) : ps[i] \in Seq(Bytes)
      BY <2>4
    <3>2. QED
      BY <2>3, <2>4, <3>1, Zenon DEF Packets
  <2>6. max_blob_packet_num \in Nat
    BY CountAssumption, SMT
  <2>7. k \in Nat /\ k >= 1 /\ k <= max_blob_packet_num /\ n \in Nat /\ n >= 1
    BY <2>1, <2>2, <2>6
  <2>8. QED
    BY <2>2, <2>4, <2>5, <2>7, Zenon
<1>2. k <= MaxCount /\ k \in 0 .. k /\ k - 1 \in 0 .. k
  <2>1. k <= MaxCount
    BY <1>1, CountAssumption, SMT DEF MaxCount
  <2>2. QED
    BY <1>1, <2>1
<1> HIDE DEF ps, n, old
<1>3. PICK f : BlobStepwise(f, ps)
  BY <1>1, BlobUnfolds
<1> DEFINE ends == Ends(f, ps)
           b == blob.buf
<1>4. blob \in Blobs /\ blob.counter = k /\ Laid(b, ends, ps) /\ Len(b) = ends[k]
  BY <1>1, <1>3, BlobIsLaid
<1> HIDE DEF blob, ends, k
<1>5. /\ ends \in [0 .. k -> Nat] /\ ends[0] = 4 /\ \A i \in 0 .. k : ends[i] >= 4
      /\ \A i \in 1 .. k : ends[i] = ends[i - 1] + 2 + Len(ps[i]) /\ LiesAt(b, ends[i - 1], ps[i])
  BY <1>4, Zenon DEF Laid, k
<1>6. /\ buf \in Seq(Bytes) /\ Len(b) <= Len(buf) /\ read_u32(buf) = k
      /\ \A q \in 5 .. Len(b) : buf[q] = b[q]
      /\ Len(shards[1]) = round_up_div(Len(b), n)
  <2>1. Len(b) >= 4
    BY <1>2, <1>4, <1>5
  <2>2. QED
    BY <1>1, <1>2, <1>4, <2>1, DecodedBuffer
<1> HIDE DEF buf, shards
<1>7. b \in Seq(Bytes)
  BY <1>4 DEF Blobs
<1> HIDE DEF b
<1>8. Laid(buf, ends, ps)
  <2>1. ASSUME NEW i \in 1 .. k
        PROVE  LiesAt(buf, ends[i - 1], ps[i])
    <3>1. i - 1 \in 0 .. k
      BY <1>1
    <3>2. /\ LiesAt(b, ends[i - 1], ps[i]) /\ ends[i - 1] \in Nat /\ ends[i - 1] >= 4
          /\ ps[i] \in Seq(Bytes)
      BY <1>1, <1>5, <3>1, Zenon DEF Packets, k
    <3>3. QED
      BY <1>6, <1>7, <3>2, LiesInLonger
  <2>2. QED
    BY <1>5, <2>1, Zenon DEF Laid, k
<1>9. DecodeOutput(buf) # Refused /\ PacketsIn(buf, DecodeOutput(buf)) = ps
  <2>1. Len(buf) >= 4 /\ Len(ps) = k
    <3>1. Len(b) >= 4 /\ Len(b) \in Nat /\ Len(buf) \in Nat
      BY <1>2, <1>4, <1>5, <1>6, <1>7
    <3>2. QED
      BY <1>6, <3>1 DEF k
  <2>2. QED
    BY <1>1, <1>6, <1>8, <2>1, PacketsAreRead
<1>10. Len(shards[1]) = get_shard_len_next(Encoded(Front(ps)), n, Len(ps[k]))
  <2>1. Encoded(Front(ps)) = f[k - 1]
    BY <1>1, <1>3, EncodedBeforeLast, Zenon DEF k
  <2>2. Len(f[k - 1].buf) = ends[k - 1]
    BY <1>2, Zenon DEF ends, Ends, k
  <2>3. k \in 1 .. k
    BY <1>1
  <2>4. Len(b) = ends[k - 1] + 2 + Len(ps[k])
    BY <1>4, <1>5, <2>3, Zenon
  <2>5. QED
    BY <1>6, <2>1, <2>2, <2>4, Zenon DEF get_shard_len_next
<1> QED  BY <1>9, <1>10, Zenon DEF buf, shards, blob, k, n, old, ps, b

\* Whatever packets a group holds and whatever is behind them in the buffer, they come
\* back from the shards in order, and the shards are as long as was promised; and no
\* bytes make the decoder hand on a packet outside its buffer (fec_manager.cpp:35-129).
THEOREM BlobsComeBack == Spec => []BlobRoundTrip
<1>1. InputOK => BlobRoundTrip
  <2> SUFFICES ASSUME InputOK
               PROVE  BlobRoundTrip
    OBVIOUS
  <2>1. CASE input.kind = "pack"
    <3>1. IsPacking(input.args)
      BY <2>1, InputsAssumption DEF InputOK
    <3>2. input.kind # "unpack"
      BY <2>1
    <3>3. QED
      BY <3>1, <3>2, GroupComesBack, Zenon DEF BlobRoundTrip
  <2>2. CASE input.kind = "unpack"
    <3>1. input.args \in Seq(Bytes)
      BY <2>2, InputsAssumption DEF InputOK, Bytes
    <3>2. ASSUME DecodeOutput(input.args) # Refused
          PROVE  \A i \in DOMAIN DecodeOutput(input.args) :
                   DecodeOutput(input.args)[i].at + DecodeOutput(input.args)[i].len <= Len(input.args)
      <4>1. Inside(input.args, DecodeOutput(input.args))
        BY <3>1, <3>2, FoundIsInside
      <4>2. QED
        <5> DEFINE out == DecodeOutput(input.args)
        <5>1. out \in Seq(Spots) /\ \A i \in 1 .. Len(out) : out[i].at + out[i].len <= Len(input.args)
          BY <4>1, Zenon DEF Inside
        <5> HIDE DEF out
        <5>2. DOMAIN out = 1 .. Len(out)
          BY <5>1
        <5>3. QED
          BY <5>1, <5>2, Zenon DEF out
    <3>3. input.kind # "pack"
      BY <2>2
    <3>4. QED
      BY <3>2, <3>3, Zenon DEF BlobRoundTrip
  <2>3. CASE input.kind # "pack" /\ input.kind # "unpack"
    BY <2>3, Zenon DEF BlobRoundTrip
  <2>4. QED
    BY <2>1, <2>2, <2>3
<1> QED  BY <1>1, InputsAreGiven, PTL

-----------------------------------------------------------------------------
(* The command line: what one option does *)

Fields == {"exit", "fec", "flags", "queue_len", "mode", "mtu", "timeout", "random_drop",
           "delay_capacity", "report", "sock_buf", "decode_buf", "tun_mtu", "header_overhead",
           "mssfix", "log_level", "enable_log_color", "jitter", "interval", "key", "fifo",
           "sub_net", "tun_dev", "out_interface", "rs_par_str", "local_addr", "remote_addr",
           "out_addr"}

IsSettings(s) == s = [z \in Fields |-> s[z]] /\ s.flags \in SUBSET Flags

LogOptions == {"log_level", "enable_color", "disable_color"}

\* The options a pass takes no notice of, the setting the others are about, whether they
\* are refused, and what else becomes of it.
Untouched(pass, name) == IF pass = "log" THEN name \notin LogOptions ELSE name \in Ignored

FieldOf(pass, name) ==
  IF pass # "log" THEN Field(name)
  ELSE IF name = "log_level" THEN "log_level" ELSE "enable_log_color"

Fails(pass, old, option, u) ==
  IF pass # "log" THEN NewValue(old, option, u) = Refused
  ELSE option.name = "log_level" /\ Scanned(option.arg, old) \notin 0 .. 6

ValueOf(pass, old, option, u) ==
  IF pass # "log" THEN NewValue(old, option, u)
  ELSE IF option.name = "log_level" THEN Scanned(option.arg, old) ELSE option.name = "enable_color"

\* The result of an option that is read depends on one setting and changes that one.
ShapeOfRead(pass, s, option, u) ==
  LET field == FieldOf(pass, option.name)
  IN  IF Untouched(pass, option.name) THEN s
      ELSE IF Fails(pass, s[field], option, u) THEN Exit(s, -1)
      ELSE [s EXCEPT ![field] = ValueOf(pass, s[field], option, u)]

LEMMA ReadShape ==
  ASSUME NEW pass, NEW s, s.exit = Running, NEW option, NEW u
  PROVE  Read(pass, s, option, u) = ShapeOfRead(pass, s, option, u)
<1> DEFINE name == option.name
<1>1. CASE pass # "log"
  <2>1. Read(pass, s, option, u) = ReadOption(s, option, u)
    BY <1>1, Zenon DEF Read
  <2>2. ReadOption(s, option, u)
          = IF name \in Ignored THEN s
            ELSE IF NewValue(s[Field(name)], option, u) = Refused THEN Exit(s, -1)
            ELSE [s EXCEPT ![Field(name)] = NewValue(s[Field(name)], option, u)]
    BY Zenon DEF ReadOption
  <2>3. QED
    BY <1>1, <2>1, <2>2, Zenon DEF ShapeOfRead, Untouched, FieldOf, Fails, ValueOf
<1>2. CASE pass = "log"
  <2>1. Read(pass, s, option, u) = ReadLogOption(s, option)
    BY <1>2, Zenon DEF Read
  <2>2. CASE name = "log_level"
    BY <1>2, <2>1, <2>2 DEF ReadLogOption, ShapeOfRead, Untouched, FieldOf, Fails, ValueOf, LogOptions
  <2>3. CASE name = "enable_color"
    BY <1>2, <2>1, <2>3 DEF ReadLogOption, ShapeOfRead, Untouched, FieldOf, Fails, ValueOf, LogOptions
  <2>4. CASE name = "disable_color"
    BY <1>2, <2>1, <2>4 DEF ReadLogOption, ShapeOfRead, Untouched, FieldOf, Fails, ValueOf, LogOptions
  <2>5. CASE name \notin LogOptions
    BY <1>2, <2>1, <2>5 DEF ReadLogOption, ShapeOfRead, Untouched, LogOptions
  <2>6. QED
    BY <2>2, <2>3, <2>4, <2>5 DEF LogOptions
<1> QED  BY <1>1, <1>2

\* What is not known is refused.
Known == Flags \cup Texts \cup {"out_interface"} \cup Addresses \cup DOMAIN Limits \cup Unlimited
           \cup {"jitter", "interval", "timeout", "sock_buf", "fec"}

LEMMA UnknownIsRefused ==
  ASSUME NEW old, NEW option, option.name \notin Known, NEW u
  PROVE  NewValue(old, option, u) = Refused
<1>1. /\ option.name \notin Flags /\ option.name \notin Texts /\ option.name # "out_interface"
      /\ option.name \notin Addresses /\ option.name \notin DOMAIN Limits \cup Unlimited
      /\ option.name # "jitter" /\ option.name # "interval" /\ option.name # "timeout"
      /\ option.name # "sock_buf" /\ option.name # "fec"
  BY Zenon DEF Known
<1> QED  BY <1>1, Zenon DEF NewValue

LEMMA LimitsDomain ==
  DOMAIN Limits = {"queue_len", "random_drop", "delay_capacity", "report", "decode_buf", "mode", "mtu"}
BY DEF Limits

\* An option that is not refused is about a setting, and not about the exit code or the table.
LEMMA KnownFields ==
  ASSUME NEW pass, NEW old, NEW option, NEW u,
         ~ Untouched(pass, option.name), ~ Fails(pass, old, option, u)
  PROVE  FieldOf(pass, option.name) \in Fields \ {"exit", "fec"}
<1>1. CASE pass = "log"
  BY <1>1 DEF FieldOf, Fields
<1>2. CASE pass # "log"
  <2>1. option.name \in Known
    BY <1>2, UnknownIsRefused, Zenon DEF Fails
  <2>2. FieldOf(pass, option.name) = Field(option.name)
    BY <1>2, Zenon DEF FieldOf
  <2>3. QED
    BY <2>1, <2>2, LimitsDomain
       DEF Known, Field, Fields, Flags, Texts, Addresses, Unlimited
<1> QED  BY <1>1, <1>2

\* Two options are about the same setting only if they are flags or colours.
LEMMA FieldsDiffer ==
  ASSUME NEW pass, NEW old, NEW old2, NEW a, NEW b, NEW u, a.name # b.name,
         ~ Untouched(pass, a.name), ~ Fails(pass, old, a, u),
         ~ Untouched(pass, b.name), ~ Fails(pass, old2, b, u),
         FieldOf(pass, a.name) = FieldOf(pass, b.name)
  PROVE  \/ pass # "log" /\ a.name \in Flags /\ b.name \in Flags
         \/ pass = "log" /\ {a.name, b.name} = {"enable_color", "disable_color"}
<1>1. CASE pass = "log"
  BY <1>1 DEF FieldOf, Untouched, LogOptions
<1>2. CASE pass # "log"
  <2>1. a.name \in Known /\ b.name \in Known
    BY <1>2, UnknownIsRefused, Zenon DEF Fails
  <2>2. Field(a.name) = Field(b.name)
    BY <1>2, Zenon DEF FieldOf
  <2>3. ASSUME a.name \notin Flags
        PROVE  FALSE
    BY <2>1, <2>2, <2>3, LimitsDomain DEF Known, Field, Flags, Texts, Addresses, Unlimited
  <2>4. ASSUME b.name \notin Flags
        PROVE  FALSE
    BY <2>1, <2>2, <2>4, LimitsDomain DEF Known, Field, Flags, Texts, Addresses, Unlimited
  <2>5. QED
    BY <1>2, <2>3, <2>4
<1> QED  BY <1>1, <1>2

\* Only flags change the flags.
LEMMA FlagsAreFlags ==
  ASSUME NEW pass, NEW old, NEW option, NEW u, FieldOf(pass, option.name) = "flags",
         ~ Untouched(pass, option.name), ~ Fails(pass, old, option, u)
  PROVE  /\ pass # "log" /\ option.name \in Flags
         /\ ValueOf(pass, old, option, u) = old \cup {option.name}
<1>1. pass # "log"
  BY DEF FieldOf
<1>2. Field(option.name) = "flags"
  BY <1>1, Zenon DEF FieldOf
<1>3. option.name \in Known
  BY <1>1, UnknownIsRefused, Zenon DEF Fails
<1>4. option.name \in Flags
  BY <1>2, <1>3, LimitsDomain DEF Known, Field, Texts, Addresses, Unlimited
<1>5. NewValue(old, option, u) = old \cup {option.name}
  BY <1>4, LimitsDomain DEF NewValue, Flags, Texts, Addresses, Unlimited
<1> QED  BY <1>1, <1>4, <1>5 DEF ValueOf

\* Reading keeps settings what they are.
LEMMA ReadKeepsSettings ==
  ASSUME NEW pass, NEW s, IsSettings(s), NEW option, NEW u
  PROVE  /\ IsSettings(Read(pass, s, option, u))
         /\ s.exit # Running => Read(pass, s, option, u) = s
<1>1. CASE s.exit # Running
  BY <1>1, Zenon DEF Read
<1>2. CASE s.exit = Running
  <2> DEFINE field == FieldOf(pass, option.name)
             result == ShapeOfRead(pass, s, option, u)
             value == ValueOf(pass, s[field], option, u)
  <2>1. Read(pass, s, option, u) = result
    BY <1>2, ReadShape
  <2>2. CASE Untouched(pass, option.name)
    BY <1>2, <2>1, <2>2, Zenon DEF ShapeOfRead
  <2>3. CASE ~ Untouched(pass, option.name) /\ Fails(pass, s[field], option, u)
    <3>1. result = Exit(s, -1)
      BY <2>3, Zenon DEF ShapeOfRead
    <3>2. IsSettings(Exit(s, -1))
      BY DEF IsSettings, Exit
    <3> HIDE DEF result
    <3>3. QED
      BY <1>2, <2>1, <3>1, <3>2
  <2>4. CASE ~ Untouched(pass, option.name) /\ ~ Fails(pass, s[field], option, u)
    <3>1. result = [s EXCEPT ![field] = value]
      BY <2>4, Zenon DEF ShapeOfRead
    <3>2. field = "flags" => value = s[field] \cup {option.name} /\ option.name \in Flags
      <4>1. ASSUME field = "flags"
            PROVE  value = s[field] \cup {option.name} /\ option.name \in Flags
        <5>1. FieldOf(pass, option.name) = "flags"
          BY <4>1
        <5>2. ~ Untouched(pass, option.name) /\ ~ Fails(pass, s[field], option, u)
          BY <2>4
        <5> HIDE DEF field
        <5>3. QED
          BY <5>1, <5>2, FlagsAreFlags
      <4>2. QED
        BY <4>1, Zenon
    <3> HIDE DEF result, value, field
    <3>3. IsSettings([s EXCEPT ![field] = value])
      BY <3>2 DEF IsSettings, Fields
    <3>4. QED
      BY <1>2, <2>1, <3>1, <3>3
  <2>5. QED
    BY <2>2, <2>3, <2>4, Zenon
<1> QED  BY <1>1, <1>2, Zenon

\* If an option is read and the program goes on, it was not refused.
LEMMA RunningOn ==
  ASSUME NEW pass, NEW s, IsSettings(s), NEW option, NEW u,
         Read(pass, s, option, u).exit = Running
  PROVE  LET field == FieldOf(pass, option.name)
         IN  /\ s.exit = Running
             /\ Untouched(pass, option.name) => Read(pass, s, option, u) = s
             /\ ~ Untouched(pass, option.name) =>
                  /\ ~ Fails(pass, s[field], option, u)
                  /\ field \in Fields /\ field # "exit" /\ field # "fec"
                  /\ Read(pass, s, option, u) = [s EXCEPT ![field] = ValueOf(pass, s[field], option, u)]
<1> DEFINE field == FieldOf(pass, option.name)
<1>1. s.exit = Running
  BY ReadKeepsSettings, Zenon
<1>2. Read(pass, s, option, u) = ShapeOfRead(pass, s, option, u)
  BY <1>1, ReadShape
<1>3. Exit(s, -1).exit # Running
  BY DEF IsSettings, Exit, Fields, Running
<1>4. ASSUME ~ Untouched(pass, option.name)
      PROVE  ~ Fails(pass, s[field], option, u)
  BY <1>2, <1>3, <1>4, Zenon DEF ShapeOfRead
<1>5. ASSUME ~ Untouched(pass, option.name)
      PROVE  field \in Fields \ {"exit", "fec"}
  BY <1>4, <1>5, KnownFields, Zenon
<1>6. ASSUME ~ Untouched(pass, option.name)
      PROVE  Read(pass, s, option, u) = [s EXCEPT ![field] = ValueOf(pass, s[field], option, u)]
  BY <1>2, <1>4, <1>6, Zenon DEF ShapeOfRead
<1>7. Untouched(pass, option.name) => Read(pass, s, option, u) = s
  BY <1>2, Zenon DEF ShapeOfRead
<1> QED  BY <1>1, <1>4, <1>5, <1>6, <1>7, Zenon


-----------------------------------------------------------------------------
(* The command line: passes *)

\* f[i] are the settings after i options.
Passes(f, pass, s, argv, u) ==
  f[0] = s /\ \A i \in 1 .. Len(argv) : f[i] = Read(pass, f[i - 1], argv[i], u)

LEMMA PassUnfolds ==
  ASSUME NEW pass, NEW s, NEW argv, Len(argv) \in Nat, NEW u
  PROVE  \E f : Passes(f, pass, s, argv, u) /\ Passed(pass, s, argv, u) = f[Len(argv)]
<1> DEFINE n == Len(argv)
           Body(g) == [i \in 0 .. n |-> IF i = 0 THEN s ELSE Read(pass, g[i - 1], argv[i], u)]
           Upto(f, m) == /\ f = [i \in 0 .. m |-> f[i]] /\ f[0] = s
                         /\ \A i \in 1 .. m : f[i] = Read(pass, f[i - 1], argv[i], u)
           S == {m \in 0 .. n : \E f : Upto(f, m)}
           read == CHOOSE f : f = Body(f)
<1>1. 0 \in S
  <2>1. Upto([i \in 0 .. 0 |-> s], 0)
    OBVIOUS
  <2>2. 0 \in 0 .. n
    OBVIOUS
  <2> HIDE DEF Upto, n
  <2>3. QED
    BY <2>1, <2>2
<1> HIDE DEF n
<1>2. ASSUME NEW m \in 1 .. n, m - 1 \in S
      PROVE  m \in S
  <2>0. m \in 0 .. n /\ m \in Nat /\ m - 1 \in Nat
    BY DEF n
  <2>1. PICK f : Upto(f, m - 1)
    BY <1>2
  <2> DEFINE g == [i \in 0 .. m |-> IF i = m THEN Read(pass, f[m - 1], argv[m], u) ELSE f[i]]
  <2>2. g[0] = s /\ g = [i \in 0 .. m |-> g[i]]
    BY <2>0, <2>1
  <2>3. ASSUME NEW i \in 1 .. m
        PROVE  g[i] = Read(pass, g[i - 1], argv[i], u)
    <3>1. i - 1 \in 0 .. m /\ i - 1 # m /\ i \in 0 .. m
      BY <2>0
    <3>2. g[i - 1] = f[i - 1]
      BY <3>1, Zenon
    <3>3. CASE i = m
      BY <3>1, <3>2, <3>3, Zenon
    <3>4. CASE i # m
      <4>1. i \in 1 .. m - 1
        BY <2>0, <3>4
      <4>2. f[i] = Read(pass, f[i - 1], argv[i], u)
        BY <2>1, <4>1, Zenon
      <4>3. g[i] = f[i]
        BY <3>1, <3>4, Zenon
      <4>4. QED
        BY <3>2, <4>2, <4>3, Zenon
    <3>5. QED
      BY <3>3, <3>4
  <2> HIDE DEF g
  <2>4. Upto(g, m)
    BY <2>2, <2>3, Zenon
  <2> HIDE DEF Upto
  <2>5. QED
    BY <2>0, <2>4, Zenon
<1>3. n \in S
  <2> HIDE DEF S
  <2> QED  BY <1>1, <1>2, Climb DEF n
<1>4. PICK f : Upto(f, n)
  BY <1>3
<1>5. f = Body(f)
  <2>1. ASSUME NEW i \in 0 .. n
        PROVE  f[i] = IF i = 0 THEN s ELSE Read(pass, f[i - 1], argv[i], u)
    <3>1. i = 0 \/ i \in 1 .. n
      BY DEF n
    <3>2. QED
      BY <1>4, <3>1, Zenon
  <2>2. [i \in 0 .. n |-> f[i]] = Body(f)
    BY <2>1, Zenon
  <2>3. QED
    BY <1>4, <2>2, Zenon
<1>6. read = Body(read)
  <2> HIDE DEF Body
  <2> QED  BY <1>5, Zenon
<1>7. Passed(pass, s, argv, u) = read[n]
  BY Zenon DEF Passed, n
<1> HIDE DEF read
<1>8. read[0] = s /\ \A i \in 1 .. n : read[i] = Read(pass, read[i - 1], argv[i], u)
  <2>1. 0 \in 0 .. n /\ \A i \in 1 .. n : i \in 0 .. n /\ i # 0
    BY DEF n
  <2>2. \A i \in 0 .. n : read[i] = IF i = 0 THEN s ELSE Read(pass, read[i - 1], argv[i], u)
    BY <1>6, Zenon
  <2>3. QED
    BY <2>1, <2>2, Zenon
<1> QED  BY <1>7, <1>8, Zenon DEF Passes, n

\* Settings stay settings, and a program that goes on at the end has gone on all the time.
LEMMA PassFacts ==
  ASSUME NEW pass, NEW s, IsSettings(s), NEW argv, Len(argv) \in Nat, NEW u,
         NEW f, Passes(f, pass, s, argv, u)
  PROVE  /\ \A i \in 0 .. Len(argv) : IsSettings(f[i])
         /\ f[Len(argv)].exit = Running => \A i \in 0 .. Len(argv) : f[i].exit = Running
<1> DEFINE n == Len(argv)
           T == {i \in 0 .. n : IsSettings(f[i])}
<1>1. 0 \in T
  BY DEF Passes
<1>2. ASSUME NEW i \in 1 .. n, i - 1 \in T
      PROVE  i \in T
  <2>1. f[i] = Read(pass, f[i - 1], argv[i], u)
    BY Zenon DEF Passes
  <2>2. IsSettings(f[i])
    <3>1. IsSettings(f[i - 1])
      BY <1>2
    <3>2. IsSettings(Read(pass, f[i - 1], argv[i], u))
      BY <3>1, ReadKeepsSettings, Zenon
    <3>3. QED
      BY <2>1, <3>2
  <2>3. QED
    BY <2>2
<1>3. \A i \in 0 .. n : i \in T
  <2> HIDE DEF T
  <2> QED  BY <1>1, <1>2, Climb
<1>4. ASSUME NEW i \in 0 .. n, f[i].exit # Running
      PROVE  f[n].exit # Running
  <2> DEFINE U == {k \in 0 .. n - i : f[i + k].exit # Running}
  <2>0. n - i \in Nat /\ i + 0 = i
    OBVIOUS
  <2>1. 0 \in U
    BY <1>4, <2>0
  <2>2. ASSUME NEW k \in 1 .. n - i, k - 1 \in U
        PROVE  k \in U
    <3>1. i + k \in 1 .. n /\ (i + k) - 1 = i + (k - 1) /\ i + (k - 1) \in 0 .. n /\ k \in 0 .. n - i
      OBVIOUS
    <3>2. f[i + k] = Read(pass, f[i + (k - 1)], argv[i + k], u)
      BY <3>1, Zenon DEF Passes
    <3> DEFINE x == f[i + (k - 1)]
    <3>3. IsSettings(x) /\ x.exit # Running
      BY <1>3, <2>2, <3>1
    <3> HIDE DEF x
    <3>4. Read(pass, x, argv[i + k], u) = x
      BY <3>3, ReadKeepsSettings, Zenon
    <3>5. QED
      BY <3>1, <3>2, <3>3, <3>4 DEF x
  <2>3. n - i \in U
    <3> HIDE DEF U, n
    <3> QED  BY <2>0, <2>1, <2>2, Climb
  <2>4. i + (n - i) = n
    OBVIOUS
  <2>5. QED
    BY <2>3, <2>4, Zenon
<1> QED  BY <1>3, <1>4

SameOptions(argv, a, other, b, m) == \A k \in 1 .. m : argv[a + k] = other[b + k]

\* The same options do the same from where the settings are the same.
LEMMA SameStretch ==
  ASSUME NEW pass, NEW s, NEW argv, Len(argv) \in Nat, NEW u, NEW f, Passes(f, pass, s, argv, u),
         NEW s2, NEW other, Len(other) \in Nat, NEW g, Passes(g, pass, s2, other, u),
         NEW a \in Nat, NEW c \in Nat, a <= c, c <= Len(argv),
         NEW b \in Nat, NEW d \in Nat, d - b = c - a, d <= Len(other),
         f[a] = g[b], SameOptions(argv, a, other, b, c - a)
  PROVE  f[c] = g[d]
<1> DEFINE m == c - a
           T == {k \in 0 .. m : f[a + k] = g[b + k]}
<1>0. a + 0 = a /\ b + 0 = b /\ m \in Nat /\ a + m = c /\ b + m = d
  OBVIOUS
<1>1. 0 \in T
  BY <1>0
<1>2. ASSUME NEW k \in 1 .. m, k - 1 \in T
      PROVE  k \in T
  <2>1. /\ a + k \in 1 .. Len(argv) /\ (a + k) - 1 = a + (k - 1)
        /\ b + k \in 1 .. Len(other) /\ (b + k) - 1 = b + (k - 1) /\ k \in 0 .. m
    OBVIOUS
  <2>2. f[a + k] = Read(pass, f[a + (k - 1)], argv[a + k], u)
    BY <2>1, Zenon DEF Passes
  <2>3. g[b + k] = Read(pass, g[b + (k - 1)], other[b + k], u)
    BY <2>1, Zenon DEF Passes
  <2>4. QED
    BY <1>2, <2>1, <2>2, <2>3, Zenon DEF SameOptions
<1>3. m \in T
  <2> HIDE DEF T
  <2> QED  BY <1>0, <1>1, <1>2, Climb
<1> QED  BY <1>0, <1>3

LEMMA SamePrefix ==
  ASSUME NEW pass, NEW s, NEW argv, Len(argv) \in Nat, NEW u, NEW f, Passes(f, pass, s, argv, u),
         NEW other, Len(other) \in Nat, NEW g, Passes(g, pass, s, other, u),
         NEW m \in Nat, m <= Len(argv), m <= Len(other), SameOptions(argv, 0, other, 0, m)
  PROVE  f[m] = g[m]
<1> DEFINE z == 0
<1>1. f[z] = g[z]
  BY DEF Passes
<1>2. z \in Nat /\ z <= m /\ m - z = m - z
  OBVIOUS
<1>3. SameOptions(argv, z, other, z, m - z)
  OBVIOUS
<1> HIDE DEF z
<1> QED  BY <1>1, <1>2, <1>3, SameStretch


-----------------------------------------------------------------------------
(* The command line: options that change places *)

LEMMA ReadsCommute ==
  ASSUME NEW pass, NEW s, IsSettings(s), NEW a, NEW b, NEW u, Independent(a.name, b.name),
         Read(pass, Read(pass, s, a, u), b, u).exit = Running
  PROVE  Read(pass, Read(pass, s, b, u), a, u) = Read(pass, Read(pass, s, a, u), b, u)
<1> DEFINE x  == Read(pass, s, a, u)
           xb == Read(pass, x, b, u)
           y  == Read(pass, s, b, u)
           ya == Read(pass, y, a, u)
           F  == FieldOf(pass, a.name)
           G  == FieldOf(pass, b.name)
           va == ValueOf(pass, s[F], a, u)
           vb == ValueOf(pass, x[G], b, u)
<1>0. IsSettings(x) /\ IsSettings(y)
  BY ReadKeepsSettings
<1>1. /\ x.exit = Running
      /\ Untouched(pass, b.name) => xb = x
      /\ ~ Untouched(pass, b.name) =>
           /\ ~ Fails(pass, x[G], b, u) /\ G \in Fields /\ G # "exit" /\ xb = [x EXCEPT ![G] = vb]
  <2>1. IsSettings(x) /\ Read(pass, x, b, u).exit = Running
    BY <1>0, Zenon
  <2> HIDE DEF x
  <2>2. QED
    BY <2>1, RunningOn
<1>2. /\ s.exit = Running
      /\ Untouched(pass, a.name) => x = s
      /\ ~ Untouched(pass, a.name) =>
           /\ ~ Fails(pass, s[F], a, u) /\ F \in Fields /\ F # "exit" /\ x = [s EXCEPT ![F] = va]
  BY <1>1, RunningOn
<1>3. y = ShapeOfRead(pass, s, b, u)
  BY <1>2, ReadShape
<1>4. y.exit = Running => ya = ShapeOfRead(pass, y, a, u)
  <2> HIDE DEF y
  <2> QED  BY ReadShape
<1>5. CASE Untouched(pass, a.name)
  <2>1. y = xb
    BY <1>2, <1>5, Zenon
  <2>2. xb.exit = Running
    OBVIOUS
  <2>3. ya = y
    BY <1>4, <1>5, <2>1, <2>2, Zenon DEF ShapeOfRead
  <2>4. QED
    BY <2>1, <2>3, Zenon
<1>6. CASE Untouched(pass, b.name)
  <2>1. y = s
    BY <1>3, <1>6, Zenon DEF ShapeOfRead
  <2>2. QED
    BY <1>1, <1>6, <2>1, Zenon
<1>7. CASE ~ Untouched(pass, a.name) /\ ~ Untouched(pass, b.name) /\ F # G
  <2>0. s = [z \in Fields |-> s[z]] /\ x = [z \in Fields |-> x[z]]
    BY <1>0, Zenon DEF IsSettings
  <2> HIDE DEF F, G, va
  <2>1. x[G] = s[G]
    <3> HIDE DEF x
    <3> QED  BY <1>1, <1>2, <1>7, <2>0
  <2>2. y = [s EXCEPT ![G] = vb]
    BY <1>1, <1>3, <1>7, <2>1, Zenon DEF ShapeOfRead, G
  <2> HIDE DEF y, vb
  <2>3. y.exit = Running /\ y[F] = s[F]
    <3> HIDE DEF x
    <3> QED  BY <1>1, <1>2, <1>7, <2>0, <2>2 DEF Fields
  <2>4. ya = [y EXCEPT ![F] = va]
    BY <1>2, <1>4, <1>7, <2>3, Zenon DEF ShapeOfRead, F, va
  <2> HIDE DEF x, ya, xb
  <2>5. ya = xb
    BY <1>1, <1>2, <1>7, <2>0, <2>2, <2>4
  <2>6. QED
    BY <2>5, Zenon DEF ya, xb, y, x
<1>8. CASE ~ Untouched(pass, a.name) /\ ~ Untouched(pass, b.name) /\ F = G
  <2>1. pass # "log" /\ a.name \in Flags /\ b.name \in Flags
    <3>1. /\ ~ Fails(pass, s[F], a, u) /\ ~ Fails(pass, x[G], b, u)
          /\ FieldOf(pass, a.name) = FieldOf(pass, b.name)
      BY <1>1, <1>2, <1>8, Zenon
    <3> HIDE DEF x, F, G
    <3>2. QED
      BY <3>1, <1>8, FieldsDiffer DEF Independent
  <2>2. F = "flags" /\ G = "flags"
    BY <2>1, Zenon DEF FieldOf, Field
  <2>3. va = s.flags \cup {a.name} /\ vb = x.flags \cup {b.name}
    <3>1. /\ ~ Fails(pass, s[F], a, u) /\ ~ Fails(pass, x[G], b, u)
      BY <1>1, <1>2, <1>8, Zenon
    <3>2. FieldOf(pass, a.name) = "flags" /\ FieldOf(pass, b.name) = "flags"
      BY <2>2
    <3>3. F = "flags" => va = s.flags \cup {a.name}
      <4> HIDE DEF F
      <4> QED  BY <2>2, <3>1, <3>2, <1>8, FlagsAreFlags DEF va
    <3>4. G = "flags" => vb = x.flags \cup {b.name}
      <4> HIDE DEF G, x
      <4> QED  BY <2>2, <3>1, <3>2, <1>8, FlagsAreFlags DEF vb
    <3>5. QED
      BY <2>2, <3>3, <3>4
  <2>4. /\ NewValue(s.flags, b, u) = s.flags \cup {b.name}
        /\ NewValue(s.flags \cup {b.name}, a, u) = (s.flags \cup {b.name}) \cup {a.name}
    BY <2>1, LimitsDomain, SMT DEF NewValue, Flags, Texts, Addresses, Unlimited
  <2>5. /\ s.flags \cup {b.name} \in SUBSET Flags
        /\ (s.flags \cup {b.name}) \cup {a.name} \in SUBSET Flags
    BY <2>1, Zenon DEF IsSettings
  <2>6. s.flags \cup {b.name} # Refused /\ (s.flags \cup {b.name}) \cup {a.name} # Refused
    BY <2>5, FlagsAssumption, Zenon
  <2>7. y = [s EXCEPT !.flags = s.flags \cup {b.name}]
    BY <1>3, <1>8, <2>1, <2>2, <2>4, <2>6, Zenon DEF ShapeOfRead, Fails, ValueOf
  <2> HIDE DEF y
  <2>8. y.exit = Running /\ y.flags = s.flags \cup {b.name}
    BY <1>2, <2>7 DEF IsSettings, Fields
  <2>9. ya = [y EXCEPT !.flags = (s.flags \cup {b.name}) \cup {a.name}]
    BY <1>4, <1>8, <2>1, <2>2, <2>4, <2>6, <2>8, Zenon DEF ShapeOfRead, Fails, ValueOf
  <2>10. x = [s EXCEPT !.flags = s.flags \cup {a.name}] /\ xb = [x EXCEPT !.flags = x.flags \cup {b.name}]
    BY <1>1, <1>2, <1>8, <2>2, <2>3, Zenon
  <2> HIDE DEF x, xb, ya
  <2>11. x.flags = s.flags \cup {a.name}
    BY <2>10 DEF IsSettings, Fields
  <2>12. (s.flags \cup {b.name}) \cup {a.name} = x.flags \cup {b.name}
    BY <2>11
  <2>13. ya = xb
    BY <2>7, <2>9, <2>10, <2>12 DEF IsSettings
  <2>14. QED
    BY <2>13, Zenon DEF ya, xb, y, x
<1> QED  BY <1>5, <1>6, <1>7, <1>8

LEMMA SwappedIs ==
  ASSUME NEW argv, NEW S, argv \in Seq(S), NEW i \in 2 .. Len(argv)
  PROVE  /\ Len(Swapped(argv, i)) = Len(argv) /\ DOMAIN Swapped(argv, i) = DOMAIN argv
         /\ Swapped(argv, i)[i] = argv[i - 1] /\ Swapped(argv, i)[i - 1] = argv[i]
         /\ \A k \in 1 .. Len(argv) : k # i /\ k # i - 1 => Swapped(argv, i)[k] = argv[k]
         /\ i \in DOMAIN argv /\ i - 1 \in DOMAIN argv
BY DEF Swapped

\* Neighbouring options about different settings can be swapped.
LEMMA PassedSwapped ==
  ASSUME NEW pass, NEW s, IsSettings(s), NEW argv, NEW S, argv \in Seq(S), NEW u,
         NEW i \in 2 .. Len(argv), Independent(argv[i - 1].name, argv[i].name),
         Passed(pass, s, argv, u).exit = Running
  PROVE  Passed(pass, s, Swapped(argv, i), u) = Passed(pass, s, argv, u)
<1> DEFINE n == Len(argv)
           other == Swapped(argv, i)
<1>0. /\ n \in Nat /\ Len(other) = n /\ i - 2 \in Nat /\ n - i \in Nat
      /\ 0 + (i - 2) = i - 2 /\ i + (n - i) = n /\ i - 2 \in 0 .. n /\ 0 \in Nat /\ i \in Nat
      /\ i - 1 \in 1 .. n /\ i \in 1 .. n /\ (i - 1) - 1 = i - 2
  BY SwappedIs
<1>1. /\ other[i] = argv[i - 1] /\ other[i - 1] = argv[i]
      /\ \A k \in 1 .. n : k # i /\ k # i - 1 => other[k] = argv[k]
  BY SwappedIs
<1> HIDE DEF other
<1>2. PICK f : Passes(f, pass, s, argv, u) /\ Passed(pass, s, argv, u) = f[n]
  BY <1>0, PassUnfolds
<1>3. PICK g : Passes(g, pass, s, other, u) /\ Passed(pass, s, other, u) = g[n]
  BY <1>0, PassUnfolds
<1>4. \A k \in 0 .. n : IsSettings(f[k]) /\ f[k].exit = Running
  BY <1>0, <1>2, PassFacts
<1>5. f[i - 2] = g[i - 2]
  <2>1. SameOptions(argv, 0, other, 0, i - 2)
    <3>1. \A k \in 1 .. i - 2 : 0 + k \in 1 .. n /\ 0 + k # i /\ 0 + k # i - 1
      BY <1>0
    <3>2. QED
      BY <1>1, <3>1, Zenon DEF SameOptions
  <2>2. f[0] = g[0]
    BY <1>2, <1>3 DEF Passes
  <2>3. i - 2 <= n /\ i - 2 <= Len(other) /\ 0 <= i - 2 /\ Len(other) \in Nat
    BY <1>0
  <2> HIDE DEF n
  <2>4. QED
    BY <1>0, <1>2, <1>3, <2>1, <2>2, <2>3, SamePrefix DEF n
<1>6. f[i] = g[i]
  <2>1. /\ f[i - 1] = Read(pass, f[i - 2], argv[i - 1], u) /\ f[i] = Read(pass, f[i - 1], argv[i], u)
        /\ g[i - 1] = Read(pass, g[i - 2], argv[i], u) /\ g[i] = Read(pass, g[i - 1], argv[i - 1], u)
    BY <1>0, <1>1, <1>2, <1>3, Zenon DEF Passes
  <2>2. f[i - 2] = g[i - 2]
    BY <1>5
  <2>3. /\ f[i] = Read(pass, Read(pass, f[i - 2], argv[i - 1], u), argv[i], u)
        /\ g[i] = Read(pass, Read(pass, f[i - 2], argv[i], u), argv[i - 1], u)
        /\ IsSettings(f[i - 2]) /\ f[i].exit = Running
    <3>1. i - 2 \in 0 .. n /\ i \in 0 .. n
      BY <1>0
    <3>2. QED
      BY <1>4, <2>1, <2>2, <3>1, Zenon
  <2>4. QED
    BY <2>3, ReadsCommute
<1>7. f[n] = g[n]
  <2>1. SameOptions(argv, i, other, i, n - i)
    <3>1. \A k \in 1 .. n - i : i + k \in 1 .. n /\ i + k # i /\ i + k # i - 1
      BY <1>0
    <3>2. QED
      BY <1>1, <3>1, Zenon DEF SameOptions
  <2>2. i <= n /\ n <= Len(other) /\ n <= n /\ Len(other) \in Nat
    BY <1>0
  <2> HIDE DEF n
  <2>3. QED
    BY <1>0, <1>2, <1>3, <1>6, <2>1, <2>2, SameStretch DEF n
<1> QED  BY <1>0, <1>2, <1>3, <1>7, Zenon DEF other

-----------------------------------------------------------------------------
(* The command line: options that are given again *)

LEMMA WithoutIs ==
  ASSUME NEW argv, NEW S, argv \in Seq(S), NEW i \in 1 .. Len(argv)
  PROVE  /\ RemoveAt(argv, i) \in Seq(S) /\ Len(RemoveAt(argv, i)) = Len(argv) - 1
         /\ \A k \in 1 .. i - 1 : RemoveAt(argv, i)[k] = argv[k]
         /\ \A k \in i .. Len(argv) - 1 : RemoveAt(argv, i)[k] = argv[k + 1]
<1> DEFINE left  == SubSeq(argv, 1, i - 1)
           right == SubSeq(argv, i + 1, Len(argv))
<1>1. /\ left \in Seq(S) /\ Len(left) = i - 1
      /\ \A k \in 1 .. i - 1 : left[k] = argv[k]
  OBVIOUS
<1>2. /\ right \in Seq(S) /\ Len(right) = Len(argv) - i
      /\ \A k \in 1 .. Len(argv) - i : right[k] = argv[i + k]
  OBVIOUS
<1>3. RemoveAt(argv, i) = left \o right
  BY Zenon DEF RemoveAt
<1> HIDE DEF left, right
<1>4. left \o right \in Seq(S) /\ Len(left \o right) = Len(argv) - 1
  BY <1>1, <1>2
<1>6. ASSUME NEW k \in 1 .. i - 1
      PROVE  (left \o right)[k] = left[k]
  BY <1>1, <1>2
<1>5. ASSUME NEW k \in i .. Len(argv) - 1
      PROVE  (left \o right)[k] = argv[k + 1]
  <2>1. (left \o right)[k] = right[k - (i - 1)]
    BY <1>1, <1>2
  <2>2. k - (i - 1) \in 1 .. Len(argv) - i /\ i + (k - (i - 1)) = k + 1
    OBVIOUS
  <2>3. QED
    BY <1>2, <2>1, <2>2
<1> QED  BY <1>1, <1>3, <1>4, <1>5, <1>6

\* What is read completely does not depend on what was there before.
LEMMA CompleteForgets ==
  ASSUME NEW pass, NEW option, Complete(option), NEW u, NEW old, NEW new,
         ~ Untouched(pass, option.name), FieldOf(pass, option.name) # "flags"
  PROVE  /\ Fails(pass, old, option, u) <=> Fails(pass, new, option, u)
         /\ ValueOf(pass, old, option, u) = ValueOf(pass, new, option, u)
<1> DEFINE arg == option.arg
           name == option.name
<1>1. CASE pass = "log"
  <2>1. name = "log_level" => arg.numbers # << >>
    BY LimitsDomain DEF Complete, Texts, Pairs, Flags, Addresses
  <2>2. QED
    BY <1>1, <2>1 DEF Fails, ValueOf, Scanned
<1>2. CASE pass # "log"
  <2>0. name \notin Flags
    BY <1>2 DEF FieldOf, Field
  <2>1. SUFFICES NewValue(old, option, u) = NewValue(new, option, u)
    BY <1>2 DEF Fails, ValueOf
  <2>2. CASE name \in Texts
    <3>1. arg.text # ""
      BY <2>2, LimitsDomain DEF Complete, Pairs, Texts, Addresses, Flags
    <3>2. ReadText(old, name, arg) = ReadText(new, name, arg)
      BY <3>1, Zenon DEF ReadText
    <3>3. QED
      BY <2>2, <3>2, LimitsDomain DEF NewValue, Pairs, Texts, Addresses, Flags, Unlimited
  <2>3. CASE name \in Pairs
    <3>1. IF arg.colon THEN Len(arg.numbers) = 2 ELSE arg.numbers # << >>
      BY <2>3 DEF Complete, Pairs, Texts, Addresses, Flags
    <3>2. /\ ReadJitter(old, arg, u) = ReadJitter(new, arg, u)
          /\ ReadInterval(old, arg) = ReadInterval(new, arg)
      <4>1. CASE arg.colon
        <5>1. Len(arg.numbers) >= 1 /\ Len(arg.numbers) >= 2
          <6>1. Len(arg.numbers) = 2
            BY <3>1, <4>1, Zenon
          <6>2. QED
            BY <6>1
        <5>2. ReadPair(old, arg) = ReadPair(new, arg)
          BY <5>1, Zenon DEF ReadPair
        <5>3. QED
          BY <4>1, <5>2, Zenon DEF ReadJitter, ReadInterval
      <4>2. CASE ~ arg.colon
        <5> HIDE DEF arg
        <5> QED  BY <4>2, SMTT(30) DEF ReadJitter, ReadInterval
      <4>3. QED
        BY <4>1, <4>2
    <3>3. QED
      BY <2>3, <3>2, LimitsDomain DEF NewValue, Pairs, Texts, Addresses, Flags, Unlimited
  <2>4. CASE name \in DOMAIN Limits \cup Unlimited \cup {"timeout"}
    <3>1. arg.numbers # << >>
      BY <2>4, LimitsDomain DEF Complete, Unlimited, Pairs, Texts, Addresses, Flags
    <3>2. ReadNumber(old, name, arg) = ReadNumber(new, name, arg) /\ ReadTimeout(old, arg) = ReadTimeout(new, arg)
      <4>1. Scanned(arg, old) = Scanned(arg, new)
        BY <3>1, Zenon DEF Scanned
      <4>2. QED
        BY <4>1 DEF ReadNumber, ReadTimeout
    <3>3. QED
      BY <2>4, <3>2, LimitsDomain DEF NewValue, Pairs, Texts, Addresses, Flags, Unlimited
  <2>5. CASE /\ name \notin Texts /\ name \notin Pairs
             /\ name \notin DOMAIN Limits \cup Unlimited \cup {"timeout"}
    BY <2>0, <2>5 DEF NewValue, Pairs
  <2>6. QED
    BY <2>2, <2>3, <2>4, <2>5, Zenon
<1> QED  BY <1>1, <1>2

\* Settings that differ by one option called name, about F.
Close(F, name, x, y) ==
  /\ IsSettings(x) /\ IsSettings(y)
  /\ \A z \in Fields \ {F} : x[z] = y[z]
  /\ F = "flags" => x.flags = y.flags \cup {name}

LEMMA SetClose ==
  ASSUME NEW F, NEW name, NEW x, NEW y, Close(F, name, x, y), NEW G \in Fields, NEW v, NEW w,
         IsSettings([x EXCEPT ![G] = v]), IsSettings([y EXCEPT ![G] = w]),
         IF G # F THEN v = w ELSE F = "flags" => v = w \cup {name}
  PROVE  Close(F, name, [x EXCEPT ![G] = v], [y EXCEPT ![G] = w])
<1> DEFINE X == [x EXCEPT ![G] = v]
           Y == [y EXCEPT ![G] = w]
<1>1. /\ \A z \in Fields : X[z] = IF z = G THEN v ELSE x[z]
      /\ \A z \in Fields : Y[z] = IF z = G THEN w ELSE y[z]
      /\ \A z \in Fields \ {F} : x[z] = y[z]
      /\ F = "flags" => x.flags = y.flags \cup {name}
      /\ "flags" \in Fields
  BY DEF Close, IsSettings, Fields
<1> HIDE DEF X, Y
<1>2. \A z \in Fields \ {F} : X[z] = Y[z]
  BY <1>1
<1>3. F = "flags" => X.flags = Y.flags \cup {name}
  BY <1>1
<1>4. IsSettings(X) /\ IsSettings(Y)
  BY Zenon DEF X, Y
<1>5. Close(F, name, X, Y)
  BY <1>2, <1>3, <1>4, Zenon DEF Close
<1> QED  BY <1>5, Zenon DEF X, Y

\* They differ by no more than that after another option.
LEMMA CloseStep ==
  ASSUME NEW pass, NEW u, NEW a, ~ Untouched(pass, a.name), NEW old, ~ Fails(pass, old, a, u),
         NEW b, b.name # a.name, NEW x, NEW y, Close(FieldOf(pass, a.name), a.name, x, y),
         Read(pass, x, b, u).exit = Running
  PROVE  Close(FieldOf(pass, a.name), a.name, Read(pass, x, b, u), Read(pass, y, b, u))
<1> DEFINE F == FieldOf(pass, a.name)
           G == FieldOf(pass, b.name)
           X == Read(pass, x, b, u)
           Y == Read(pass, y, b, u)
<1>0. F \in Fields /\ F # "exit" /\ F # "fec"
  BY KnownFields
<1>1. IsSettings(x) /\ IsSettings(y) /\ \A z \in Fields : z # F => x[z] = y[z]
  BY DEF Close
<1>2. /\ x.exit = Running
      /\ Untouched(pass, b.name) => X = x
      /\ ~ Untouched(pass, b.name) =>
           /\ ~ Fails(pass, x[G], b, u) /\ G \in Fields
           /\ X = [x EXCEPT ![G] = ValueOf(pass, x[G], b, u)]
  BY <1>1, RunningOn
<1>3. y.exit = Running
  BY <1>0, <1>1, <1>2 DEF Fields
<1>4. Y = ShapeOfRead(pass, y, b, u)
  BY <1>3, ReadShape
<1>5. IsSettings(X) /\ IsSettings(Y)
  BY <1>1, ReadKeepsSettings
<1>6. CASE Untouched(pass, b.name)
  <2>1. X = x /\ Y = y
    BY <1>2, <1>4, <1>6, Zenon DEF ShapeOfRead
  <2>2. QED
    BY <2>1, Zenon
<1>7. CASE ~ Untouched(pass, b.name)
  <2> DEFINE v == ValueOf(pass, x[G], b, u)
             w == ValueOf(pass, y[G], b, u)
  <2>1. /\ ~ Fails(pass, y[G], b, u)
        /\ IF G # F THEN v = w ELSE F = "flags" => v = w \cup {a.name}
    <3>1. CASE G # F
      BY <1>1, <1>2, <1>7, <3>1, Zenon
    <3>2. CASE G = F /\ pass = "log"
      <4>1. {a.name, b.name} = {"enable_color", "disable_color"}
        <5>1. ~ Fails(pass, x[G], b, u) /\ FieldOf(pass, a.name) = FieldOf(pass, b.name)
          BY <1>2, <1>7, <3>2
        <5> HIDE DEF F, G, X, Y
        <5>2. QED
          BY <1>7, <3>2, <5>1, FieldsDiffer
      <4>2. b.name # "log_level"
        BY <4>1
      <4>3. F # "flags"
        BY <3>2 DEF FieldOf
      <4>4. QED
        BY <3>2, <4>2, <4>3, Zenon DEF Fails, ValueOf
    <3>3. CASE G = F /\ pass # "log"
      <4>1. a.name \in Flags /\ b.name \in Flags
        <5>1. ~ Fails(pass, x[G], b, u) /\ FieldOf(pass, a.name) = FieldOf(pass, b.name)
          BY <1>2, <1>7, <3>3
        <5> HIDE DEF F, G, X, Y
        <5>2. QED
          BY <1>7, <3>3, <5>1, FieldsDiffer
      <4>2. F = "flags" /\ G = "flags"
        BY <3>3, <4>1, Zenon DEF FieldOf, Field
      <4>3. x.flags = y.flags \cup {a.name} /\ y.flags \in SUBSET Flags
        BY <4>2 DEF Close, IsSettings
      <4>4. /\ NewValue(x.flags, b, u) = x.flags \cup {b.name}
            /\ NewValue(y.flags, b, u) = y.flags \cup {b.name}
        BY <4>1, LimitsDomain, SMT DEF NewValue, Flags, Texts, Addresses, Unlimited
      <4>5. y.flags \cup {b.name} # Refused
        <5>1. y.flags \cup {b.name} \in SUBSET Flags
          BY <4>1, <4>3
        <5>2. QED
          BY <5>1, FlagsAssumption, Zenon
      <4>6. /\ v = x.flags \cup {b.name} /\ w = y.flags \cup {b.name}
            /\ ~ Fails(pass, y[G], b, u)
        BY <3>3, <4>2, <4>4, <4>5, Zenon DEF Fails, ValueOf
      <4> HIDE DEF v, w, F, G, X, Y
      <4>7. v = w \cup {a.name}
        BY <4>3, <4>6
      <4>8. QED
        BY <3>3, <4>6, <4>7, Zenon
    <3>4. QED
      BY <3>1, <3>2, <3>3, Zenon
  <2>2. Y = [y EXCEPT ![G] = w]
    BY <1>4, <1>7, <2>1, Zenon DEF ShapeOfRead
  <2>3. X = [x EXCEPT ![G] = v] /\ G \in Fields
    BY <1>2, <1>7, Zenon
  <2>4. Close(F, a.name, x, y)
    OBVIOUS
  <2> HIDE DEF F, G, X, Y, v, w
  <2>5. QED
    <3>1. IsSettings([x EXCEPT ![G] = v]) /\ IsSettings([y EXCEPT ![G] = w])
      BY <1>5, <2>2, <2>3
    <3>2. Close(F, a.name, [x EXCEPT ![G] = v], [y EXCEPT ![G] = w])
      BY <2>1, <2>3, <2>4, <3>1, SetClose
    <3>3. Close(F, a.name, X, Y)
      BY <2>2, <2>3, <3>2
    <3>4. QED
      BY <3>3, Zenon DEF F, X, Y
<1> QED  BY <1>6, <1>7

\* They are the same after the same option has been read completely.
LEMMA CloseEnds ==
  ASSUME NEW pass, NEW u, NEW a, ~ Untouched(pass, a.name), NEW old, ~ Fails(pass, old, a, u),
         NEW x, NEW y, Close(FieldOf(pass, a.name), a.name, x, y),
         NEW c, c.name = a.name, Complete(c), Read(pass, x, c, u).exit = Running
  PROVE  Read(pass, y, c, u) = Read(pass, x, c, u)
<1> DEFINE F == FieldOf(pass, a.name)
           X == Read(pass, x, c, u)
           Y == Read(pass, y, c, u)
           v == ValueOf(pass, x[F], c, u)
           w == ValueOf(pass, y[F], c, u)
<1>0. F \in Fields /\ F # "exit" /\ F # "fec"
  BY KnownFields
<1>1. IsSettings(x) /\ IsSettings(y) /\ \A z \in Fields : z # F => x[z] = y[z]
  BY DEF Close
<1>2. /\ x.exit = Running /\ ~ Fails(pass, x[F], c, u) /\ X = [x EXCEPT ![F] = v]
  BY <1>1, RunningOn
<1>3. y.exit = Running
  BY <1>0, <1>1, <1>2 DEF Fields
<1>4. Y = ShapeOfRead(pass, y, c, u)
  BY <1>3, ReadShape
<1>5. ~ Fails(pass, y[F], c, u) /\ v = w
  <2>1. CASE F # "flags"
    BY <1>2, <2>1, CompleteForgets
  <2>2. CASE F = "flags"
    <3>1. pass # "log" /\ a.name \in Flags
      BY <2>2, FlagsAreFlags
    <3>2. x.flags = y.flags \cup {a.name} /\ y.flags \in SUBSET Flags
      BY <2>2 DEF Close, IsSettings
    <3>3. /\ NewValue(x.flags, c, u) = x.flags \cup {a.name}
          /\ NewValue(y.flags, c, u) = y.flags \cup {a.name}
      BY <3>1, LimitsDomain, SMT DEF NewValue, Flags, Texts, Addresses, Unlimited
    <3>4. y.flags \cup {a.name} # Refused
      <4>1. y.flags \cup {a.name} \in SUBSET Flags
        BY <3>1, <3>2
      <4>2. QED
        BY <4>1, FlagsAssumption, Zenon
    <3>5. x.flags \cup {a.name} = y.flags \cup {a.name}
      BY <3>2
    <3>6. /\ v = x.flags \cup {a.name} /\ w = y.flags \cup {a.name}
          /\ ~ Fails(pass, y[F], c, u)
      BY <3>1, <2>2, <3>3, <3>4, Zenon DEF Fails, ValueOf
    <3>7. QED
      BY <3>5, <3>6, Zenon
  <2>3. QED
    BY <2>1, <2>2
<1>6. Y = [y EXCEPT ![F] = w]
  BY <1>4, <1>5, Zenon DEF ShapeOfRead
<1> HIDE DEF F, X, Y, v, w
<1>7. X = Y
  <2>1. x = [z \in Fields |-> x[z]] /\ y = [z \in Fields |-> y[z]]
    BY <1>1, Zenon DEF IsSettings
  <2>2. [x EXCEPT ![F] = w] = [y EXCEPT ![F] = w]
    BY <1>0, <1>1, <2>1
  <2>3. QED
    BY <1>2, <1>5, <1>6, <2>2
<1> QED  BY <1>7, Zenon DEF X, Y

\* An option that is given again and read completely might have been left out before.
LEMMA PassedWithout ==
  ASSUME NEW pass, NEW s, IsSettings(s), NEW argv, NEW S, argv \in Seq(S), NEW u,
         NEW i \in 1 .. Len(argv), NEW j \in i + 1 .. Len(argv), IsNext(argv, i, j),
         Complete(argv[j]), Passed(pass, s, argv, u).exit = Running
  PROVE  Passed(pass, s, RemoveAt(argv, i), u) = Passed(pass, s, argv, u)
<1> DEFINE n == Len(argv)
           other == RemoveAt(argv, i)
           F == FieldOf(pass, argv[i].name)
<1>0. /\ n \in Nat /\ Len(other) = n - 1 /\ n - 1 \in Nat /\ i \in Nat /\ i - 1 \in Nat
      /\ i \in 1 .. n /\ i - 1 \in 0 .. n - 1 /\ i \in 0 .. n /\ j \in Nat /\ j - 1 \in Nat
      /\ j \in 1 .. n /\ j - 1 \in 1 .. n - 1 /\ (j - 1) - 1 = j - 2 /\ i - 1 \in 0 .. n
      /\ i <= j - 1 /\ j <= n /\ i <= n /\ n <= n /\ j - 1 \in 0 .. n
      /\ i - 1 <= n /\ i - 1 <= n - 1 /\ n - 1 <= n - 1 /\ j \in 0 .. n
      /\ (n - 1) - (i - 1) = n - i /\ (n - 1) - (j - 1) = n - j
  BY WithoutIs, SMTT(30)
<1>1. /\ \A k \in 1 .. i - 1 : other[k] = argv[k]
      /\ \A k \in i .. n - 1 : other[k] = argv[k + 1]
  BY WithoutIs
<1> HIDE DEF other
<1>2. PICK f : Passes(f, pass, s, argv, u) /\ Passed(pass, s, argv, u) = f[n]
  BY <1>0, PassUnfolds
<1>3. PICK g : Passes(g, pass, s, other, u) /\ Passed(pass, s, other, u) = g[n - 1]
  <2>1. Len(other) \in Nat
    BY <1>0
  <2>2. PICK g : Passes(g, pass, s, other, u) /\ Passed(pass, s, other, u) = g[Len(other)]
    BY <2>1, PassUnfolds
  <2>3. QED
    BY <1>0, <2>2
<1>4. /\ \A k \in 0 .. n : IsSettings(f[k]) /\ f[k].exit = Running
      /\ \A k \in 0 .. n - 1 : IsSettings(g[k])
  <2>1. Len(other) \in Nat
    BY <1>0
  <2>2. \A k \in 0 .. Len(other) : IsSettings(g[k])
    BY <1>3, <2>1, PassFacts
  <2>3. QED
    BY <1>0, <1>2, <2>2, PassFacts
<1>5. f[i - 1] = g[i - 1]
  <2>1. SameOptions(argv, 0, other, 0, i - 1)
    <3>1. \A k \in 1 .. i - 1 : 0 + k = k
      OBVIOUS
    <3>2. QED
      BY <1>1, <3>1 DEF SameOptions
  <2>2. Len(other) \in Nat /\ i - 1 <= Len(other)
    BY <1>0
  <2> HIDE DEF n
  <2>3. QED
    BY <1>0, <1>2, <1>3, <2>1, <2>2, SamePrefix DEF n
<1>6. f[i] = Read(pass, f[i - 1], argv[i], u)
  BY <1>0, <1>2, Zenon DEF Passes
<1>7. ASSUME NEW a \in i .. n, f[a] = g[a - 1]
      PROVE  f[n] = g[n - 1]
  <2>1. SameOptions(argv, a, other, a - 1, n - a)
    <3>1. \A k \in 1 .. n - a : (a - 1) + k \in i .. n - 1 /\ ((a - 1) + k) + 1 = a + k
      BY <1>0
    <3>2. QED
      BY <1>1, <3>1, Zenon DEF SameOptions
  <2>2. /\ a \in Nat /\ a - 1 \in Nat /\ a <= n /\ (n - 1) - (a - 1) = n - a /\ Len(other) \in Nat
        /\ n - 1 <= Len(other)
    BY <1>0
  <2> HIDE DEF n
  <2>3. QED
    BY <1>0, <1>2, <1>3, <1>7, <2>1, <2>2, SameStretch DEF n
<1>8. CASE Untouched(pass, argv[i].name)
  <2>1. f[i] = f[i - 1]
    <3>1. IsSettings(f[i - 1]) /\ Read(pass, f[i - 1], argv[i], u).exit = Running
      BY <1>0, <1>4, <1>6
    <3> DEFINE x == f[i - 1]
               a == argv[i]
    <3>2. IsSettings(x) /\ Read(pass, x, a, u).exit = Running /\ Untouched(pass, a.name)
      BY <1>8, <3>1
    <3> HIDE DEF x, a
    <3>3. Read(pass, x, a, u) = x
      BY <3>2, RunningOn
    <3>4. QED
      BY <1>6, <3>3 DEF x, a
  <2>2. i \in i .. n /\ f[i] = g[i - 1]
    BY <1>0, <1>5, <2>1
  <2>3. QED
    BY <1>2, <1>3, <1>7, <2>2, Zenon DEF other
<1>9. CASE ~ Untouched(pass, argv[i].name)
  <2>1. /\ ~ Fails(pass, f[i - 1][F], argv[i], u) /\ F \in Fields
        /\ f[i] = [f[i - 1] EXCEPT ![F] = ValueOf(pass, f[i - 1][F], argv[i], u)]
    <3>1. IsSettings(f[i - 1]) /\ Read(pass, f[i - 1], argv[i], u).exit = Running
      BY <1>0, <1>4, <1>6
    <3> DEFINE x == f[i - 1]
               a == argv[i]
    <3>2. IsSettings(x) /\ Read(pass, x, a, u).exit = Running /\ ~ Untouched(pass, a.name)
      BY <1>9, <3>1
    <3> HIDE DEF x, a
    <3>3. /\ ~ Fails(pass, x[FieldOf(pass, a.name)], a, u) /\ FieldOf(pass, a.name) \in Fields
          /\ Read(pass, x, a, u)
               = [x EXCEPT ![FieldOf(pass, a.name)] = ValueOf(pass, x[FieldOf(pass, a.name)], a, u)]
      BY <3>2, RunningOn
    <3>4. QED
      BY <1>6, <3>3, Zenon DEF x, a
  <2> DEFINE T == {k \in 0 .. (j - 1) - i : Close(F, argv[i].name, f[i + k], g[(i - 1) + k])}
  <2>2. 0 \in T
    <3>0. 0 \in 0 .. (j - 1) - i /\ i + 0 = i /\ (i - 1) + 0 = i - 1
      BY <1>0
    <3>1. F = "flags" => ValueOf(pass, f[i - 1][F], argv[i], u) = f[i - 1].flags \cup {argv[i].name}
      <4>1. SUFFICES ASSUME F = "flags"
                     PROVE  ValueOf(pass, f[i - 1][F], argv[i], u) = f[i - 1].flags \cup {argv[i].name}
        OBVIOUS
      <4>2. ~ Fails(pass, f[i - 1].flags, argv[i], u)
        BY <2>1, <4>1
      <4>3. ValueOf(pass, f[i - 1].flags, argv[i], u) = f[i - 1].flags \cup {argv[i].name}
        BY <1>9, <4>1, <4>2, FlagsAreFlags
      <4>4. QED
        BY <4>1, <4>3
    <3>2. IsSettings(f[i]) /\ IsSettings(f[i - 1])
      BY <1>0, <1>4, SMTT(30)
    <3> HIDE DEF F
    <3>3. Close(F, argv[i].name, f[i], f[i - 1])
      BY <2>1, <3>1, <3>2 DEF Close, IsSettings, Fields
    <3>4. QED
      BY <1>5, <3>0, <3>3
  <2>3. ASSUME NEW k \in 1 .. (j - 1) - i, k - 1 \in T
        PROVE  k \in T
    <3>1. /\ i + k \in 1 .. n /\ (i + k) - 1 = i + (k - 1) /\ i + (k - 1) \in 0 .. n
          /\ (i - 1) + k \in 1 .. n - 1 /\ ((i - 1) + k) - 1 = (i - 1) + (k - 1)
          /\ (i - 1) + k \in i .. n - 1 /\ ((i - 1) + k) + 1 = i + k
          /\ k \in 0 .. (j - 1) - i /\ i + k \in i + 1 .. j - 1 /\ i + k \in 0 .. n
      BY <1>0
    <3>2. f[i + k] = Read(pass, f[i + (k - 1)], argv[i + k], u)
      BY <1>2, <3>1, Zenon DEF Passes
    <3>3. g[(i - 1) + k] = Read(pass, g[(i - 1) + (k - 1)], argv[i + k], u)
      <4>1. (i - 1) + k \in 1 .. Len(other)
        BY <1>0, <3>1
      <4>2. g[(i - 1) + k] = Read(pass, g[((i - 1) + k) - 1], other[(i - 1) + k], u)
        BY <1>3, <4>1, Zenon DEF Passes
      <4>3. other[(i - 1) + k] = argv[((i - 1) + k) + 1]
        BY <1>1, <3>1, Zenon
      <4>4. QED
        BY <3>1, <4>2, <4>3, Zenon
    <3>4. argv[i + k].name # argv[i].name /\ f[i + k].exit = Running
      BY <1>4, <3>1, Zenon DEF IsNext
    <3>5. Close(F, argv[i].name, f[i + (k - 1)], g[(i - 1) + (k - 1)])
      BY <2>3
    <3>6. Close(F, argv[i].name, f[i + k], g[(i - 1) + k])
      <4> DEFINE x == f[i + (k - 1)]
                 y == g[(i - 1) + (k - 1)]
                 a == argv[i]
                 b == argv[i + k]
                 old == f[i - 1][F]
      <4>1. /\ ~ Untouched(pass, a.name) /\ ~ Fails(pass, old, a, u) /\ b.name # a.name
            /\ Close(FieldOf(pass, a.name), a.name, x, y) /\ Read(pass, x, b, u).exit = Running
        BY <1>9, <2>1, <3>2, <3>4, <3>5, Zenon
      <4> HIDE DEF x, y, a, b, old
      <4>2. Close(FieldOf(pass, a.name), a.name, Read(pass, x, b, u), Read(pass, y, b, u))
        BY <4>1, CloseStep
      <4>3. QED
        BY <3>2, <3>3, <4>2, Zenon DEF x, y, a, b
    <3> HIDE DEF F
    <3>7. QED
      BY <3>1, <3>6
  <2>4. (j - 1) - i \in T
    <3>1. (j - 1) - i \in Nat
      BY <1>0
    <3> HIDE DEF T
    <3>2. QED
      BY <2>2, <2>3, <3>1, Climb
  <2>5. Close(F, argv[i].name, f[j - 1], g[j - 2])
    <3>1. i + ((j - 1) - i) = j - 1 /\ (i - 1) + ((j - 1) - i) = j - 2
      OBVIOUS
    <3>2. QED
      BY <2>4, <3>1
  <2>6. f[j] = Read(pass, f[j - 1], argv[j], u)
    BY <1>0, <1>2, Zenon DEF Passes
  <2>7. g[j - 1] = Read(pass, g[j - 2], argv[j], u)
    <3>1. j - 1 \in 1 .. Len(other) /\ j - 1 \in i .. n - 1 /\ (j - 1) + 1 = j
      BY <1>0
    <3>2. QED
      BY <1>0, <1>1, <1>3, <3>1, Zenon DEF Passes
  <2>8. f[j] = g[j - 1]
    <3> DEFINE x == f[j - 1]
               y == g[j - 2]
               a == argv[i]
               c == argv[j]
               old == f[i - 1][F]
    <3>1. /\ ~ Untouched(pass, a.name) /\ ~ Fails(pass, old, a, u) /\ c.name = a.name /\ Complete(c)
          /\ Close(FieldOf(pass, a.name), a.name, x, y) /\ Read(pass, x, c, u).exit = Running
      BY <1>0, <1>4, <1>9, <2>1, <2>5, <2>6, Zenon DEF IsNext
    <3> HIDE DEF x, y, a, c, old
    <3>2. Read(pass, y, c, u) = Read(pass, x, c, u)
      BY <3>1, CloseEnds
    <3>3. QED
      BY <2>6, <2>7, <3>2, Zenon DEF x, y, c
  <2>9. j \in i .. n
    BY <1>0
  <2>10. QED
    BY <1>2, <1>3, <1>7, <2>8, <2>9, Zenon DEF other
<1> QED  BY <1>8, <1>9

-----------------------------------------------------------------------------
(* The command line: what is started *)

Base == [Defaults EXCEPT !.fec = rs_from_str(@, Defaults.rs_par_str.pairs)]

Opted(argv, u) == Passed("options", Passed("log", Base, argv, u), argv, u)

Gives(argv, name) == \E i \in DOMAIN argv : argv[i].name = name

Finished(t) ==
  [t EXCEPT !.fec = rs_from_str([t.fec EXCEPT !.queue_len = t.queue_len, !.mode = t.mode,
                                              !.mtu = t.mtu, !.timeout = t.timeout],
                                t.rs_par_str.pairs)]

Fits(argv, t) ==
  /\ argv # << >>
  /\ ~ Mentions(argv, "-h") /\ ~ Mentions(argv, "--help") /\ ~ Mentions(argv, "--unit-test")
  /\ t.exit = Running
  /\ ~ (("client" \in t.flags) = ("server" \in t.flags))
  /\ Gives(argv, "local_addr") /\ Gives(argv, "remote_addr")
  /\ Acceptable(t.rs_par_str.pairs)

LEMMA BaseIs ==
  /\ IsSettings(Base) /\ Base.exit = Running
  /\ \A z \in Fields \ {"fec"} : Base[z] = Defaults[z]
<1>1. DOMAIN Defaults = Fields
  BY DEF Defaults, Fields
<1>3. Defaults.exit = Running /\ Defaults.flags = {}
  BY Zenon DEF Defaults
<1>4. "fec" \in Fields /\ "exit" \in Fields /\ "flags" \in Fields
  BY DEF Fields
<1>5. \A z \in Fields : Base[z] = IF z = "fec" THEN rs_from_str(Defaults.fec, Defaults.rs_par_str.pairs)
                                  ELSE Defaults[z]
  <2> DEFINE v == rs_from_str(Defaults.fec, Defaults.rs_par_str.pairs)
  <2>1. Base = [Defaults EXCEPT !.fec = v]
    BY Zenon DEF Base
  <2> HIDE DEF v
  <2>2. QED
    BY <1>1, <1>4, <2>1 DEF v
<1>6. Base = [z \in Fields |-> Base[z]]
  BY <1>1 DEF Base
<1> QED  BY <1>3, <1>4, <1>5, <1>6 DEF IsSettings

LEMMA CompletedIs ==
  ASSUME NEW argv, NEW t, IsSettings(t), Completed(t, argv).exit = Running
  PROVE  /\ t.exit = Running
         /\ ~ (("client" \in t.flags) = ("server" \in t.flags))
         /\ Gives(argv, "local_addr") /\ Gives(argv, "remote_addr")
         /\ Acceptable(t.rs_par_str.pairs)
<1>1. Exit(t, -1).exit # Running
  BY DEF IsSettings, Exit, Fields, Running
<1>2. t.exit = Running
  BY <1>1, Zenon DEF Completed
<1>3. ~ (("client" \in t.flags) = ("server" \in t.flags))
  BY <1>1, <1>2, Zenon DEF Completed
<1>4. Gives(argv, "local_addr") /\ Gives(argv, "remote_addr")
  BY <1>1, <1>2, <1>3, Zenon DEF Completed, Gives
<1>5. Acceptable(t.rs_par_str.pairs)
  BY <1>1, <1>2, <1>3, <1>4, Zenon DEF Completed, Gives
<1> QED  BY <1>2, <1>3, <1>4, <1>5

LEMMA MainFits ==
  ASSUME NEW argv, NEW S, argv \in Seq(S), NEW u, main(argv, u).exit = Running
  PROVE  Fits(argv, Opted(argv, u))
<1>0. IsSettings(Base) /\ Base.exit = Running
  BY BaseIs
<1>1. Exit(Defaults, -1).exit # Running /\ Exit(Defaults, 0).exit # Running
  <2>1. "exit" \in DOMAIN Defaults
    BY DEF Defaults
  <2>2. Exit(Defaults, -1).exit = -1 /\ Exit(Defaults, 0).exit = 0
    BY <2>1, Zenon DEF Exit
  <2>3. -1 # Running /\ 0 # Running
    BY DEF Running
  <2>4. QED
    BY <2>2, <2>3, Zenon
<1>2. argv # << >> /\ ~ (Mentions(argv, "-h") \/ Mentions(argv, "--help"))
  <2>1. ASSUME argv = << >>
        PROVE  FALSE
    <3>1. ~ Mentions(argv, "-h") /\ ~ Mentions(argv, "--help")
      BY <2>1 DEF Mentions
    <3>2. main(argv, u) = Exit(Defaults, -1)
      BY <2>1, <3>1, Zenon DEF main
    <3>3. QED
      BY <1>1, <3>2, Zenon
  <2>2. ASSUME argv # << >>, Mentions(argv, "-h") \/ Mentions(argv, "--help")
        PROVE  FALSE
    <3>1. main(argv, u) = Exit(Defaults, 0)
      BY <2>2, Zenon DEF main
    <3>2. QED
      BY <1>1, <3>1, Zenon
  <2>3. QED
    BY <2>1, <2>2
<1>3. process_arg(argv, u).exit = Running
  BY <1>2, Zenon DEF main
<1>4. Exit(Base, 0).exit # Running
  BY <1>0 DEF Exit, IsSettings, Fields, Running
<1>5. ~ Mentions(argv, "--unit-test")
  BY <1>3, <1>4, Zenon DEF process_arg, Base
<1>6. Completed(Opted(argv, u), argv).exit = Running
  BY <1>3, <1>5, Zenon DEF process_arg, Base, Opted
<1>7. IsSettings(Opted(argv, u))
  <2>0. Len(argv) \in Nat
    OBVIOUS
  <2>1. \A pass, s : IsSettings(s) => IsSettings(Passed(pass, s, argv, u))
    <3>1. SUFFICES ASSUME NEW pass, NEW s, IsSettings(s)
                   PROVE  IsSettings(Passed(pass, s, argv, u))
      OBVIOUS
    <3>2. PICK f : Passes(f, pass, s, argv, u) /\ Passed(pass, s, argv, u) = f[Len(argv)]
      BY <2>0, PassUnfolds
    <3>3. QED
      BY <2>0, <3>1, <3>2, PassFacts
  <2>2. QED
    BY <1>0, <2>1, Zenon DEF Opted
<1> QED  BY <1>2, <1>5, <1>6, <1>7, CompletedIs, Zenon DEF Fits

LEMMA FitsMain ==
  ASSUME NEW argv, NEW u, Fits(argv, Opted(argv, u))
  PROVE  main(argv, u) = Finished(Opted(argv, u))
<1> DEFINE t == Opted(argv, u)
<1>1. main(argv, u) = process_arg(argv, u)
  BY Zenon DEF main, Fits
<1>2. process_arg(argv, u) = Completed(t, argv)
  BY Zenon DEF process_arg, Fits, Opted, Base
<1> HIDE DEF t
<1>3. ASSUME Fits(argv, t)
      PROVE  Completed(t, argv) = Finished(t)
  BY <1>3, Zenon DEF Fits, Completed, Finished, Gives
<1> QED  BY <1>1, <1>2, <1>3 DEF t

\* The passes decide, and that the addresses are given.
LEMMA SameMain ==
  ASSUME NEW argv, NEW S, argv \in Seq(S), NEW u, main(argv, u).exit = Running,
         NEW other, other # << >>, Opted(other, u) = Opted(argv, u),
         \A k \in DOMAIN other : \E l \in DOMAIN argv : other[k] = argv[l],
         \A name : Gives(argv, name) => Gives(other, name)
  PROVE  main(other, u) = main(argv, u)
<1>1. Fits(argv, Opted(argv, u))
  BY MainFits
<1>2. \A w : Mentions(other, w) => Mentions(argv, w)
  BY Zenon DEF Mentions
<1>3. Fits(other, Opted(other, u))
  BY <1>1, <1>2, Zenon DEF Fits
<1> QED  BY <1>1, <1>3, FitsMain

LEMMA OptedRuns ==
  ASSUME NEW argv, NEW S, argv \in Seq(S), NEW u, Opted(argv, u).exit = Running
  PROVE  /\ IsSettings(Passed("log", Base, argv, u)) /\ Passed("log", Base, argv, u).exit = Running
         /\ IsSettings(Opted(argv, u))
<1>0. Len(argv) \in Nat /\ 0 \in 0 .. Len(argv) /\ Len(argv) \in 0 .. Len(argv)
  OBVIOUS
<1> DEFINE logged == Passed("log", Base, argv, u)
<1>1. IsSettings(logged)
  <2>1. PICK f : Passes(f, "log", Base, argv, u) /\ Passed("log", Base, argv, u) = f[Len(argv)]
    BY <1>0, PassUnfolds
  <2>2. QED
    BY <1>0, <2>1, BaseIs, PassFacts
<1> HIDE DEF logged
<1>2. PICK g : Passes(g, "options", logged, argv, u) /\ Passed("options", logged, argv, u) = g[Len(argv)]
  BY <1>0, PassUnfolds
<1>3. Opted(argv, u) = g[Len(argv)]
  BY <1>2, Zenon DEF Opted, logged
<1>4. \A i \in 0 .. Len(argv) : IsSettings(g[i]) /\ g[i].exit = Running
  BY <1>0, <1>1, <1>2, <1>3, PassFacts
<1>5. g[0] = logged
  BY <1>2, Zenon DEF Passes
<1> QED  BY <1>0, <1>1, <1>3, <1>4, <1>5 DEF logged

\* Options about different settings can be given in either order.
LEMMA OrderDoesNotMatter ==
  ASSUME NEW argv, NEW S, argv \in Seq(S), NEW u, main(argv, u).exit = Running,
         NEW i \in 2 .. Len(argv), Independent(argv[i - 1].name, argv[i].name)
  PROVE  main(Swapped(argv, i), u) = main(argv, u)
<1> DEFINE other == Swapped(argv, i)
<1>1. Opted(argv, u).exit = Running
  BY MainFits, Zenon DEF Fits
<1>2. /\ IsSettings(Base) /\ IsSettings(Passed("log", Base, argv, u))
      /\ Passed("log", Base, argv, u).exit = Running
  BY <1>1, OptedRuns, BaseIs
<1>3. Passed("log", Base, other, u) = Passed("log", Base, argv, u)
  BY <1>2, PassedSwapped
<1>4. Opted(other, u) = Opted(argv, u)
  <2> DEFINE logged == Passed("log", Base, argv, u)
  <2>1. Passed("options", logged, argv, u).exit = Running
    BY <1>1, Zenon DEF Opted
  <2>2. IsSettings(logged)
    BY <1>2
  <2> HIDE DEF logged
  <2>3. Passed("options", logged, other, u) = Passed("options", logged, argv, u)
    BY <2>1, <2>2, PassedSwapped
  <2>4. QED
    BY <1>3, <2>3, Zenon DEF Opted, logged
<1>5. /\ DOMAIN other = DOMAIN argv /\ other[i] = argv[i - 1] /\ other[i - 1] = argv[i]
      /\ i \in DOMAIN argv /\ i - 1 \in DOMAIN argv
      /\ \A k \in DOMAIN argv : k # i /\ k # i - 1 => other[k] = argv[k]
  BY SwappedIs
<1> HIDE DEF other
<1>6. /\ \A k \in DOMAIN other : \E l \in DOMAIN argv : other[k] = argv[l]
      /\ \A l \in DOMAIN argv : \E k \in DOMAIN other : other[k] = argv[l]
      /\ other # << >>
  <2>1. \A k \in DOMAIN other : \E l \in DOMAIN argv : other[k] = argv[l]
    BY <1>5, Zenon
  <2>2. \A l \in DOMAIN argv : \E k \in DOMAIN other : other[k] = argv[l]
    BY <1>5, Zenon
  <2>3. other # << >>
    BY <1>5
  <2>4. QED
    BY <2>1, <2>2, <2>3
<1>7. \A name : Gives(argv, name) => Gives(other, name)
  BY <1>6, Zenon DEF Gives
<1>8. main(other, u) = main(argv, u)
  BY <1>4, <1>6, <1>7, SameMain
<1> QED  BY <1>8 DEF other

\* An option that is given again and read completely did not count before.
LEMMA LastOneCounts ==
  ASSUME NEW argv, NEW S, argv \in Seq(S), NEW u, main(argv, u).exit = Running,
         NEW i \in 1 .. Len(argv), NEW j \in i + 1 .. Len(argv), IsNext(argv, i, j),
         Complete(argv[j])
  PROVE  main(RemoveAt(argv, i), u) = main(argv, u)
<1> DEFINE other == RemoveAt(argv, i)
<1>1. Opted(argv, u).exit = Running
  BY MainFits, Zenon DEF Fits
<1>2. /\ IsSettings(Base) /\ IsSettings(Passed("log", Base, argv, u))
      /\ Passed("log", Base, argv, u).exit = Running
  BY <1>1, OptedRuns, BaseIs
<1>3. Passed("log", Base, other, u) = Passed("log", Base, argv, u)
  BY <1>2, PassedWithout
<1>4. Opted(other, u) = Opted(argv, u)
  <2> DEFINE logged == Passed("log", Base, argv, u)
  <2>1. Passed("options", logged, argv, u).exit = Running
    BY <1>1, Zenon DEF Opted
  <2>2. IsSettings(logged)
    BY <1>2
  <2> HIDE DEF logged
  <2>3. Passed("options", logged, other, u) = Passed("options", logged, argv, u)
    BY <2>1, <2>2, PassedWithout
  <2>4. QED
    BY <1>3, <2>3, Zenon DEF Opted, logged
<1>5. /\ other \in Seq(S) /\ Len(other) = Len(argv) - 1
      /\ \A k \in 1 .. i - 1 : other[k] = argv[k]
      /\ \A k \in i .. Len(argv) - 1 : other[k] = argv[k + 1]
  BY WithoutIs
<1> HIDE DEF other
<1>6. DOMAIN other = 1 .. Len(argv) - 1 /\ DOMAIN argv = 1 .. Len(argv)
  BY <1>5
<1>7. ASSUME NEW k \in DOMAIN other
      PROVE  \E l \in DOMAIN argv : other[k] = argv[l]
  <2>1. CASE k < i
    <3>1. k \in 1 .. i - 1 /\ k \in DOMAIN argv
      BY <1>6, <2>1
    <3>2. QED
      BY <1>5, <3>1
  <2>2. CASE ~ (k < i)
    <3>1. k \in i .. Len(argv) - 1 /\ k + 1 \in DOMAIN argv
      BY <1>6, <2>2
    <3>2. QED
      BY <1>5, <3>1
  <2>3. QED
    BY <2>1, <2>2
<1>8. ASSUME NEW l \in DOMAIN argv
      PROVE  \E k \in DOMAIN other : other[k].name = argv[l].name
  <2>1. CASE l < i
    <3>1. l \in 1 .. i - 1 /\ l \in DOMAIN other
      BY <1>6, <2>1
    <3>2. QED
      BY <1>5, <3>1
  <2>2. CASE l = i
    <3>1. j - 1 \in DOMAIN other /\ j - 1 \in i .. Len(argv) - 1 /\ (j - 1) + 1 = j
      BY <1>6
    <3>2. argv[j].name = argv[i].name
      BY Zenon DEF IsNext
    <3>3. QED
      BY <1>5, <2>2, <3>1, <3>2
  <2>3. CASE l > i
    <3>1. l - 1 \in DOMAIN other /\ l - 1 \in i .. Len(argv) - 1 /\ (l - 1) + 1 = l
      BY <1>6, <2>3
    <3>2. QED
      BY <1>5, <3>1
  <2>4. QED
    BY <1>6, <2>1, <2>2, <2>3
<1>9. other # << >>
  <2>1. Len(other) >= 1
    BY <1>5
  <2>2. QED
    BY <2>1
<1>10. \A name : Gives(argv, name) => Gives(other, name)
  BY <1>8, Zenon DEF Gives
<1>11. main(other, u) = main(argv, u)
  BY <1>4, <1>7, <1>9, <1>10, SameMain
<1> QED  BY <1>11 DEF other

-----------------------------------------------------------------------------
(* The command line: what the settings are in the end *)

\* No option about F that comes after place a takes it out of V.
KeepsFrom(a, pass, argv, u, F, V) ==
  \A l \in 1 .. Len(argv) : \A old \in V :
    l > a /\ ~ Untouched(pass, argv[l].name) /\ FieldOf(pass, argv[l].name) = F
      /\ ~ Fails(pass, old, argv[l], u)
      => ValueOf(pass, old, argv[l], u) \in V

Keeps(pass, argv, u, F, V) ==
  \A l \in 1 .. Len(argv) : \A old \in V :
    ~ Untouched(pass, argv[l].name) /\ FieldOf(pass, argv[l].name) = F
      /\ ~ Fails(pass, old, argv[l], u)
      => ValueOf(pass, old, argv[l], u) \in V

LEMMA KeepsAll ==
  ASSUME NEW pass, NEW argv, NEW u, NEW F, NEW V, Keeps(pass, argv, u, F, V), NEW a
  PROVE  KeepsFrom(a, pass, argv, u, F, V)
BY Zenon DEF Keeps, KeepsFrom

LEMMA FieldStays ==
  ASSUME NEW pass, NEW s, IsSettings(s), NEW argv, Len(argv) \in Nat, NEW u,
         NEW f, Passes(f, pass, s, argv, u), f[Len(argv)].exit = Running,
         NEW F \in Fields \ {"exit"}, NEW V,
         NEW a \in 0 .. Len(argv), KeepsFrom(a, pass, argv, u, F, V), f[a][F] \in V
  PROVE  f[Len(argv)][F] \in V
<1> DEFINE n == Len(argv)
           m == n - a
           T == {k \in 0 .. m : f[a + k][F] \in V}
<1>0. m \in Nat /\ a + 0 = a /\ a + m = n
  OBVIOUS
<1>4. \A i \in 0 .. n : IsSettings(f[i]) /\ f[i].exit = Running
  BY PassFacts
<1>1. 0 \in T
  BY <1>0
<1>2. ASSUME NEW k \in 1 .. m, k - 1 \in T
      PROVE  k \in T
  <2>1. /\ a + k \in 1 .. n /\ (a + k) - 1 = a + (k - 1) /\ a + (k - 1) \in 0 .. n
        /\ a + k \in 0 .. n /\ k \in 0 .. m
    OBVIOUS
  <2>0. a + k > a
    OBVIOUS
  <2>2. f[a + k] = Read(pass, f[a + (k - 1)], argv[a + k], u)
    BY <2>1, Zenon DEF Passes
  <2>3. IsSettings(f[a + (k - 1)]) /\ f[a + k].exit = Running
    BY <1>4, <2>1
  <2> DEFINE x == f[a + (k - 1)]
             o == argv[a + k]
             G == FieldOf(pass, o.name)
  <2>4. x[F] \in V /\ IsSettings(x) /\ Read(pass, x, o, u).exit = Running
    BY <1>2, <2>2, <2>3
  <2>5. /\ ~ Untouched(pass, o.name) /\ FieldOf(pass, o.name) = F /\ ~ Fails(pass, x[F], o, u)
        => ValueOf(pass, x[F], o, u) \in V
    BY <2>0, <2>1, <2>4, Zenon DEF KeepsFrom
  <2> HIDE DEF x, o
  <2>6. /\ Untouched(pass, o.name) => Read(pass, x, o, u) = x
        /\ ~ Untouched(pass, o.name) =>
             /\ ~ Fails(pass, x[G], o, u) /\ G \in Fields
             /\ Read(pass, x, o, u) = [x EXCEPT ![G] = ValueOf(pass, x[G], o, u)]
    BY <2>4, RunningOn
  <2>7. Read(pass, x, o, u)[F] \in V
    <3>1. CASE Untouched(pass, o.name)
      BY <2>4, <2>6, <3>1
    <3>2. CASE ~ Untouched(pass, o.name) /\ G = F
      <4> HIDE DEF G
      <4>1. ValueOf(pass, x[F], o, u) \in V
        BY <2>5, <2>6, <3>2 DEF G
      <4>2. Read(pass, x, o, u) = [x EXCEPT ![F] = ValueOf(pass, x[F], o, u)]
        BY <2>6, <3>2
      <4> DEFINE v == ValueOf(pass, x[F], o, u)
      <4> HIDE DEF v
      <4>3. [x EXCEPT ![F] = v][F] = v
        BY <2>4 DEF IsSettings
      <4>4. QED
        BY <4>1, <4>2, <4>3 DEF v
    <3>3. CASE ~ Untouched(pass, o.name) /\ G # F
      <4> DEFINE v == ValueOf(pass, x[G], o, u)
      <4>1. Read(pass, x, o, u) = [x EXCEPT ![G] = v]
        BY <2>6, <3>3
      <4> HIDE DEF v, G
      <4>2. [x EXCEPT ![G] = v][F] = x[F]
        BY <2>4, <3>3 DEF IsSettings
      <4>3. QED
        BY <2>4, <4>1, <4>2
    <3>4. QED
      BY <3>1, <3>2, <3>3
  <2>8. f[a + k][F] \in V
    BY <2>2, <2>7 DEF x, o
  <2>9. QED
    BY <2>1, <2>8
<1>3. m \in T
  <2> HIDE DEF T, m
  <2> QED  BY <1>0, <1>1, <1>2, Climb
<1> QED  BY <1>0, <1>3

\* The settings the log options are not about are still the defaults when the others are read.
LEMMA LoggedKeeps ==
  ASSUME NEW argv, NEW S, argv \in Seq(S), NEW u, Passed("log", Base, argv, u).exit = Running,
         NEW F \in Fields \ {"exit", "log_level", "enable_log_color"}
  PROVE  Passed("log", Base, argv, u)[F] = Base[F]
<1>0. Len(argv) \in Nat
  OBVIOUS
<1>1. PICK f : Passes(f, "log", Base, argv, u) /\ Passed("log", Base, argv, u) = f[Len(argv)]
  BY <1>0, PassUnfolds
<1> DEFINE V == {Base[F]}
<1>2. Keeps("log", argv, u, F, V)
  BY DEF Keeps, FieldOf
<1>3. f[0][F] \in V /\ 0 \in 0 .. Len(argv) /\ IsSettings(Base) /\ F \in Fields \ {"exit"}
  BY <1>0, <1>1, BaseIs DEF Passes
<1> HIDE DEF V
<1>4. f[Len(argv)][F] \in V
  BY <1>0, <1>1, <1>2, <1>3, KeepsAll, FieldStays
<1> QED  BY <1>1, <1>4 DEF V

LEMMA OptedStays ==
  ASSUME NEW argv, NEW S, argv \in Seq(S), NEW u, Opted(argv, u).exit = Running,
         NEW F \in Fields \ {"exit", "log_level", "enable_log_color"}, NEW V,
         Keeps("options", argv, u, F, V), Base[F] \in V
  PROVE  Opted(argv, u)[F] \in V
<1> DEFINE logged == Passed("log", Base, argv, u)
<1>0. Len(argv) \in Nat /\ 0 \in 0 .. Len(argv)
  OBVIOUS
<1>1. IsSettings(logged) /\ logged.exit = Running
  BY OptedRuns
<1>2. logged[F] \in V
  BY <1>1, LoggedKeeps
<1> HIDE DEF logged
<1>3. PICK f : Passes(f, "options", logged, argv, u) /\ Passed("options", logged, argv, u) = f[Len(argv)]
  BY <1>0, PassUnfolds
<1>4. f[0][F] \in V /\ f[Len(argv)].exit = Running /\ Opted(argv, u) = f[Len(argv)]
  BY <1>2, <1>3 DEF Passes, Opted, logged
<1>5. KeepsFrom(0, "options", argv, u, F, V)
  BY KeepsAll
<1>6. F \in Fields \ {"exit"}
  OBVIOUS
<1>7. f[Len(argv)][F] \in V
  BY <1>0, <1>1, <1>3, <1>4, <1>5, <1>6, FieldStays
<1> QED  BY <1>4, <1>7

\* What an option makes of its setting stays in V if the later options keep it there.
LEMMA OptedFrom ==
  ASSUME NEW argv, NEW S, argv \in Seq(S), NEW u, Opted(argv, u).exit = Running,
         NEW l \in 1 .. Len(argv), ~ Untouched("options", argv[l].name),
         NEW F \in Fields \ {"exit"}, FieldOf("options", argv[l].name) = F,
         NEW V, KeepsFrom(l, "options", argv, u, F, V),
         \A old : ~ Fails("options", old, argv[l], u) => ValueOf("options", old, argv[l], u) \in V
  PROVE  Opted(argv, u)[F] \in V
<1> DEFINE logged == Passed("log", Base, argv, u)
<1>0. Len(argv) \in Nat /\ l \in 0 .. Len(argv) /\ l - 1 \in 0 .. Len(argv) /\ Len(argv) \in 0 .. Len(argv)
  OBVIOUS
<1>1. IsSettings(logged)
  BY OptedRuns
<1> HIDE DEF logged
<1>2. PICK f : Passes(f, "options", logged, argv, u) /\ Passed("options", logged, argv, u) = f[Len(argv)]
  BY <1>0, PassUnfolds
<1>3. f[Len(argv)].exit = Running /\ Opted(argv, u) = f[Len(argv)]
  BY <1>2 DEF Opted, logged
<1>4. f[l][F] \in V
  <2>1. f[l] = Read("options", f[l - 1], argv[l], u)
    BY <1>2, Zenon DEF Passes
  <2>2. IsSettings(f[l - 1]) /\ f[l].exit = Running /\ IsSettings(f[l])
    <3>1. \A i \in 0 .. Len(argv) : IsSettings(f[i]) /\ f[i].exit = Running
      BY <1>0, <1>1, <1>2, <1>3, PassFacts
    <3>2. QED
      BY <1>0, <3>1
  <2> DEFINE x == f[l - 1]
             o == argv[l]
  <2>3. IsSettings(x) /\ Read("options", x, o, u).exit = Running /\ ~ Untouched("options", o.name)
        /\ FieldOf("options", o.name) = F
    BY <2>1, <2>2
  <2>4. ~ Fails("options", x[F], o, u) => ValueOf("options", x[F], o, u) \in V
    OBVIOUS
  <2> HIDE DEF x, o
  <2>5. /\ ~ Fails("options", x[F], o, u)
        /\ Read("options", x, o, u) = [x EXCEPT ![F] = ValueOf("options", x[F], o, u)]
    BY <2>3, RunningOn
  <2> DEFINE v == ValueOf("options", x[F], o, u)
  <2> HIDE DEF v
  <2>6. [x EXCEPT ![F] = v][F] = v
    BY <2>3 DEF IsSettings
  <2>7. f[l] = [x EXCEPT ![F] = v]
    BY <2>1, <2>5 DEF x, o, v
  <2>8. QED
    BY <2>4, <2>5, <2>6, <2>7 DEF v
<1>5. f[Len(argv)][F] \in V
  BY <1>0, <1>1, <1>2, <1>3, <1>4, FieldStays
<1> QED  BY <1>3, <1>5

\* A setting that is given has a value that is read.
LEMMA OptedGiven ==
  ASSUME NEW argv, NEW S, argv \in Seq(S), NEW u, Opted(argv, u).exit = Running,
         NEW l \in 1 .. Len(argv), argv[l].name \in Addresses
  PROVE  Opted(argv, u)[argv[l].name]
           \in {FromStr(argv[k].arg) : k \in {m \in 1 .. Len(argv) : FromStr(argv[m].arg) # Refused}}
<1> DEFINE F == argv[l].name
           V == {FromStr(argv[k].arg) : k \in {m \in 1 .. Len(argv) : FromStr(argv[m].arg) # Refused}}
<1>1. F \in Fields \ {"exit"} /\ F \notin Flags /\ F # "fec" /\ F \notin Ignored
  BY DEF Addresses, Fields, Flags, Ignored
<1>2. \A option, old : option.name \in Addresses => NewValue(old, option, u) = FromStr(option.arg)
  BY LimitsDomain DEF NewValue, Flags, Texts, Addresses, Unlimited
<1>3. \A name : FieldOf("options", name) = F => name = F
  <2>1. "flags" # F /\ "rs_par_str" # F
    BY DEF Addresses
  <2>2. QED
    BY <2>1, Zenon DEF FieldOf, Field
<1>4. ASSUME NEW k \in 1 .. Len(argv), NEW old, argv[k].name = F, ~ Fails("options", old, argv[k], u)
      PROVE  ValueOf("options", old, argv[k], u) \in V
  <2>1. NewValue(old, argv[k], u) = FromStr(argv[k].arg)
    BY <1>2, <1>4
  <2>2. FromStr(argv[k].arg) # Refused /\ ValueOf("options", old, argv[k], u) = FromStr(argv[k].arg)
    BY <1>4, <2>1 DEF Fails, ValueOf
  <2>3. QED
    BY <2>2
<1>5. FieldOf("options", argv[l].name) = F /\ ~ Untouched("options", argv[l].name)
  BY <1>1, Zenon DEF FieldOf, Field, Untouched
<1>6. \A old : ~ Fails("options", old, argv[l], u) => ValueOf("options", old, argv[l], u) \in V
  BY <1>4
<1> HIDE DEF V, F
<1>7. KeepsFrom(l, "options", argv, u, F, V)
  BY <1>3, <1>4, Zenon DEF KeepsFrom
<1>8. Opted(argv, u)[F] \in V
  BY <1>1, <1>5, <1>6, <1>7, OptedFrom
<1> QED  BY <1>8 DEF F, V

\* What is known of the arguments of a line.
LEMMA LineFacts ==
  ASSUME NEW argv, IsCommandLine(argv)
  PROVE  /\ argv \in Seq({argv[i] : i \in DOMAIN argv}) /\ Len(argv) \in Nat /\ DOMAIN argv = 1 .. Len(argv)
         /\ \A l \in 1 .. Len(argv) : /\ argv[l].arg.numbers \in Seq(Int)
                                      /\ argv[l].arg.pairs \in Seq(PairSet) \cup {Unparsable}
<1>1. argv \in Seq({argv[i] : i \in DOMAIN argv})
  BY Zenon DEF IsCommandLine
<1> DEFINE S == {argv[i] : i \in DOMAIN argv}
<1> HIDE DEF S
<1>2. Len(argv) \in Nat /\ DOMAIN argv = 1 .. Len(argv)
  <2>1. argv \in Seq(S)
    BY <1>1 DEF S
  <2>2. QED
    BY <2>1
<1> DEFINE N == MinInt .. MaxInt
<1>3. N \subseteq Int
  OBVIOUS
<1> HIDE DEF N
<1>4. ASSUME NEW q \in Seq(N)
      PROVE  q \in Seq(Int)
  <2>0. \A i \in 1 .. Len(q) : q[i] \in N
    OBVIOUS
  <2>1. \A i \in 1 .. Len(q) : q[i] \in Int
    BY <1>3, <2>0
  <2>2. QED
    BY <2>1
<1>5. \A l \in 1 .. Len(argv) : /\ argv[l].arg.numbers \in Seq(N)
                                /\ argv[l].arg.pairs \in Seq(PairSet) \cup {Unparsable}
  BY <1>2, Zenon DEF IsCommandLine, N, PairSet
<1>6. \A l \in 1 .. Len(argv) : argv[l].arg.numbers \in Seq(Int)
  BY <1>4, <1>5
<1> QED  BY <1>1, <1>2, <1>5, <1>6, Zenon

LEMMA ScannedIsInt ==
  ASSUME NEW arg, arg.numbers \in Seq(Int), NEW old \in Int
  PROVE  Scanned(arg, old) \in Int
<1> DEFINE q == arg.numbers
<1>1. q \in Seq(Int)
  OBVIOUS
<1>2. Scanned(arg, old) = IF q = << >> THEN old ELSE Head(q)
  BY Zenon DEF Scanned
<1> HIDE DEF q
<1>3. q # << >> => Head(q) \in Int
  BY <1>1
<1> QED  BY <1>2, <1>3

\* An option about a setting that has its name.
LEMMA NamesItself ==
  ASSUME NEW name, NEW F, F # "flags", F # "rs_par_str", FieldOf("options", name) = F
  PROVE  name = F
BY Zenon DEF FieldOf, Field

Ranged == {"queue_len", "random_drop", "decode_buf", "mode", "mtu"}

LEMMA NumbersInRange ==
  ASSUME NEW argv, IsCommandLine(argv), NEW u, Opted(argv, u).exit = Running, NEW F \in Ranged
  PROVE  Opted(argv, u)[F] \in Limits[F].min .. Limits[F].max
<1> DEFINE V == Limits[F].min .. Limits[F].max
<1>0. Limits[F].min \in Int /\ Limits[F].max \in Int
  BY DEF Ranged, Limits
<1>1. F \in Fields \ {"exit", "log_level", "enable_log_color"} /\ F # "flags" /\ F # "rs_par_str"
  BY DEF Ranged, Fields
<1>2. Base[F] \in V
  <2>1. Base[F] = Defaults[F]
    BY <1>1, BaseIs DEF Ranged
  <2>2. /\ Defaults["queue_len"] = 200 /\ Defaults["random_drop"] = 0 /\ Defaults["decode_buf"] = 2000
        /\ Defaults["mode"] = 0 /\ Defaults["mtu"] = 1250
    BY DEF Defaults
  <2>3. Defaults[F] \in V
    BY <2>2 DEF Ranged, Limits
  <2>4. QED
    BY <2>1, <2>3
<1>3. ASSUME NEW l \in 1 .. Len(argv), NEW old \in V, FieldOf("options", argv[l].name) = F,
             ~ Fails("options", old, argv[l], u)
      PROVE  ValueOf("options", old, argv[l], u) \in V
  <2> DEFINE o == argv[l]
             w == Scanned(o.arg, old)
  <2>1. o.name = F
    BY <1>1, <1>3, NamesItself
  <2>2. w \in Int
    <3>1. old \in Int
      BY <1>0
    <3>2. QED
      BY <3>1, LineFacts, ScannedIsInt
  <2> HIDE DEF o
  <2>3. NewValue(old, o, u) = ReadNumber(old, F, o.arg)
    BY <2>1, LimitsDomain DEF NewValue, Ranged, Flags, Texts, Addresses, Unlimited
  <2>4. F \in DOMAIN Limits
    BY LimitsDomain DEF Ranged
  <2>5. NewValue(old, o, u) # Refused
    BY <1>3, Zenon DEF Fails, o
  <2> HIDE DEF w
  <2>6. Limits[F].min <= w /\ w <= Limits[F].max /\ NewValue(old, o, u) = w
    BY <2>3, <2>4, <2>5, Zenon DEF ReadNumber, w
  <2>7. ValueOf("options", old, argv[l], u) = w
    BY <2>6, Zenon DEF ValueOf, o
  <2>8. QED
    BY <1>0, <2>2, <2>6, <2>7
<1> HIDE DEF V
<1>4. Keeps("options", argv, u, F, V)
  BY <1>3, Zenon DEF Keeps
<1>5. Opted(argv, u)[F] \in V
  BY <1>1, <1>2, <1>4, LineFacts, OptedStays
<1> QED  BY <1>5 DEF V

LEMMA TimeoutInRange ==
  ASSUME NEW argv, IsCommandLine(argv), NEW u, Opted(argv, u).exit = Running
  PROVE  Opted(argv, u)["timeout"] \in 0 .. MaxTimeout
<1> DEFINE F == "timeout"
           V == 0 .. MaxTimeout
<1>1. F \in Fields \ {"exit", "log_level", "enable_log_color"} /\ F # "flags" /\ F # "rs_par_str"
  BY DEF Fields
<1>0. MaxTimeout \in Int /\ 8 * 1000 <= MaxTimeout /\ 1000 * 1000 <= MaxTimeout
  BY SMT DEF MaxTimeout
<1>2. Base[F] \in V
  <2>1. Base[F] = Defaults[F]
    BY <1>1, BaseIs
  <2>2. Defaults["timeout"] = 8 * 1000
    BY DEF Defaults
  <2>3. QED
    BY <1>0, <2>1, <2>2
<1>3. ASSUME NEW l \in 1 .. Len(argv), NEW old \in V, FieldOf("options", argv[l].name) = F,
             ~ Fails("options", old, argv[l], u)
      PROVE  ValueOf("options", old, argv[l], u) \in V
  <2> DEFINE o == argv[l]
             w == Scanned(o.arg, old)
  <2>1. o.name = F
    BY <1>1, <1>3, NamesItself
  <2>2. w \in Int
    <3>1. old \in Int
      BY <1>0
    <3>2. QED
      BY <3>1, LineFacts, ScannedIsInt
  <2> HIDE DEF o
  <2>3. NewValue(old, o, u) = ReadTimeout(old, o.arg)
    BY <2>1, LimitsDomain DEF NewValue, Flags, Texts, Addresses, Unlimited
  <2>5. NewValue(old, o, u) # Refused
    BY <1>3, Zenon DEF Fails, o
  <2> HIDE DEF w
  <2>6. ~ (w < 0 \/ w > 1000) /\ NewValue(old, o, u) = w * 1000
    BY <2>3, <2>5 DEF ReadTimeout, w
  <2>7. ValueOf("options", old, argv[l], u) = w * 1000
    BY <2>6, Zenon DEF ValueOf, o
  <2>8. QED
    BY <1>0, <2>2, <2>6, <2>7
<1> HIDE DEF V, F
<1>4. Keeps("options", argv, u, F, V)
  BY <1>3, Zenon DEF Keeps
<1>5. Opted(argv, u)[F] \in V
  BY <1>1, <1>2, <1>4, LineFacts, OptedStays
<1> QED  BY <1>5 DEF V, F

LEMMA TableIsUntouched ==
  ASSUME NEW argv, IsCommandLine(argv), NEW u, Opted(argv, u).exit = Running
  PROVE  Opted(argv, u)["fec"] = Base["fec"]
<1> DEFINE F == "fec"
           V == {Base["fec"]}
<1>1. F \in Fields \ {"exit", "log_level", "enable_log_color"}
  BY DEF Fields
<1>2. \A name : FieldOf("options", name) # F
  BY DEF FieldOf, Field
<1>3. Base[F] \in V
  OBVIOUS
<1> HIDE DEF V, F
<1>4. Keeps("options", argv, u, F, V)
  BY <1>2, Zenon DEF Keeps
<1>5. Opted(argv, u)[F] \in V
  BY <1>1, <1>3, <1>4, LineFacts, OptedStays
<1> QED  BY <1>5 DEF V, F

LEMMA PairsAreTyped ==
  ASSUME NEW argv, IsCommandLine(argv), NEW u, Opted(argv, u).exit = Running
  PROVE  Opted(argv, u)["rs_par_str"].pairs \in Seq(PairSet) \cup {Unparsable}
<1> DEFINE F == "rs_par_str"
           V == {Base["rs_par_str"]} \cup {argv[k].arg : k \in 1 .. Len(argv)}
<1>1. F \in Fields \ {"exit", "log_level", "enable_log_color"}
  BY DEF Fields
<1>2. Base[F] \in V
  OBVIOUS
<1>3. ASSUME NEW l \in 1 .. Len(argv), NEW old, FieldOf("options", argv[l].name) = F,
             ~ Untouched("options", argv[l].name), ~ Fails("options", old, argv[l], u)
      PROVE  ValueOf("options", old, argv[l], u) \in V
  <2> DEFINE o == argv[l]
  <2>1. o.name = "fec"
    <3>1. Field(o.name) = F
      BY <1>3 DEF FieldOf
    <3>2. o.name = "fec" \/ o.name = F
      BY <3>1 DEF Field
    <3>3. o.name \in Known
      BY <1>3, UnknownIsRefused DEF Fails
    <3>4. F \notin Known
      BY LimitsDomain DEF Known, Flags, Texts, Addresses, Unlimited
    <3>5. QED
      BY <3>2, <3>3, <3>4
  <2> HIDE DEF o
  <2>2. NewValue(old, o, u) = ReadFec(o.arg)
    BY <2>1, LimitsDomain DEF NewValue, Flags, Texts, Addresses, Unlimited
  <2>3. NewValue(old, o, u) # Refused
    BY <1>3, Zenon DEF Fails, o
  <2>4. ValueOf("options", old, o, u) = o.arg
    BY <2>2, <2>3, Zenon DEF ReadFec, ValueOf
  <2>5. QED
    BY <2>4 DEF o
<1>4. \A v \in V : v.pairs \in Seq(PairSet) \cup {Unparsable}
  <2>1. Base["rs_par_str"].pairs = <<[x |-> 20, y |-> 10]>>
    <3>1. Base["rs_par_str"] = Defaults["rs_par_str"]
      BY BaseIs DEF Fields
    <3>2. Defaults["rs_par_str"] = [NoText EXCEPT !.colon = TRUE, !.pairs = <<[x |-> 20, y |-> 10]>>]
      BY Zenon DEF Defaults
    <3>3. QED
      BY <3>1, <3>2 DEF NoText
  <2>2. <<[x |-> 20, y |-> 10]>> \in Seq(PairSet)
    BY DEF PairSet
  <2>3. \A k \in 1 .. Len(argv) : argv[k].arg.pairs \in Seq(PairSet) \cup {Unparsable}
    BY LineFacts
  <2>4. QED
    BY <2>1, <2>2, <2>3
<1> HIDE DEF V, F
<1>5. Keeps("options", argv, u, F, V)
  BY <1>3, Zenon DEF Keeps
<1>6. Opted(argv, u)[F] \in V
  BY <1>1, <1>2, <1>5, LineFacts, OptedStays
<1> QED  BY <1>4, <1>6 DEF F

\* A given address is one.
LEMMA AddressIsGiven ==
  ASSUME NEW argv, IsCommandLine(argv), NEW u, Opted(argv, u).exit = Running,
         NEW F \in Addresses, Gives(argv, F)
  PROVE  Opted(argv, u)[F] # NoAddress
<1>0. argv \in Seq({argv[i] : i \in DOMAIN argv}) /\ DOMAIN argv = 1 .. Len(argv)
  BY LineFacts
<1>1. PICK l \in 1 .. Len(argv) : argv[l].name = F
  BY <1>0, Zenon DEF Gives
<1> DEFINE S == {argv[i] : i \in DOMAIN argv}
<1>2. argv \in Seq(S)
  BY <1>0
<1> HIDE DEF S
<1>3. Opted(argv, u)[F]
        \in {FromStr(argv[k].arg) : k \in {m \in 1 .. Len(argv) : FromStr(argv[m].arg) # Refused}}
  <2>1. argv[l].name \in Addresses
    BY <1>1
  <2>2. Opted(argv, u)[argv[l].name]
        \in {FromStr(argv[k].arg) : k \in {m \in 1 .. Len(argv) : FromStr(argv[m].arg) # Refused}}
    BY <1>2, <2>1, OptedGiven
  <2>3. QED
    BY <1>1, <2>2, Zenon
<1>4. \A arg : FromStr(arg) # Refused => FromStr(arg) # NoAddress
  <2>1. SUFFICES ASSUME NEW arg, FromStr(arg) # Refused
                 PROVE  FromStr(arg) # NoAddress
    OBVIOUS
  <2>2. FromStr(arg) = [family |-> IF arg.address.bracketed THEN "AF_INET6" ELSE "AF_INET",
                        ip |-> arg.text, port |-> Head(arg.numbers)]
    <3> DEFINE good == /\ "address" \in DOMAIN arg
                       /\ arg.numbers # << >>
                       /\ Head(arg.numbers) \in 0 .. 65535
                       /\ arg.address.version = (IF arg.address.bracketed THEN 6 ELSE 4)
               rec == [family |-> IF arg.address.bracketed THEN "AF_INET6" ELSE "AF_INET",
                       ip |-> arg.text, port |-> Head(arg.numbers)]
    <3>1. FromStr(arg) = IF good THEN rec ELSE Refused
      BY SMT DEF FromStr
    <3> HIDE DEF good, rec
    <3>2. FromStr(arg) = rec
      BY <2>1, <3>1, Zenon
    <3>3. QED
      BY <3>2, Zenon DEF rec
  <2>3. FromStr(arg).family # NoAddress.family
    BY <2>2 DEF NoAddress
  <2>4. QED
    BY <2>3
<1> QED  BY <1>3, <1>4

MaxMillis == 2147483

\* In 32 bits the product is right as long as it fits.
LEMMA TimesThousandFits ==
  ASSUME NEW v \in Nat, v <= MaxMillis
  PROVE  TimesThousand(v) = v * 1000
BY SMT DEF TimesThousand, MaxMillis

Ordered == {p \in [min : Int, max : Int] : 0 <= p.min /\ p.min <= p.max}

\* A pair that is read completely and does not overflow is in order.
LEMMA PairInOrder ==
  ASSUME NEW old, NEW arg, arg.numbers \in Seq(Int), Len(arg.numbers) = 2,
         \A i \in DOMAIN arg.numbers : ~ (arg.numbers[i] > MaxMillis),
         ReadPair(old, arg) # Refused
  PROVE  ReadPair(old, arg) \in Ordered
<1> DEFINE q == arg.numbers
           a == q[1]
           b == q[2]
<1>1. q \in Seq(Int) /\ Len(q) = 2 /\ DOMAIN q = 1 .. 2
  OBVIOUS
<1>2. a \in Int /\ b \in Int /\ Len(q) >= 1 /\ Len(q) >= 2
  <2> HIDE DEF q
  <2> QED  BY <1>1
<1>3. ~ (a > MaxMillis) /\ ~ (b > MaxMillis)
  BY <1>1
<1> HIDE DEF a, b
<1>9. MaxMillis \in Int
  BY SMT DEF MaxMillis
<1>4. ReadPair(old, arg) = IF a < 0 \/ b < 0 \/ a > b THEN Refused
                           ELSE [min |-> TimesThousand(a), max |-> TimesThousand(b)]
  BY <1>2, Zenon DEF ReadPair, a, b
<1>5. ~ (a < 0 \/ b < 0 \/ a > b)
  BY <1>4, Zenon
<1>6. a \in Nat /\ b \in Nat /\ a <= MaxMillis /\ b <= MaxMillis /\ a <= b
  BY <1>2, <1>3, <1>5, <1>9
<1>7. TimesThousand(a) = a * 1000 /\ TimesThousand(b) = b * 1000
  BY <1>6, TimesThousandFits
<1>8. ReadPair(old, arg) = [min |-> a * 1000, max |-> b * 1000]
  BY <1>4, <1>5, <1>7
<1> QED  BY <1>6, <1>8 DEF Ordered

\* A delay that is read completely and does not overflow is in order.
LEMMA DelayIsRead ==
  ASSUME NEW o, o.name \in Pairs, o.arg.numbers \in Seq(Int), Complete(o), ~ Overflows(o),
         NEW u \in Int, NEW old, ~ Fails("options", old, o, u)
  PROVE  ValueOf("options", old, o, u) \in Ordered
<1> DEFINE F == o.name
           arg == o.arg
<1>1. F \in Pairs
  OBVIOUS
<1>2. arg.numbers \in Seq(Int) /\ Complete(o) /\ ~ Overflows(o)
  OBVIOUS
<1>3. NewValue(old, o, u) # Refused /\ ValueOf("options", old, o, u) = NewValue(old, o, u)
  BY Zenon DEF Fails, ValueOf
<1>4. NewValue(old, o, u) = IF F = "jitter" THEN ReadJitter(old, arg, u) ELSE ReadInterval(old, arg)
  BY <1>1, LimitsDomain DEF NewValue, Pairs, Flags, Texts, Addresses, Unlimited
<1>5. IF arg.colon THEN Len(arg.numbers) = 2 ELSE arg.numbers # << >>
  <2>1. o.name # "out_interface" /\ o.name \notin Texts /\ o.name \notin Flags
        /\ o.name \notin Addresses /\ o.name # "fec"
    BY <1>1, SMTT(30) DEF Pairs, Texts, Flags, Addresses
  <2>2. Complete(o)
    BY <1>2
  <2> HIDE DEF F, arg
  <2>3. QED
    BY <1>1, <2>1, <2>2, Zenon DEF Complete, F, arg
<1>6. CASE arg.colon
  <2>1. NewValue(old, o, u) = ReadPair(old, arg)
    BY <1>4, <1>6, Zenon DEF ReadJitter, ReadInterval
  <2>2. \A i \in DOMAIN arg.numbers : ~ (arg.numbers[i] > MaxMillis)
    <3>1. MaxInt \div 1000 = MaxMillis
      BY SMT DEF MaxInt, MaxMillis
    <3>2. o.name \in Pairs
      BY <1>1
    <3>3. ~ \E i \in DOMAIN o.arg.numbers : o.arg.numbers[i] > MaxInt \div 1000
      BY <1>2, <1>6, <3>2, Zenon DEF Overflows
    <3>4. QED
      BY <3>1, <3>3, SMTT(30)
  <2>3. Len(arg.numbers) = 2
    BY <1>5, <1>6, Zenon
  <2>4. ReadPair(old, arg) # Refused
    BY <1>3, <2>1, Zenon
  <2> HIDE DEF arg
  <2>5. ReadPair(old, arg) \in Ordered
    BY <1>2, <2>2, <2>3, <2>4, PairInOrder DEF arg
  <2>6. QED
    BY <1>3, <2>1, <2>5, Zenon
<1>7. CASE ~ arg.colon
  <2>1. Scanned(arg, u) \in Int /\ Scanned(arg, -1) \in Int
    BY <1>2, ScannedIsInt, SMTT(30)
  <2>2. CASE F = "jitter"
    <3> DEFINE w == Scanned(arg, u)
    <3>1. NewValue(old, o, u) = IF w < 0 \/ w > 1000 * 10 THEN Refused ELSE [min |-> 0, max |-> w * 1000]
      BY <1>4, <1>7, <2>2, SMT DEF ReadJitter
    <3>2. w \in Int
      BY <2>1
    <3> HIDE DEF w
    <3>3. ~ (w < 0 \/ w > 1000 * 10) /\ NewValue(old, o, u) = [min |-> 0, max |-> w * 1000]
      BY <1>3, <3>1
    <3>4. QED
      BY <1>3, <3>2, <3>3 DEF Ordered
  <2>3. CASE F # "jitter"
    <3> DEFINE w == Scanned(arg, -1)
    <3>1. NewValue(old, o, u) = IF w < 0 \/ w > 1000 * 10 THEN Refused
                                ELSE [min |-> w * 1000, max |-> w * 1000]
      BY <1>4, <1>7, <2>3, SMT DEF ReadInterval
    <3>2. w \in Int
      BY <2>1
    <3> HIDE DEF w
    <3>3. ~ (w < 0 \/ w > 1000 * 10) /\ NewValue(old, o, u) = [min |-> w * 1000, max |-> w * 1000]
      BY <1>3, <3>1
    <3>4. QED
      BY <1>3, <3>2, <3>3 DEF Ordered
  <2>4. QED
    BY <2>2, <2>3
<1>8. QED
  BY <1>6, <1>7

\* An option that is given is given a last time.
LEMMA LastIsThere ==
  ASSUME NEW argv, Len(argv) \in Nat, NEW i \in 1 .. Len(argv)
  PROVE  \E l \in 1 .. Len(argv) : argv[l].name = argv[i].name /\ IsLast(argv, l)
<1> DEFINE n == Len(argv)
           S == {k \in 0 .. n - 1 : argv[n - k].name = argv[i].name}
<1>1. n - i \in 0 .. n - 1 /\ n - (n - i) = i
  OBVIOUS
<1>2. S \subseteq Nat /\ S # {}
  <2>1. n - i \in S
    BY <1>1
  <2>2. 0 .. n - 1 \subseteq Nat
    OBVIOUS
  <2> HIDE DEF n
  <2>3. S \subseteq 0 .. n - 1
    OBVIOUS
  <2> HIDE DEF S
  <2>4. QED
    BY <2>1, <2>2, <2>3
<1>3. PICK k \in S : \A m \in S : k <= m
  <2> HIDE DEF S
  <2> QED  BY <1>2, LeastElement
<1>4. n - k \in 1 .. n /\ argv[n - k].name = argv[i].name /\ k \in Int
  OBVIOUS
<1>5. ASSUME NEW j \in n - k + 1 .. n
      PROVE  argv[j].name # argv[i].name
  <2>1. n - j \in 0 .. n - 1 /\ n - (n - j) = j /\ ~ (k <= n - j)
    BY <1>4
  <2>2. n - j \notin S
    BY <1>3, <2>1
  <2>3. QED
    BY <2>1, <2>2
<1> HIDE DEF S
<1>6. IsLast(argv, n - k)
  BY <1>4, <1>5 DEF IsLast
<1> QED  BY <1>4, <1>6

\* The last one decides.
LEMMA DelaysInOrder ==
  ASSUME NEW argv, IsCommandLine(argv), NEW u \in Int, Opted(argv, u).exit = Running,
         NEW F \in Pairs,
         \A l \in 1 .. Len(argv) :
           argv[l].name = F /\ IsLast(argv, l) => Complete(argv[l]) /\ ~ Overflows(argv[l])
  PROVE  Opted(argv, u)[F] \in Ordered
<1> DEFINE V == Ordered
<1>1. F \in Fields \ {"exit", "log_level", "enable_log_color"} /\ F # "flags" /\ F # "rs_par_str"
  BY DEF Pairs, Fields
<1>2. Base[F] \in V
  <2>1. Base[F] = Defaults[F]
    BY <1>1, BaseIs DEF Pairs
  <2>2. Defaults["jitter"] = [min |-> 0, max |-> 0] /\ Defaults["interval"] = [min |-> 0, max |-> 0]
    BY Zenon DEF Defaults
  <2>3. [min |-> 0, max |-> 0] \in V
    BY DEF Ordered
  <2>4. QED
    BY <2>1, <2>2, <2>3 DEF Pairs
<1>3. ASSUME NEW l \in 1 .. Len(argv), NEW old, argv[l].name = F,
             Complete(argv[l]), ~ Overflows(argv[l]), ~ Fails("options", old, argv[l], u)
      PROVE  ValueOf("options", old, argv[l], u) \in V
  BY <1>3, LineFacts, DelayIsRead
<1> HIDE DEF V
<1>4. \A name : FieldOf("options", name) = F => name = F
  BY <1>1, NamesItself
<1>5. CASE \E l \in 1 .. Len(argv) : argv[l].name = F
  <2>1. PICK l \in 1 .. Len(argv) : argv[l].name = F /\ IsLast(argv, l)
    BY <1>5, LineFacts, LastIsThere
  <2>2. Complete(argv[l]) /\ ~ Overflows(argv[l])
    BY <2>1
  <2>3. \A old : ~ Fails("options", old, argv[l], u) => ValueOf("options", old, argv[l], u) \in V
    BY <1>3, <2>1, <2>2
  <2>4. FieldOf("options", argv[l].name) = F /\ ~ Untouched("options", argv[l].name)
    BY <2>1 DEF FieldOf, Field, Untouched, Pairs, Flags, Ignored
  <2>5. ASSUME NEW k \in 1 .. Len(argv), k > l
        PROVE  FieldOf("options", argv[k].name) # F
    <3>1. k \in l + 1 .. Len(argv)
      BY <2>5, LineFacts
    <3>2. argv[k].name # F
      BY <2>1, <3>1, Zenon DEF IsLast
    <3>3. QED
      BY <1>4, <3>2
  <2>6. KeepsFrom(l, "options", argv, u, F, V)
    BY <2>5, Zenon DEF KeepsFrom
  <2>7. QED
    BY <1>1, <2>3, <2>4, <2>6, LineFacts, OptedFrom DEF V
<1>6. CASE ~ \E l \in 1 .. Len(argv) : argv[l].name = F
  <2>1. Keeps("options", argv, u, F, V)
    BY <1>4, <1>6, Zenon DEF Keeps
  <2>2. QED
    BY <1>1, <1>2, <2>1, LineFacts, OptedStays DEF V
<1> QED  BY <1>5, <1>6

\* A table of redundancies has a row for every number of packets.
IsTable(par) ==
  /\ DOMAIN par = {"version", "mtu", "queue_len", "timeout", "mode", "rs_cnt", "rs_par"}
  /\ DOMAIN par.rs_par = 1 .. max_fec_packet_num

LEMMA ReadTable ==
  ASSUME NEW par, IsTable(par), NEW s
  PROVE  /\ IsTable(rs_from_str(par, s))
         /\ Acceptable(s) =>
              LET new == rs_from_str(par, s)
              IN  /\ new.rs_cnt = s[Len(s)].x
                  /\ \A x \in 1 .. max_fec_packet_num :
                       x <= s[Len(s)].x => new.rs_par[x] = [x |-> x, y |-> Redundancy(s, x)]
                  /\ new.mtu = par.mtu /\ new.mode = par.mode /\ new.timeout = par.timeout
                  /\ new.queue_len = par.queue_len
<1> DEFINE rows == [x \in DOMAIN par.rs_par |->
                      IF x <= s[Len(s)].x THEN [x |-> x, y |-> Redundancy(s, x)] ELSE par.rs_par[x]]
           cnt  == s[Len(s)].x
           new  == rs_from_str(par, s)
<1>1. CASE ~ Acceptable(s)
  BY <1>1, Zenon DEF rs_from_str
<1>2. CASE Acceptable(s)
  <2>1. new = [par EXCEPT !.rs_cnt = cnt, !.rs_par = rows]
    BY <1>2, Zenon DEF rs_from_str
  <2>2. /\ DOMAIN rows = 1 .. max_fec_packet_num
        /\ \A x \in 1 .. max_fec_packet_num :
             x <= s[Len(s)].x => rows[x] = [x |-> x, y |-> Redundancy(s, x)]
    BY DEF IsTable
  <2> HIDE DEF rows, new, cnt
  <2>3. /\ DOMAIN new = DOMAIN par /\ new.rs_cnt = cnt /\ new.rs_par = rows
        /\ new.mtu = par.mtu /\ new.mode = par.mode /\ new.timeout = par.timeout
        /\ new.queue_len = par.queue_len
    BY <2>1 DEF IsTable
  <2>4. IsTable(new)
    BY <2>2, <2>3 DEF IsTable
  <2>5. \A x \in 1 .. max_fec_packet_num :
          x <= s[Len(s)].x => new.rs_par[x] = [x |-> x, y |-> Redundancy(s, x)]
    BY <2>2, <2>3
  <2>6. QED
    BY <2>3, <2>4, <2>5, Zenon DEF new, cnt
<1> QED  BY <1>1, <1>2

LEMMA FinishedIs ==
  ASSUME NEW t, IsSettings(t), t["fec"] = Base["fec"],
         t["rs_par_str"].pairs \in Seq(PairSet), Acceptable(t["rs_par_str"].pairs)
  PROVE  LET s == Finished(t)
         IN  /\ \A z \in Fields \ {"fec"} : s[z] = t[z]
             /\ s.fec.mtu = t["mtu"] /\ s.fec.mode = t["mode"] /\ s.fec.timeout = t["timeout"]
             /\ s.fec.queue_len = t["queue_len"]
             /\ s.fec.rs_cnt \in Nat /\ s.fec.rs_cnt >= 1
             /\ GroupsCanBeSent(s)
<1> DEFINE p == t["rs_par_str"].pairs
           par == [t.fec EXCEPT !.queue_len = t.queue_len, !.mode = t.mode,
                                !.mtu = t.mtu, !.timeout = t.timeout]
           new == rs_from_str(par, p)
           s == Finished(t)
<1>1. IsTable(t.fec)
  <2>1. IsTable(EmptyTable)
    BY DEF EmptyTable, IsTable
  <2>2. Defaults.fec = EmptyTable
    BY Zenon DEF Defaults
  <2>3. Base.fec = rs_from_str(Defaults.fec, Defaults.rs_par_str.pairs)
    <3>1. "fec" \in DOMAIN Defaults
      BY DEF Defaults
    <3> DEFINE v == rs_from_str(Defaults.fec, Defaults.rs_par_str.pairs)
    <3>2. Base = [Defaults EXCEPT !.fec = v]
      BY Zenon DEF Base
    <3> HIDE DEF v
    <3>3. QED
      BY <3>1, <3>2, Zenon DEF v
  <2>4. IsTable(Base.fec)
    BY <2>1, <2>2, <2>3, ReadTable
  <2>5. QED
    BY <2>4
<1>2. /\ IsTable(par) /\ par.mtu = t.mtu /\ par.mode = t.mode /\ par.timeout = t.timeout
      /\ par.queue_len = t.queue_len
  BY <1>1 DEF IsTable
<1>3. s = [t EXCEPT !.fec = new]
  BY Zenon DEF Finished
<1> HIDE DEF par, p
<1>4. /\ new.rs_cnt = p[Len(p)].x
      /\ \A x \in 1 .. max_fec_packet_num :
           x <= p[Len(p)].x => new.rs_par[x] = [x |-> x, y |-> Redundancy(p, x)]
      /\ new.mtu = par.mtu /\ new.mode = par.mode /\ new.timeout = par.timeout
      /\ new.queue_len = par.queue_len
  BY <1>2, ReadTable DEF p
<1> HIDE DEF new, s
<1>5. s.fec = new /\ \A z \in Fields \ {"fec"} : s[z] = t[z]
  BY <1>3 DEF IsSettings, Fields
<1>6. p \in Seq(PairSet) /\ Acceptable(p)
  BY DEF p
<1>7. p[Len(p)].x \in 1 .. max_fec_packet_num /\ max_fec_packet_num \in Nat
  BY <1>6, RowFacts, FecAssumption
<1>8. ASSUME NEW x \in 1 .. new.rs_cnt
      PROVE  /\ new.rs_par[x].y \in 0 .. max_fec_packet_num - x
             /\ new.rs_par[x].y = Redundancy(p, x)
  <2>1. x \in 1 .. max_fec_packet_num /\ x <= p[Len(p)].x /\ x \in 1 .. p[Len(p)].x
    BY <1>4, <1>7
  <2>2. Redundancy(p, x) \in 0 .. max_fec_packet_num - x
    BY <1>6, <2>1, RowFacts
  <2>3. new.rs_par[x] = [x |-> x, y |-> Redundancy(p, x)]
    BY <1>4, <2>1
  <2>4. QED
    BY <2>2, <2>3
<1>9. new.rs_cnt \in Nat /\ new.rs_cnt >= 1
  BY <1>4, <1>7
<1>10. /\ s.fec.mtu = t["mtu"] /\ s.fec.mode = t["mode"] /\ s.fec.timeout = t["timeout"]
       /\ s.fec.queue_len = t["queue_len"]
  BY <1>2, <1>4, <1>5
<1>11. s.rs_par_str.pairs = p
  <2>1. "rs_par_str" \in Fields \ {"fec"}
    BY DEF Fields
  <2>2. QED
    BY <1>5, <2>1 DEF p
<1>12. (\A x \in 1 .. new.rs_cnt : TakenByDecoder(x, new.rs_par[x].y))
         <=> (\A i \in DOMAIN p : TakenByDecoder(p[i].x, p[i].y))
  BY <1>4, <1>6, <1>8, RedundancyIsTaken
<1>13. GroupsCanBeSent(s)
  BY <1>5, <1>8, <1>11, <1>12, Zenon DEF GroupsCanBeSent
<1> QED  BY <1>5, <1>9, <1>10, <1>13 DEF s

-----------------------------------------------------------------------------
(* The decoder's table of groups *)

Doubled(n, top) ==
  IF n = 0 THEN 0 ELSE IF n >= top THEN n ELSE IF 2 * n >= top THEN 2 * n
  ELSE IF 4 * n >= top THEN 4 * n ELSE IF 8 * n >= top THEN 8 * n
  ELSE IF 16 * n >= top THEN 16 * n ELSE IF 32 * n >= top THEN 32 * n
  ELSE IF 64 * n >= top THEN 64 * n ELSE IF 128 * n >= top THEN 128 * n
  ELSE IF 256 * n >= top THEN 256 * n ELSE IF 512 * n >= top THEN 512 * n
  ELSE IF 1024 * n >= top THEN 1024 * n ELSE IF 2048 * n >= top THEN 2048 * n
  ELSE IF 4096 * n >= top THEN 4096 * n ELSE IF 8192 * n >= top THEN 8192 * n
  ELSE IF 16384 * n >= top THEN 16384 * n ELSE IF 32768 * n >= top THEN 32768 * n
  ELSE 65536 * n

LEMMA DoublingSolved ==
  ASSUME NEW n \in Nat, NEW top \in Nat, top >= 1, top <= 40000
  PROVE  Doubled(n, top) = IF n < top THEN Doubled(2 * n, top) ELSE n
<1>1. CASE n = 0
  BY <1>1 DEF Doubled
<1>2. CASE n # 0 /\ n >= top
  BY <1>2 DEF Doubled
<1>3. CASE n # 0 /\ n < top
  BY <1>3, SMTT(30) DEF Doubled
<1> QED  BY <1>1, <1>2, <1>3

\* The table has a power of two of slots, at least two for every datagram and fewer than four.
LEMMA GroupTableSize ==
  ASSUME NEW b \in WindowSizes
  PROVE  /\ group_table_size(b) \in 2 * b .. 4 * b - 1
         /\ \E e \in 0 .. 16 : group_table_size(b) = 2 ^ e
<1> DEFINE top == 2 * b
           Body(f) == [n \in Nat |-> IF n < 2 * b THEN f[2 * n] ELSE n]
           read == CHOOSE f : f = Body(f)
           D == [n \in Nat |-> Doubled(n, top)]
<1>1. b \in Nat /\ top \in Nat /\ top >= 600 /\ top <= 40000
  BY SMT DEF WindowSizes
<1>2. D = Body(D)
  <2>1. ASSUME NEW n \in Nat
        PROVE  D[n] = IF n < 2 * b THEN D[2 * n] ELSE n
    <3>1. Doubled(n, top) = IF n < top THEN Doubled(2 * n, top) ELSE n
      BY <1>1, DoublingSolved
    <3>2. 2 * n \in Nat
      OBVIOUS
    <3>3. D[n] = Doubled(n, top) /\ D[2 * n] = Doubled(2 * n, top)
      BY <3>2, Zenon
    <3> HIDE DEF D
    <3>4. QED
      BY <3>1, <3>3
  <2>2. D = [n \in Nat |-> D[n]]
    BY Zenon
  <2> HIDE DEF D
  <2>3. QED
    BY <2>1, <2>2
<1>3. read = Body(read)
  <2> HIDE DEF Body, D
  <2> QED  BY <1>2, Zenon
<1>4. group_table_size(b) = read[1]
  BY Zenon DEF group_table_size
<1> HIDE DEF read, top, D
<1>5. \A n \in Nat : read[n] = IF n < top THEN read[2 * n] ELSE n
  BY <1>3 DEF top
<1>6. /\ read[1] = read[2] /\ read[2] = read[4] /\ read[4] = read[8] /\ read[8] = read[16]
      /\ read[16] = read[32] /\ read[32] = read[64] /\ read[64] = read[128]
      /\ read[128] = read[256] /\ read[256] = read[512] /\ read[512] = read[1024]
  BY <1>1, <1>5
<1>7. \A n \in {1024, 2048, 4096, 8192, 16384, 32768, 65536} :
        read[n] = IF n < top THEN read[2 * n] ELSE n
  BY <1>5
<1>8. \/ read[1024] = 1024 /\ 1024 >= top /\ 512 < top
      \/ read[1024] = 2048 /\ 2048 >= top /\ 1024 < top
      \/ read[1024] = 4096 /\ 4096 >= top /\ 2048 < top
      \/ read[1024] = 8192 /\ 8192 >= top /\ 4096 < top
      \/ read[1024] = 16384 /\ 16384 >= top /\ 8192 < top
      \/ read[1024] = 32768 /\ 32768 >= top /\ 16384 < top
      \/ read[1024] = 65536 /\ 65536 >= top /\ 32768 < top
  BY <1>1, <1>7
<1>9. read[1] = read[1024]
  BY <1>6
<1>10. /\ 2 ^ 10 = 1024 /\ 2 ^ 11 = 2048 /\ 2 ^ 12 = 4096 /\ 2 ^ 13 = 8192 /\ 2 ^ 14 = 16384
       /\ 2 ^ 15 = 32768 /\ 2 ^ 16 = 65536
  OBVIOUS
<1>11. \E e \in {10, 11, 12, 13, 14, 15, 16} : read[1] = 2 ^ e
  BY <1>8, <1>9, <1>10
<1>12. read[1] \in 2 * b .. 4 * b - 1
  BY <1>1, <1>8, <1>9 DEF top
<1>13. {10, 11, 12, 13, 14, 15, 16} \subseteq 0 .. 16
  OBVIOUS
<1> QED  BY <1>4, <1>11, <1>12, <1>13, Zenon

-----------------------------------------------------------------------------
(* The command line: the theorem *)

\* The limits the reader checks are the values the parts are written for.
LEMMA LimitRanges ==
  /\ Limits["mtu"].min .. Limits["mtu"].max = Mtus
  /\ Limits["mode"].min .. Limits["mode"].max = {0, 1}
  /\ Limits["queue_len"].min .. Limits["queue_len"].max = QueueLens
  /\ Limits["decode_buf"].min .. Limits["decode_buf"].max = WindowSizes
  /\ Limits["random_drop"].min .. Limits["random_drop"].max = DropRates
<1>1. Limits["mtu"].min = 100 /\ Limits["mtu"].max = 2000
  BY SMT DEF Limits
<1>2. Limits["mode"].min .. Limits["mode"].max = {0, 1}
  BY SMT DEF Limits
<1>3. Limits["queue_len"].min = 1 /\ Limits["queue_len"].max = 10000
  BY SMT DEF Limits
<1>4. Limits["decode_buf"].min = 300 /\ Limits["decode_buf"].max = 20000
  BY SMT DEF Limits
<1>5. Limits["random_drop"].min = 0 /\ Limits["random_drop"].max = 10000
  BY SMT DEF Limits
<1>6. Limits["mtu"].min .. Limits["mtu"].max = Mtus
  BY <1>1, SMT DEF Mtus
<1>7. Limits["queue_len"].min .. Limits["queue_len"].max = QueueLens
  BY <1>3, SMT DEF QueueLens
<1>8. Limits["decode_buf"].min .. Limits["decode_buf"].max = WindowSizes
  BY <1>4, SMT DEF WindowSizes
<1>9. Limits["random_drop"].min .. Limits["random_drop"].max = DropRates
  BY <1>5, SMT DEF DropRates
<1> QED  BY <1>2, <1>6, <1>7, <1>8, <1>9, Zenon

\* The values of the settings a program is started with.
LEMMA StartedSettings ==
  ASSUME NEW argv, IsCommandLine(argv), NEW u \in Int, main(argv, u).exit = Running
  PROVE  LET s == main(argv, u)
         IN  /\ Cardinality({"client", "server"} \cap s.flags) = 1
             /\ s.local_addr # NoAddress /\ s.remote_addr # NoAddress
             /\ s.fec.mtu \in Mtus
             /\ s.fec.mode \in {0, 1}
             /\ s.fec.timeout \in 0 .. MaxTimeout
             /\ s.fec.queue_len \in QueueLens
             /\ s.fec.rs_cnt \in Nat /\ s.fec.rs_cnt >= 1
             /\ GroupsCanBeSent(s)
             /\ s.decode_buf \in WindowSizes
             /\ s.random_drop \in DropRates
             /\ \A name \in Pairs :
                  (\A l \in 1 .. Len(argv) :
                    argv[l].name = name /\ IsLast(argv, l) => Complete(argv[l]) /\ ~ Overflows(argv[l]))
                    => s[name] \in Ordered
<1> DEFINE t == Opted(argv, u)
           s == main(argv, u)
           S == {argv[i] : i \in DOMAIN argv}
<1>1. argv \in Seq(S)
  BY LineFacts
<1> HIDE DEF S
<1>2. Fits(argv, t)
  BY <1>1, MainFits
<1>3. s = Finished(t)
  BY <1>2, FitsMain
<1>4. t.exit = Running /\ IsSettings(t)
  BY <1>1, <1>2, OptedRuns DEF Fits
<1>5. t["fec"] = Base["fec"] /\ t["timeout"] \in 0 .. MaxTimeout
  BY <1>4, TableIsUntouched, TimeoutInRange
<1>6. t["rs_par_str"].pairs \in Seq(PairSet) /\ Acceptable(t["rs_par_str"].pairs)
  <2>1. Acceptable(t["rs_par_str"].pairs)
    BY <1>2 DEF Fits
  <2>2. t["rs_par_str"].pairs \in Seq(PairSet) \cup {Unparsable}
    BY <1>4, PairsAreTyped
  <2>3. QED
    BY <2>1, <2>2 DEF Acceptable
<1>7. \A F \in Ranged : t[F] \in Limits[F].min .. Limits[F].max
  BY <1>4, NumbersInRange
<1>8. t["local_addr"] # NoAddress /\ t["remote_addr"] # NoAddress
  <2>1. Gives(argv, "local_addr") /\ Gives(argv, "remote_addr")
    BY <1>2, Zenon DEF Fits
  <2>2. "local_addr" \in Addresses /\ "remote_addr" \in Addresses
    BY DEF Addresses
  <2>3. QED
    BY <1>4, <2>1, <2>2, AddressIsGiven
<1>9. ASSUME NEW name \in Pairs,
             \A l \in 1 .. Len(argv) :
               argv[l].name = name /\ IsLast(argv, l) => Complete(argv[l]) /\ ~ Overflows(argv[l])
      PROVE  t[name] \in Ordered
  BY <1>4, <1>9, DelaysInOrder
<1>10. Cardinality({"client", "server"} \cap t.flags) = 1
  <2>1. ("client" \in t.flags) # ("server" \in t.flags)
    BY <1>2, Zenon DEF Fits
  <2>2. {"client", "server"} \cap t.flags = {"client"} \/ {"client", "server"} \cap t.flags = {"server"}
    BY <2>1
  <2>3. QED
    BY <2>2, FS_Singleton
<1> HIDE DEF t, s
<1>11. /\ \A z \in Fields \ {"fec"} : s[z] = t[z]
       /\ s.fec.mtu = t["mtu"] /\ s.fec.mode = t["mode"] /\ s.fec.timeout = t["timeout"]
       /\ s.fec.queue_len = t["queue_len"]
       /\ s.fec.rs_cnt \in Nat /\ s.fec.rs_cnt >= 1
       /\ GroupsCanBeSent(s)
  BY <1>3, <1>4, <1>5, <1>6, FinishedIs
<1>12. /\ s.flags = t.flags /\ s.local_addr = t["local_addr"] /\ s.remote_addr = t["remote_addr"]
       /\ s.decode_buf = t["decode_buf"] /\ s.random_drop = t["random_drop"]
       /\ \A name \in Pairs : s[name] = t[name]
  BY <1>11 DEF Fields, Pairs
<1>13. /\ t["mtu"] \in Mtus
       /\ t["mode"] \in {0, 1}
       /\ t["queue_len"] \in QueueLens
       /\ t["decode_buf"] \in WindowSizes
       /\ t["random_drop"] \in DropRates
  <2>1. {"mtu", "mode", "queue_len", "decode_buf", "random_drop"} \subseteq Ranged
    BY DEF Ranged
  <2>2. /\ t["mtu"] \in Limits["mtu"].min .. Limits["mtu"].max
        /\ t["mode"] \in Limits["mode"].min .. Limits["mode"].max
        /\ t["queue_len"] \in Limits["queue_len"].min .. Limits["queue_len"].max
        /\ t["decode_buf"] \in Limits["decode_buf"].min .. Limits["decode_buf"].max
        /\ t["random_drop"] \in Limits["random_drop"].min .. Limits["random_drop"].max
    BY <1>7, <2>1
  <2>3. QED
    BY <2>2, LimitRanges, Zenon
<1>14. \A name \in Pairs :
         (\A l \in 1 .. Len(argv) :
                    argv[l].name = name /\ IsLast(argv, l) => Complete(argv[l]) /\ ~ Overflows(argv[l]))
           => s[name] \in Ordered
  BY <1>9, <1>12, Zenon
<1> QED  BY <1>5, <1>8, <1>10, <1>11, <1>12, <1>13, <1>14, Zenon DEF s

\* The program is only started with limits its parts are written for and with a table of
\* which the decoder takes every group unless a pair was given with x + y at the limit;
\* delays can be drawn unless their option was the last time read in part or not at all,
\* or overflows; and neither the order of options about different settings nor one that
\* is given again and then read completely makes a difference (misc.cpp:600-914,
\* fec_manager.h:27-72, fec_manager.cpp:509).
THEOREM SettingsSound == Spec => []SettingsAreSound
<1>1. InputOK => SettingsAreSound
  <2> SUFFICES ASSUME InputOK, input.kind = "arguments", main(input.args.argv, input.args.junk).exit = Running
               PROVE  SettingsAreSound
    BY Zenon DEF SettingsAreSound
  <2> DEFINE argv == input.args.argv
             junk == input.args.junk
             s    == main(argv, junk)
  <2>1. IsCommandLine(argv) /\ junk \in Int
    <3>1. argv \in CommandLines /\ junk \in Uninitialized
      BY DEF InputOK
    <3>2. MinInt .. MaxInt \subseteq Int
      OBVIOUS
    <3>3. (\A a \in CommandLines : IsCommandLine(a)) /\ Uninitialized \subseteq MinInt .. MaxInt
      BY ONLY InputsAssumption, Zenon
    <3> HIDE DEF argv, junk
    <3>4. QED
      BY ONLY <3>1, <3>2, <3>3, Zenon
  <2>2. main(argv, junk).exit = Running
    OBVIOUS
  <2>3. argv \in Seq({argv[i] : i \in DOMAIN argv}) /\ DOMAIN argv = 1 .. Len(argv) /\ Len(argv) \in Nat
    BY <2>1, LineFacts
  <2> HIDE DEF argv, junk
  <2>4. /\ Cardinality({"client", "server"} \cap s.flags) = 1
        /\ s.local_addr # NoAddress /\ s.remote_addr # NoAddress
        /\ s.fec.mtu \in Mtus
        /\ s.fec.mode \in {0, 1}
        /\ s.fec.timeout \in 0 .. MaxTimeout
        /\ s.fec.queue_len \in QueueLens
        /\ s.fec.rs_cnt \in Nat /\ s.fec.rs_cnt >= 1
        /\ GroupsCanBeSent(s)
        /\ s.decode_buf \in WindowSizes
        /\ s.random_drop \in DropRates
        /\ \A name \in Pairs :
             (\A l \in 1 .. Len(argv) :
                    argv[l].name = name /\ IsLast(argv, l) => Complete(argv[l]) /\ ~ Overflows(argv[l]))
               => s[name] \in Ordered
    BY <2>1, <2>2, StartedSettings
  <2>5. ASSUME NEW i \in 2 .. Len(argv), Independent(argv[i - 1].name, argv[i].name)
        PROVE  main(Swapped(argv, i), junk) = s
    BY <2>2, <2>3, <2>5, OrderDoesNotMatter
  <2>6. ASSUME NEW i \in DOMAIN argv, NEW j \in i + 1 .. Len(argv), IsNext(argv, i, j), Complete(argv[j])
        PROVE  main(RemoveAt(argv, i), junk) = s
    <3>1. i \in 1 .. Len(argv)
      BY <2>3
    <3>2. QED
      BY <2>2, <2>3, <2>6, <3>1, LastOneCounts
  <2> HIDE DEF s
  <2>7. DelaysCanBeDrawn(s, argv)
    <3>1. SUFFICES ASSUME NEW name \in Pairs,
                          \A i \in DOMAIN argv :
                            argv[i].name = name /\ IsLast(argv, i) => Complete(argv[i]) /\ ~ Overflows(argv[i])
                   PROVE  0 <= s[name].min /\ s[name].min <= s[name].max
      BY Zenon DEF DelaysCanBeDrawn
    <3>2. \A l \in 1 .. Len(argv) :
            argv[l].name = name /\ IsLast(argv, l) => Complete(argv[l]) /\ ~ Overflows(argv[l])
      BY <2>3, <3>1, Zenon
    <3>3. s[name] \in Ordered
      BY <2>4, <3>2, Zenon
    <3>4. QED
      BY <3>3 DEF Ordered
  <2>8. InRange(s)
    <3>3. s.decode_buf \in WindowSizes
      BY <2>4
    <3>6. /\ group_table_size(s.decode_buf) \in 2 * s.decode_buf .. 4 * s.decode_buf - 1
          /\ \E e \in 0 .. 16 : group_table_size(s.decode_buf) = 2 ^ e
      BY <3>3, GroupTableSize
    <3>7. NoAddress \notin {s.local_addr, s.remote_addr}
      BY <2>4
    <3>8. QED
      BY <2>4, <3>6, <3>7, Zenon DEF InRange
  <2>9. QED
    BY <2>4, <2>5, <2>6, <2>7, <2>8, Zenon DEF SettingsAreSound, s, argv, junk
<1> QED  BY <1>1, InputsAreGiven, PTL
-----------------------------------------------------------------------------
(* Loops *)

\* The states of a loop whose rounds stay within Q.
LEMMA LoopExists ==
  ASSUME NEW n \in Nat, NEW Q, NEW q \in Q, NEW G \in [Q -> Q]
  PROVE  \E f \in [0 .. n -> Q] : f = [k \in 0 .. n |-> IF k = 0 THEN q ELSE G[f[k - 1]]]
<1> DEFINE F == [i \in 1 .. n |-> G]
<1>1. F \in [1 .. n -> [Q -> Q]]
  OBVIOUS
<1> HIDE DEF F
<1>2. PICK f : Rounds(f, n, Q, q, F)
  BY <1>1, Iteration
<1>3. f \in [0 .. n -> Q] /\ f[0] = q /\ \A i \in 1 .. n : f[i] = G[f[i - 1]]
  BY <1>2 DEF Rounds, F
<1>4. \A k \in 0 .. n : f[k] = IF k = 0 THEN q ELSE G[f[k - 1]]
  <2>1. \A k \in 0 .. n : k = 0 \/ k \in 1 .. n
    OBVIOUS
  <2>2. QED
    BY <1>3, <2>1, Zenon
<1> QED  BY <1>3, <1>4

-----------------------------------------------------------------------------
(* Divisors *)

Divides(d, n) == \E x \in Nat : n = d * x

LEMMA DividesSum ==
  ASSUME NEW d \in Nat, NEW m \in Nat, NEW n \in Nat, NEW k \in Nat, Divides(d, m), Divides(d, n)
  PROVE  Divides(d, k * m + n)
<1>1. PICK x \in Nat : m = d * x
  BY DEF Divides
<1>2. PICK y \in Nat : n = d * y
  BY DEF Divides
<1>3. k * x + y \in Nat
  OBVIOUS
<1>4. k * (d * x) = d * (k * x)
  OBVIOUS
<1>5. d * (k * x + y) = d * (k * x) + d * y
  OBVIOUS
<1>6. k * m + n = d * (k * x + y)
  BY <1>1, <1>2, <1>4, <1>5
<1> QED  BY <1>3, <1>6 DEF Divides

\* Division with remainder.
LEMMA DivMod ==
  ASSUME NEW a \in Nat, NEW b \in Nat \ {0}
  PROVE  /\ a \div b \in Nat /\ a % b \in 0 .. b - 1
         /\ a = (a \div b) * b + (a % b) /\ a = b * (a \div b) + (a % b)
<1>1. a % b \in 0 .. b - 1
  OBVIOUS
<1>2. a \div b \in Int
  OBVIOUS
<1>3. a % b = a - b * (a \div b)
  OBVIOUS
<1>4. a \div b >= 0
  OBVIOUS
<1> DEFINE q == a \div b
           c == a % b
<1> HIDE DEF q, c
<1>5. b * q = q * b /\ q \in Int /\ q >= 0 /\ c \in 0 .. b - 1 /\ c = a - b * q
  BY <1>1, <1>2, <1>3, <1>4 DEF q, c
<1>6. q \in Nat /\ c \in 0 .. b - 1 /\ a = q * b + c /\ a = b * q + c
  BY <1>5
<1> QED  BY <1>6, Zenon DEF q, c

LEMMA ModUnique ==
  ASSUME NEW b \in Nat \ {0}, NEW q \in Nat, NEW r \in 0 .. b - 1
  PROVE  (b * q + r) % b = r /\ (b * q + r) \div b = q
<1> DEFINE a == b * q + r
           k == a \div b
           s == a % b
<1>1. a \in Nat
  OBVIOUS
<1>2. k \in Nat /\ s \in 0 .. b - 1 /\ a = b * k + s
  BY <1>1, DivMod
<1>3. b * q + r = b * k + s
  BY <1>2
<1> HIDE DEF k, s, a
<1>4. b * (q - k) = s - r
  BY <1>2, <1>3
<1>5. ~ (q - k >= 1)
  <2>1. SUFFICES ASSUME q - k >= 1  PROVE FALSE
    OBVIOUS
  <2>2. b * (q - k) >= b
    BY <1>2, <2>1
  <2>3. QED
    BY <1>2, <1>4, <2>2
<1>6. ~ (q - k <= -1)
  <2>1. SUFFICES ASSUME q - k <= -1  PROVE FALSE
    OBVIOUS
  <2>2. b * (q - k) <= -b
    BY <1>2, <2>1
  <2>3. QED
    BY <1>2, <1>4, <2>2
<1>7. q = k
  BY <1>2, <1>5, <1>6
<1>8. s = r
  BY <1>2, <1>3, <1>7
<1> QED  BY <1>7, <1>8 DEF k, s, a

\* Whole periods make no difference.
LEMMA ModPeriod ==
  ASSUME NEW b \in Nat \ {0}, NEW x \in Nat, NEW k \in Nat
  PROVE  (b * k + x) % b = x % b
<1> DEFINE q == x \div b
           r == x % b
<1>1. q \in Nat /\ r \in 0 .. b - 1 /\ x = b * q + r
  BY DivMod
<1> HIDE DEF q, r
<1>2. k + q \in Nat /\ b * (k + q) = b * k + b * q
  BY <1>1
<1>3. b * k + x = b * (k + q) + r
  BY <1>1, <1>2
<1>4. (b * (k + q) + r) % b = r
  BY <1>1, <1>2, ModUnique
<1> QED  BY <1>3, <1>4 DEF r

\* Two multiples of w that differ are at least w apart.
LEMMA Apart ==
  ASSUME NEW w \in Nat \ {0}, NEW m \in Nat, NEW n \in Nat, Divides(w, m), Divides(w, n), m < n
  PROVE  m + w <= n
<1>1. PICK x \in Nat : m = w * x
  BY DEF Divides
<1>2. PICK y \in Nat : n = w * y
  BY DEF Divides
<1>3. x < y
  <2>1. ASSUME y <= x
        PROVE  FALSE
    <3>1. w * y <= w * x
      BY <2>1
    <3>2. QED
      BY <1>1, <1>2, <3>1
  <2>2. QED
    BY <2>1
<1>4. w * (x + 1) <= w * y
  BY <1>3
<1>5. w * (x + 1) = w * x + w
  OBVIOUS
<1> QED  BY <1>1, <1>2, <1>4, <1>5

-----------------------------------------------------------------------------
(* The greatest common divisor *)

LEMMA GcdDivides ==
  ASSUME NEW a \in Nat \ {0}, NEW b \in Nat
  PROVE  /\ Cook!cook_gcd(a, b) \in Nat \ {0}
         /\ Divides(Cook!cook_gcd(a, b), a) /\ Divides(Cook!cook_gcd(a, b), b)
<1> DEFINE Q == [a : Nat, b : Nat]
           start == [a |-> a, b |-> b]
           G == [s \in Q |-> Cook!GcdRound(s)]
           Body(f) == [k \in 0 .. b |-> IF k = 0 THEN start ELSE Cook!GcdRound(f[k - 1])]
           round == CHOOSE f : f = Body(f)
<1>1. ASSUME NEW s \in Q
      PROVE  Cook!GcdRound(s) \in Q
  <2>1. s.b # 0 => s.a % s.b \in Nat
    BY DivMod
  <2>2. QED
    BY <2>1 DEF Cook!GcdRound
<1>2. G \in [Q -> Q]
  BY <1>1
<1>3. start \in Q
  OBVIOUS
<1>4. PICK f \in [0 .. b -> Q] : f = [k \in 0 .. b |-> IF k = 0 THEN start ELSE G[f[k - 1]]]
  <2> HIDE DEF G, Q, start
  <2> QED  BY <1>2, <1>3, LoopExists, SMTT(30)
<1>5. f = Body(f)
  <2>1. \A k \in 0 .. b : k # 0 => k - 1 \in 0 .. b
    OBVIOUS
  <2>2. \A k \in 0 .. b : k # 0 => G[f[k - 1]] = Cook!GcdRound(f[k - 1])
    BY <2>1
  <2> HIDE DEF G, Q, start
  <2>3. QED
    BY <1>4, <2>2
<1>6. round = Body(round)
  <2> HIDE DEF Body
  <2> QED  BY <1>5, Zenon
<1>7. Cook!cook_gcd(a, b) = round[b].a
  BY Zenon DEF Cook!cook_gcd
<1> HIDE DEF round, G
<1>8. round[0] = start /\ \A k \in 1 .. b : round[k] = Cook!GcdRound(round[k - 1])
  <2>1. 0 \in 0 .. b /\ \A k \in 1 .. b : k \in 0 .. b /\ k # 0
    OBVIOUS
  <2>2. \A k \in 0 .. b : round[k] = IF k = 0 THEN start ELSE Cook!GcdRound(round[k - 1])
    BY <1>6, Zenon
  <2>3. QED
    BY <2>1, <2>2, Zenon
<1> DEFINE T == {k \in 0 .. b : LET s == round[k]
                              IN  /\ s.a \in Nat \ {0} /\ s.b \in Nat /\ s.b <= b - k
                                  /\ \A d \in Nat : Divides(d, s.a) /\ Divides(d, s.b)
                                                      => Divides(d, a) /\ Divides(d, b)}
<1>9. 0 \in T
  BY <1>8
<1>10. ASSUME NEW k \in 1 .. b, k - 1 \in T
       PROVE  k \in T
  <2> DEFINE s == round[k - 1]
             t == round[k]
  <2>1. /\ s.a \in Nat \ {0} /\ s.b \in Nat /\ s.b <= b - (k - 1)
        /\ \A d \in Nat : Divides(d, s.a) /\ Divides(d, s.b) => Divides(d, a) /\ Divides(d, b)
    BY <1>10
  <2>2. t = Cook!GcdRound(s) /\ k \in 0 .. b
    BY <1>8
  <2> HIDE DEF s, t
  <2>3. CASE s.b = 0
    <3>1. t = s
      BY <2>2, <2>3 DEF Cook!GcdRound
    <3>2. t.b <= b - k
      BY <2>3, <3>1
    <3>3. QED
      BY <2>1, <2>2, <3>1, <3>2 DEF t
  <2>4. CASE s.b # 0
    <3> DEFINE r == s.a % s.b
               q == s.a \div s.b
    <3>1. t.a = s.b /\ t.b = r
      BY <2>2, <2>4 DEF Cook!GcdRound
    <3>2. q \in Nat /\ r \in 0 .. s.b - 1 /\ s.a = q * s.b + r
      BY <2>1, <2>4, DivMod
    <3> HIDE DEF r, q
    <3>3. ASSUME NEW d \in Nat, Divides(d, t.a), Divides(d, t.b)
          PROVE  Divides(d, s.a) /\ Divides(d, s.b)
      <4>1. Divides(d, q * s.b + r)
        BY <2>1, <3>1, <3>2, <3>3, DividesSum, SMTT(30)
      <4>2. QED
        BY <3>1, <3>2, <3>3, <4>1
    <3>4. t.a \in Nat \ {0} /\ t.b \in Nat /\ t.b <= b - k
      BY <2>1, <2>4, <3>1, <3>2, SMTT(30)
    <3>5. QED
      BY <2>1, <2>2, <3>3, <3>4 DEF t
  <2>5. QED
    BY <2>3, <2>4
<1>11. b \in T
  <2> HIDE DEF T
  <2> QED  BY <1>9, <1>10, Climb
<1>12. LET s == round[b]
       IN  /\ s.a \in Nat \ {0} /\ s.b = 0
           /\ \A d \in Nat : Divides(d, s.a) /\ Divides(d, s.b) => Divides(d, a) /\ Divides(d, b)
  BY <1>11
<1>13. Divides(round[b].a, round[b].a) /\ Divides(round[b].a, 0)
  <2>1. round[b].a = round[b].a * 1 /\ 0 = round[b].a * 0
    BY <1>12
  <2>2. QED
    BY <2>1 DEF Divides
<1> QED  BY <1>7, <1>12, <1>13

\* The tile's length is a multiple of the pattern's and of the vector's, and not too large.
LEMMA TileLengthIs ==
  ASSUME NEW n \in Nat \ {0}, NEW vec \in Nat \ {0}
  PROVE  LET len == Cook!TileLength(n, vec)
         IN  /\ len \in Nat \ {0} /\ Divides(n, len) /\ Divides(vec, len)
             /\ len >= n /\ len >= vec /\ len <= n * vec
<1> DEFINE g == Cook!cook_gcd(n, vec)
           len == Cook!TileLength(n, vec)
<1>1. g \in Nat \ {0} /\ Divides(g, n) /\ Divides(g, vec)
  BY GcdDivides
<1>2. len = (n \div g) * vec
  BY DEF Cook!TileLength, Cook!cook_lcm
<1> HIDE DEF g, len
<1>3. PICK x \in Nat : n = g * x
  BY <1>1 DEF Divides
<1>4. PICK y \in Nat : vec = g * y
  BY <1>1 DEF Divides
<1>5. n \div g = x
  <2>1. 0 \in 0 .. g - 1 /\ g * x + 0 = n
    BY <1>1, <1>3
  <2>2. QED
    BY <1>1, <2>1, ModUnique
<1>6. len = vec * x
  BY <1>2, <1>5
<1>7. len = n * y
  <2>1. (g * y) * x = (g * x) * y
    BY <1>1
  <2>2. QED
    BY <1>3, <1>4, <1>6, <2>1
<1>8. x # 0 /\ y # 0
  BY <1>1, <1>3, <1>4
<1>9. x <= n
  <2>1. g * x >= 1 * x
    BY <1>1
  <2>2. QED
    BY <1>3, <2>1
<1>10. vec * x <= vec * n /\ vec * x >= vec /\ n * y >= n
  BY <1>8, <1>9
<1>11. len \in Nat /\ len # 0
  BY <1>6, <1>10
<1> QED  BY <1>6, <1>7, <1>10, <1>11 DEF len, Divides

-----------------------------------------------------------------------------
(* The tile *)

\* The byte of the repeated pattern at offset j.
KeyAt(pat, j) == pat[(j % Len(pat)) + 1]

IsPattern(pat, S) == pat \in Seq(S) /\ Len(pat) \in Nat \ {0}

LEMMA KeyIsInPattern ==
  ASSUME NEW S, NEW pat, IsPattern(pat, S), NEW j \in Nat
  PROVE  KeyAt(pat, j) \in S
<1> DEFINE r == j % Len(pat)
<1>1. r \in 0 .. Len(pat) - 1
  BY DivMod DEF IsPattern
<1> HIDE DEF r
<1>2. r + 1 \in 1 .. Len(pat)
  BY <1>1 DEF IsPattern
<1>3. pat[r + 1] \in S
  BY <1>2 DEF IsPattern
<1> QED  BY <1>3 DEF KeyAt, r

\* Offsets a and b meet the same byte of a pattern of length p.
InStep(a, b, p) == a % p = b % p

\* They still do so x bytes later.
LEMMA Later ==
  ASSUME NEW p \in Nat \ {0}, NEW a \in Nat, NEW b \in Nat, NEW x \in Nat, InStep(a, b, p)
  PROVE  InStep(a + x, b + x, p)
<1> DEFINE q == a \div p
           k == b \div p
           r == a % p
<1>1. q \in Nat /\ r \in 0 .. p - 1 /\ a = p * q + r
  BY DivMod
<1>2. k \in Nat /\ b = p * k + r
  <2>1. r = b % p
    BY DEF InStep
  <2>2. QED
    BY <2>1, DivMod
<1> HIDE DEF q, k, r
<1>3. r + x \in Nat /\ a + x = p * q + (r + x) /\ b + x = p * k + (r + x)
  BY <1>1, <1>2
<1>4. (p * q + (r + x)) % p = (r + x) % p /\ (p * k + (r + x)) % p = (r + x) % p
  BY <1>1, <1>2, <1>3, ModPeriod
<1> QED  BY <1>3, <1>4 DEF InStep

LEMMA SameStep ==
  ASSUME NEW p, NEW a, NEW b, NEW c, InStep(a, b, p), InStep(b, c, p)
  PROVE  InStep(a, c, p)
BY DEF InStep

LEMMA SameKey ==
  ASSUME NEW pat, NEW a, NEW b, InStep(a, b, Len(pat))
  PROVE  KeyAt(pat, a) = KeyAt(pat, b)
BY DEF InStep, KeyAt

\* A multiple of the period makes no difference.
LEMMA WholePeriods ==
  ASSUME NEW p \in Nat \ {0}, NEW len \in Nat, Divides(p, len), NEW x \in Nat
  PROVE  InStep(len + x, x, p)
<1>1. PICK k \in Nat : len = p * k
  BY DEF Divides
<1> QED  BY <1>1, ModPeriod DEF InStep

\* The tile while it is filled: whole repetitions, or all of it.
Filling(tile, pat, tile_len, S) ==
  /\ tile \in Seq(S) /\ Len(tile) <= tile_len /\ Len(tile) >= Len(pat)
  /\ Divides(Len(pat), Len(tile))
  /\ \A i \in 1 .. Len(tile) : tile[i] = KeyAt(pat, i - 1)

LEMMA CopyRoundFills ==
  ASSUME NEW S, NEW pat, IsPattern(pat, S), NEW tile_len \in Nat, Divides(Len(pat), tile_len),
         NEW tile, Filling(tile, pat, tile_len, S)
  PROVE  LET t == Cook!CopyRound(tile_len, tile)
         IN  /\ Filling(t, pat, tile_len, S)
             /\ Len(t) = tile_len \/ Len(t) >= Len(tile) + Len(pat)
<1> DEFINE p == Len(pat)
           l == Len(tile)
           left == tile_len - l
           n == IF left > l THEN l ELSE left
           t == Cook!CopyRound(tile_len, tile)
<1>1. p \in Nat \ {0} /\ l \in Nat /\ l <= tile_len /\ l >= p /\ tile \in Seq(S) /\ Divides(p, l)
      /\ \A i \in 1 .. l : tile[i] = KeyAt(pat, i - 1)
  BY DEF Filling, IsPattern
<1>2. CASE left <= 0
  <2>1. t = tile /\ l = tile_len
    BY <1>1, <1>2 DEF Cook!CopyRound
  <2>2. QED
    BY <2>1
<1>3. CASE left > 0
  <2> DEFINE more == SubSeq(tile, 1, n)
  <2>1. t = tile \o more
    BY <1>3 DEF Cook!CopyRound
  <2>2. n \in Nat /\ 0 <= n /\ n <= l
    BY <1>1, <1>3
  <2>3. more \in Seq(S) /\ IsPiece(more, tile, 0, n)
    <3>1. 0 + 1 = 1
      OBVIOUS
    <3> HIDE DEF n, l
    <3>2. QED
      BY <1>1, <2>2, <3>1, Piece DEF l
  <2>4. t \in Seq(S) /\ IsConcatenation(t, tile, more)
    BY <1>1, <2>1, <2>3, Concatenation
  <2> HIDE DEF t, more
  <2>5. Len(t) = l + n /\ \A i \in 1 .. l : t[i] = tile[i]
    BY <2>3, <2>4 DEF IsConcatenation, IsPiece
  <2>6. \A i \in 1 .. n : t[l + i] = tile[i]
    <3> HIDE DEF n
    <3>1. Len(more) = n /\ \A i \in 1 .. n : more[i] = tile[0 + i]
      BY <2>2, <2>3 DEF IsPiece
    <3>2. \A i \in 1 .. n : t[l + i] = more[i]
      BY <2>4, <3>1 DEF IsConcatenation
    <3>3. \A i \in 1 .. n : 0 + i = i
      OBVIOUS
    <3>4. QED
      BY <3>1, <3>2, <3>3
  <2>7. Divides(p, l + n)
    <3>1. CASE left > l
      <4>1. 1 * l + l = l + n
        BY <1>1, <3>1
      <4>2. QED
        BY <1>1, <4>1, DividesSum
    <3>2. CASE ~ (left > l)
      <4>1. l + n = tile_len
        BY <1>1, <3>2
      <4>2. QED
        BY <4>1
    <3>3. QED
      BY <3>1, <3>2
  <2>8. ASSUME NEW i \in 1 .. l + n
        PROVE  t[i] = KeyAt(pat, i - 1)
    <3>1. CASE i <= l
      <4>1. i \in 1 .. l
        BY <1>1, <2>2, <3>1
      <4>2. QED
        BY <1>1, <2>5, <4>1
    <3>2. CASE i > l
      <4> DEFINE j == i - l
      <4> HIDE DEF n
      <4>1. j \in 1 .. n /\ j \in 1 .. l /\ i = l + j /\ j - 1 \in Nat /\ i - 1 = l + (j - 1)
        BY <1>1, <2>2, <3>2
      <4> HIDE DEF j
      <4>2. t[i] = KeyAt(pat, j - 1)
        BY <1>1, <2>6, <4>1
      <4>3. InStep(l + (j - 1), j - 1, p)
        BY <1>1, <4>1, WholePeriods
      <4>4. KeyAt(pat, l + (j - 1)) = KeyAt(pat, j - 1)
        BY <4>3, SameKey
      <4>5. QED
        BY <4>1, <4>2, <4>4
    <3>3. QED
      BY <1>1, <2>2, <3>1, <3>2
  <2>9. l + n <= tile_len /\ l + n >= p /\ (l + n = tile_len \/ l + n >= l + p)
    BY <1>1, <1>3
  <2>10. QED
    BY <2>4, <2>5, <2>7, <2>8, <2>9 DEF Filling, t
<1>4. QED
  BY <1>1, <1>2, <1>3

\* The tile is the pattern over and over.
LEMMA TileIsPattern ==
  ASSUME NEW S, NEW pat, IsPattern(pat, S), NEW tile_len \in Nat, Divides(Len(pat), tile_len),
         tile_len >= Len(pat)
  PROVE  LET tile == Cook!expand_tile(tile_len, pat)
         IN  Filling(tile, pat, tile_len, S) /\ Len(tile) = tile_len
<1> DEFINE p == Len(pat)
           rounds == tile_len \div p
           Q == {t \in Seq(S) : Filling(t, pat, tile_len, S)}
           G == [t \in Q |-> Cook!CopyRound(tile_len, t)]
           Body(f) == [k \in 0 .. rounds |-> IF k = 0 THEN pat ELSE Cook!CopyRound(tile_len, f[k - 1])]
           round == CHOOSE f : f = Body(f)
<1>1. p \in Nat \ {0} /\ rounds \in Nat
  BY DivMod DEF IsPattern
<1>2. ASSUME NEW t \in Q
      PROVE  Cook!CopyRound(tile_len, t) \in Q
  <2>1. Filling(Cook!CopyRound(tile_len, t), pat, tile_len, S)
    BY CopyRoundFills
  <2>2. QED
    BY <2>1 DEF Filling
<1>3. G \in [Q -> Q]
  BY <1>2
<1>4. pat \in Q
  <2>1. p = p * 1
    BY <1>1
  <2>2. ASSUME NEW i \in 1 .. p
        PROVE  pat[i] = KeyAt(pat, i - 1)
    <3> HIDE DEF p
    <3> DEFINE j == i - 1
    <3>1. j \in 0 .. p - 1 /\ p * 0 + j = j /\ j + 1 = i
      BY <1>1
    <3> HIDE DEF j
    <3>2. j % p = j
      <4>1. (p * 0 + j) % p = j
        BY <1>1, <3>1, ModUnique
      <4>2. QED
        BY <3>1, <4>1
    <3>3. QED
      BY <3>1, <3>2 DEF KeyAt, p, j
  <2>3. Divides(p, p)
    BY <2>1 DEF Divides
  <2>4. pat \in Seq(S) /\ p <= tile_len /\ p >= p
    BY <1>1 DEF IsPattern
  <2>5. Filling(pat, pat, tile_len, S)
    BY <2>2, <2>3, <2>4 DEF Filling
  <2>6. QED
    BY <2>4, <2>5
<1> HIDE DEF rounds, p
<1>5. PICK f \in [0 .. rounds -> Q] : f = [k \in 0 .. rounds |-> IF k = 0 THEN pat ELSE G[f[k - 1]]]
  <2>1. rounds \in Nat
    BY <1>1
  <2> HIDE DEF G, Q, Body, round
  <2>2. QED
    BY ONLY <2>1, <1>3, <1>4, LoopExists, SMTT(30)
<1>6. f = Body(f)
  <2>1. \A k \in 0 .. rounds : k # 0 => k - 1 \in 0 .. rounds
    BY <1>1
  <2>2. \A k \in 0 .. rounds : k # 0 => G[f[k - 1]] = Cook!CopyRound(tile_len, f[k - 1])
    BY <2>1
  <2> HIDE DEF G, Q
  <2>3. QED
    BY <1>5, <2>2
<1>7. round = Body(round)
  <2> HIDE DEF Body
  <2> QED  BY <1>6, Zenon
<1>8. Cook!expand_tile(tile_len, pat) = round[rounds]
  BY Zenon DEF Cook!expand_tile, rounds, p
<1> HIDE DEF round, G
<1>9. round[0] = pat /\ \A k \in 1 .. rounds : round[k] = Cook!CopyRound(tile_len, round[k - 1])
  <2>1. 0 \in 0 .. rounds /\ \A k \in 1 .. rounds : k \in 0 .. rounds /\ k # 0
    BY <1>1
  <2>2. \A k \in 0 .. rounds : round[k] = IF k = 0 THEN pat ELSE Cook!CopyRound(tile_len, round[k - 1])
    BY <1>7, Zenon
  <2>3. QED
    BY <2>1, <2>2, Zenon
<1> DEFINE T == {k \in 0 .. rounds :
                  /\ Filling(round[k], pat, tile_len, S)
                  /\ Len(round[k]) = tile_len \/ Len(round[k]) >= p * k + p}
<1>10. 0 \in T
  <2>1. Filling(pat, pat, tile_len, S)
    BY <1>4
  <2>2. Len(round[0]) >= p * 0 + p
    BY <1>1, <1>9 DEF p
  <2>3. QED
    BY <1>1, <1>9, <2>1, <2>2
<1>11. ASSUME NEW k \in 1 .. rounds, k - 1 \in T
       PROVE  k \in T
  <2> DEFINE s == round[k - 1]
             t == round[k]
  <2>1. /\ Filling(s, pat, tile_len, S)
        /\ Len(s) = tile_len \/ Len(s) >= p * (k - 1) + p
    BY <1>11
  <2>2. t = Cook!CopyRound(tile_len, s)
    BY <1>9
  <2> HIDE DEF s, t
  <2>3. /\ Filling(t, pat, tile_len, S)
        /\ Len(t) = tile_len \/ Len(t) >= Len(s) + p
    BY <2>1, <2>2, CopyRoundFills DEF p
  <2>4. /\ Len(s) \in Nat /\ Len(t) \in Nat /\ Len(s) >= p /\ Len(t) <= tile_len
    BY <2>1, <2>3 DEF Filling, p
  <2>5. p * (k - 1) + p = p * k
    BY <1>1
  <2>6. Len(t) = tile_len \/ Len(t) >= p * k + p
    <3>1. p * k \in Nat
      BY <1>1
    <3>2. QED
      BY <1>1, <2>1, <2>3, <2>4, <2>5, <3>1
  <2>7. QED
    BY <1>1, <2>3, <2>6 DEF t
<1>12. rounds \in T
  <2> HIDE DEF T
  <2> QED  BY <1>1, <1>10, <1>11, Climb
<1>13. tile_len < p * rounds + p
  BY <1>1, DivMod DEF rounds
<1>14. Filling(round[rounds], pat, tile_len, S) /\ Len(round[rounds]) = tile_len
  BY <1>1, <1>12, <1>13 DEF Filling
<1> QED  BY <1>8, <1>14

\* The n bytes of l are those of the repeated pattern from offset o on.
Meets(l, n, pat, o, S) ==
  /\ l \in Seq(S) /\ Len(l) = n
  /\ \A q \in 1 .. n : l[q] = KeyAt(pat, o + (q - 1))

\* What continues in step.
LEMMA MeetsBoth ==
  ASSUME NEW S, NEW pat, IsPattern(pat, S), NEW n \in Nat, NEW w \in Nat,
         NEW u \in Nat, NEW v \in Nat, InStep(v, u + n, Len(pat)),
         NEW a, Meets(a, n, pat, u, S), NEW b, Meets(b, w, pat, v, S)
  PROVE  Meets(a \o b, n + w, pat, u, S)
<1> DEFINE all == a \o b
<1>1. /\ a \in Seq(S) /\ Len(a) = n /\ b \in Seq(S) /\ Len(b) = w
      /\ \A q \in 1 .. n : a[q] = KeyAt(pat, u + (q - 1))
      /\ \A q \in 1 .. w : b[q] = KeyAt(pat, v + (q - 1))
  BY DEF Meets
<1>2. all \in Seq(S) /\ IsConcatenation(all, a, b)
  BY <1>1, Concatenation
<1> HIDE DEF all
<1>3. Len(all) = n + w /\ (\A i \in 1 .. n : all[i] = a[i]) /\ \A i \in 1 .. w : all[n + i] = b[i]
  BY <1>1, <1>2 DEF IsConcatenation
<1>4. ASSUME NEW q \in 1 .. n + w
      PROVE  all[q] = KeyAt(pat, u + (q - 1))
  <2>1. CASE q <= n
    BY <1>1, <1>3, <2>1
  <2>2. CASE q > n
    <3>1. PICK j \in 1 .. w, x \in Nat : j = q - n /\ x = j - 1
      BY <2>2
    <3>2. q = n + j /\ (u + n) + x = u + (q - 1) /\ u + n \in Nat
      BY <3>1
    <3>3. all[q] = KeyAt(pat, v + x)
      BY <1>1, <1>3, <3>1, <3>2
    <3>4. InStep(v + x, (u + n) + x, Len(pat))
      BY <3>2, Later DEF IsPattern
    <3>5. KeyAt(pat, v + x) = KeyAt(pat, (u + n) + x)
      BY <3>4, SameKey
    <3>6. QED
      BY <3>2, <3>3, <3>5
  <2>3. QED
    BY <2>1, <2>2
<1> QED  BY <1>2, <1>3, <1>4 DEF Meets, all

\* A tile that starts o bytes into the pattern.
TileOf(tile, pat, o, S) ==
  /\ tile.len \in Nat \ {0} /\ Divides(Len(pat), tile.len)
  /\ tile.bytes \in Seq(S) /\ Len(tile.bytes) >= tile.len
  /\ \A i \in 1 .. tile.len : tile.bytes[i] = KeyAt(pat, o + (i - 1))

\* Where w bytes can be loaded.
Loadable(t, w, tile) == t \in Nat /\ t < tile.len /\ Divides(w, t)

LEMMA LoadableFits ==
  ASSUME NEW w \in Nat \ {0}, NEW tile, tile.len \in Nat, Divides(w, tile.len), NEW t, Loadable(t, w, tile)
  PROVE  t + w <= tile.len
BY Apart DEF Loadable

\* What is loaded at t meets the pattern from o + t on.
LEMMA LoadMeets ==
  ASSUME NEW S, NEW pat, NEW o \in Nat, NEW tile, TileOf(tile, pat, o, S),
         NEW w \in Nat \ {0}, Divides(w, tile.len), NEW t, Loadable(t, w, tile)
  PROVE  Meets(Cook!Load(t, w, tile), w, pat, o + t, S)
<1> DEFINE b == tile.bytes
           l == Cook!Load(t, w, tile)
           len == tile.len
<1>1. b \in Seq(S) /\ Len(b) >= len /\ len \in Nat /\ t \in Nat
      /\ \A i \in 1 .. len : b[i] = KeyAt(pat, o + (i - 1))
  BY DEF TileOf, Loadable
<1>2. t + w <= len
  BY <1>1, LoadableFits
<1>3. l = SubSeq(b, t + 1, t + w)
  BY DEF Cook!Load
<1> HIDE DEF b, l, len
<1>4. l \in Seq(S) /\ IsPiece(l, b, t, t + w)
  <2>1. t + w \in Nat /\ t <= t + w /\ t + w <= Len(b)
    BY <1>1, <1>2
  <2>2. QED
    BY <1>1, <1>3, <2>1, Piece
<1>5. Len(l) = w /\ \A i \in 1 .. w : l[i] = b[t + i]
  <2>1. (t + w) - t = w
    BY <1>1
  <2>2. QED
    BY <1>4, <2>1 DEF IsPiece
<1>6. ASSUME NEW q \in 1 .. w
      PROVE  l[q] = KeyAt(pat, (o + t) + (q - 1))
  <2>1. t + q \in 1 .. len /\ o + ((t + q) - 1) = (o + t) + (q - 1)
    BY <1>1, <1>2
  <2>2. b[t + q] = KeyAt(pat, o + ((t + q) - 1))
    BY <1>1, <2>1
  <2>3. QED
    BY <1>5, <2>1, <2>2
<1> QED  BY <1>4, <1>5, <1>6 DEF l, Meets

\* The offset stays in the tile, at a multiple of the load, and in step with the pattern.
LEMMA AdvancedMeets ==
  ASSUME NEW S, NEW pat, IsPattern(pat, S), NEW o \in Nat, NEW tile, TileOf(tile, pat, o, S),
         NEW w \in Nat \ {0}, Divides(w, tile.len), NEW t, Loadable(t, w, tile)
  PROVE  LET a == Cook!Advanced(t, w, tile)
         IN  Loadable(a, w, tile) /\ InStep(o + a, (o + t) + w, Len(pat))
<1> DEFINE len == tile.len
           p == Len(pat)
           a == Cook!Advanced(t, w, tile)
<1>1. len \in Nat \ {0} /\ Divides(p, len) /\ p \in Nat \ {0} /\ t \in Nat /\ Divides(w, t)
  BY DEF TileOf, IsPattern, Loadable
<1>2. t + w <= len
  BY <1>1, LoadableFits
<1>3. a = IF t + w >= len THEN 0 ELSE t + w
  BY DEF Cook!Advanced
<1> HIDE DEF len, p, a
<1>4. CASE t + w >= len
  <2>1. a = 0 /\ (o + t) + w = len + o /\ o + a = o
    BY <1>1, <1>2, <1>3, <1>4
  <2>2. InStep(len + o, o, p)
    BY <1>1, WholePeriods
  <2>3. Divides(w, 0)
    <3>1. 0 = w * 0
      OBVIOUS
    <3>2. QED
      BY <3>1 DEF Divides
  <2>4. a < len
    BY <1>1, <2>1
  <2>5. QED
    BY <2>1, <2>2, <2>3, <2>4 DEF len, p, a, Loadable, InStep
<1>5. CASE ~ (t + w >= len)
  <2>1. a = t + w /\ a < len /\ a \in Nat /\ o + a = (o + t) + w
    BY <1>1, <1>3, <1>5
  <2>2. Divides(w, t + w)
    <3>1. Divides(w, w)
      <4>1. w = w * 1
        OBVIOUS
      <4>2. QED
        BY <4>1 DEF Divides
    <3>2. 1 * t + w = t + w
      BY <1>1
    <3>3. Divides(w, 1 * t + w)
      BY <1>1, <3>1, DividesSum
    <3>4. QED
      BY <3>2, <3>3
  <2>3. QED
    BY <2>1, <2>2 DEF len, p, a, Loadable, InStep
<1> QED  BY <1>4, <1>5

\* After some loads from t on, with what they loaded.
Loading(s, n, tile, pat, o, t, w, S) ==
  /\ Loadable(s.at, w, tile) /\ InStep(o + s.at, (o + t) + n, Len(pat))
  /\ Meets(s.bytes, n, pat, o + t, S)

LoadStates(S) == [at : Nat, bytes : Seq(S)]

LEMMA LoadRoundMeets ==
  ASSUME NEW S, NEW pat, IsPattern(pat, S), NEW o \in Nat, NEW tile, TileOf(tile, pat, o, S),
         NEW w \in Nat \ {0}, Divides(w, tile.len), NEW t \in Nat, NEW n \in Nat,
         NEW s, Loading(s, n, tile, pat, o, t, w, S)
  PROVE  LET r == Cook!LoadRound(w, tile, s)
         IN  r \in LoadStates(S) /\ Loading(r, n + w, tile, pat, o, t, w, S)
<1> DEFINE a == Cook!Advanced(s.at, w, tile)
           l == Cook!Load(s.at, w, tile)
           all == s.bytes \o l
           r == Cook!LoadRound(w, tile, s)
<1>1. /\ Loadable(s.at, w, tile) /\ InStep(o + s.at, (o + t) + n, Len(pat))
      /\ Meets(s.bytes, n, pat, o + t, S)
  BY DEF Loading
<1>2. s.at \in Nat /\ o + s.at \in Nat /\ o + t \in Nat /\ (o + t) + n \in Nat /\ w \in Nat
      /\ Len(pat) \in Nat \ {0} /\ (o + t) + (n + w) = ((o + t) + n) + w
  BY <1>1 DEF Loadable, IsPattern
<1>3. r = [at |-> a, bytes |-> all]
  BY DEF Cook!LoadRound
<1>4. Loadable(a, w, tile) /\ InStep(o + a, (o + s.at) + w, Len(pat))
  BY <1>1, AdvancedMeets
<1>5. Meets(l, w, pat, o + s.at, S)
  BY <1>1, LoadMeets
<1>6. Meets(all, n + w, pat, o + t, S)
  <2> HIDE DEF l
  <2>1. QED
    BY <1>1, <1>2, <1>5, MeetsBoth
<1> HIDE DEF a, l, all, r
<1>7. InStep((o + s.at) + w, ((o + t) + n) + w, Len(pat))
  BY <1>1, <1>2, Later
<1>8. InStep(o + a, (o + t) + (n + w), Len(pat))
  BY <1>2, <1>4, <1>7, SameStep, Zenon
<1>9. r.at = a /\ r.bytes = all /\ r \in LoadStates(S)
  BY <1>3, <1>4, <1>6 DEF LoadStates, Loadable, Meets
<1> QED  BY <1>4, <1>6, <1>8, <1>9, Zenon DEF Loading, r

LEMMA EmptyMeets ==
  ASSUME NEW S, NEW pat, NEW u
  PROVE  Meets(<< >>, 0, pat, u, S)
BY DEF Meets

\* n loads from t on.
LEMMA LoadsMeet ==
  ASSUME NEW S, NEW pat, IsPattern(pat, S), NEW o \in Nat, NEW tile, TileOf(tile, pat, o, S),
         NEW w \in Nat \ {0}, Divides(w, tile.len), NEW t, Loadable(t, w, tile), NEW n \in Nat
  PROVE  Loading(Cook!Loads(t, w, n, tile), n * w, tile, pat, o, t, w, S)
<1> DEFINE Ok(s, m) == Loading(s, m, tile, pat, o, t, w, S)
           Q == {s \in LoadStates(S) : \E m \in Nat : Ok(s, m)}
           start == [at |-> t, bytes |-> << >>]
           G == [s \in Q |-> Cook!LoadRound(w, tile, s)]
           Body(f) == [k \in 0 .. n |-> IF k = 0 THEN start ELSE Cook!LoadRound(w, tile, f[k - 1])]
           load == CHOOSE f : f = Body(f)
<1>0. t \in Nat
  BY DEF Loadable
<1>1. ASSUME NEW s, NEW m \in Nat, Ok(s, m)
      PROVE  Cook!LoadRound(w, tile, s) \in LoadStates(S) /\ Ok(Cook!LoadRound(w, tile, s), m + w)
  BY <1>0, <1>1, LoadRoundMeets
<1>2. start \in LoadStates(S) /\ Ok(start, 0)
  <2>1. InStep(o + t, (o + t) + 0, Len(pat))
    <3>1. (o + t) + 0 = o + t
      BY <1>0
    <3>2. QED
      BY <3>1 DEF InStep
  <2>2. Meets(<< >>, 0, pat, o + t, S)
    BY EmptyMeets
  <2>3. start.at = t /\ start.bytes = << >> /\ start \in LoadStates(S)
    BY <1>0 DEF LoadStates
  <2> HIDE DEF start
  <2>4. QED
    BY <2>1, <2>2, <2>3, Zenon DEF Loading
<1> HIDE DEF Ok, start
<1>3. start \in Q
  BY <1>2
<1>4. G \in [Q -> Q]
  <2>1. ASSUME NEW s \in Q
        PROVE  Cook!LoadRound(w, tile, s) \in Q
    <3>1. PICK m \in Nat : Ok(s, m)
      OBVIOUS
    <3>2. Cook!LoadRound(w, tile, s) \in LoadStates(S) /\ Ok(Cook!LoadRound(w, tile, s), m + w)
      BY <1>1, <3>1, Zenon
    <3>3. m + w \in Nat
      OBVIOUS
    <3>4. QED
      BY <3>2, <3>3
  <2>2. QED
    BY <2>1
<1>5. PICK f \in [0 .. n -> Q] : f = [k \in 0 .. n |-> IF k = 0 THEN start ELSE G[f[k - 1]]]
  <2>1. n \in Nat
    OBVIOUS
  <2> HIDE DEF G, Q, Body, load
  <2>2. QED
    BY ONLY <2>1, <1>3, <1>4, LoopExists
<1>6. f = Body(f)
  <2>1. \A k \in 0 .. n : k # 0 => k - 1 \in 0 .. n
    OBVIOUS
  <2>2. \A k \in 0 .. n : k # 0 => G[f[k - 1]] = Cook!LoadRound(w, tile, f[k - 1])
    BY <2>1
  <2> HIDE DEF G, Q
  <2>3. QED
    BY <1>5, <2>2
<1>7. load = Body(load)
  <2> HIDE DEF Body
  <2> QED  BY <1>6, Zenon
<1>8. Cook!Loads(t, w, n, tile) = load[n]
  BY Zenon DEF Cook!Loads, start
<1> HIDE DEF load, G
<1>9. load[0] = start /\ \A k \in 1 .. n : load[k] = Cook!LoadRound(w, tile, load[k - 1])
  <2>1. 0 \in 0 .. n /\ \A k \in 1 .. n : k \in 0 .. n /\ k # 0
    OBVIOUS
  <2>2. \A k \in 0 .. n : load[k] = IF k = 0 THEN start ELSE Cook!LoadRound(w, tile, load[k - 1])
    BY <1>7, Zenon
  <2>3. QED
    BY <2>1, <2>2, Zenon
<1> DEFINE T == {k \in 0 .. n : Ok(load[k], k * w)}
<1>10. 0 \in T
  <2>1. 0 * w = 0 /\ 0 \in 0 .. n
    OBVIOUS
  <2>2. QED
    BY <1>2, <1>9, <2>1
<1>11. ASSUME NEW k \in 1 .. n, k - 1 \in T
       PROVE  k \in T
  <2>1. Ok(load[k - 1], (k - 1) * w) /\ load[k] = Cook!LoadRound(w, tile, load[k - 1])
    BY <1>9, <1>11
  <2>2. (k - 1) * w \in Nat /\ (k - 1) * w + w = k * w /\ k \in 0 .. n
    OBVIOUS
  <2>3. Ok(load[k], (k - 1) * w + w)
    BY <1>1, <2>1, <2>2, Zenon
  <2>4. QED
    BY <2>2, <2>3
<1>12. n \in T
  <2> HIDE DEF T
  <2> QED  BY <1>10, <1>11, Climb
<1> QED  BY <1>8, <1>12 DEF Ok

-----------------------------------------------------------------------------
(* Xor *)

IsData(data, U) == data \in Seq(SUBSET U)

\* The first n bytes of the data have met the repeated pattern from offset c on.
Met(b, n, data, pat, c, U) ==
  /\ b \in Seq(SUBSET U) /\ Len(b) = n
  /\ \A q \in 1 .. n : b[q] = Xor(data[q], KeyAt(pat, c + (q - 1)))

\* In the middle of a loop that loads w bytes at a time.
Xoring(s, n, data, tile, pat, o, c, w, U) ==
  /\ Loadable(s.at, w, tile) /\ InStep(o + s.at, c + n, Len(pat))
  /\ Met(s.bytes, n, data, pat, c, U)

LEMMA SameXorBytes == \A a, b : Cook!XorBytes(a, b) = XorBytes(a, b)
BY DEF Cook!XorBytes, XorBytes, Cook!Xor, Xor

LEMMA XorIsIn ==
  ASSUME NEW U, NEW a \in SUBSET U, NEW b \in SUBSET U
  PROVE  Xor(a, b) \in SUBSET U
BY DEF Xor

\* A piece of the data meets as much of the key.
LEMMA PieceIsMet ==
  ASSUME NEW U, NEW data, IsData(data, U), NEW pat, NEW n \in Nat, NEW w \in Nat, n + w <= Len(data),
         NEW c \in Nat, NEW v \in Nat, InStep(v, c + n, Len(pat)), IsPattern(pat, SUBSET U),
         NEW key, Meets(key, w, pat, v, SUBSET U),
         NEW b, Met(b, n, data, pat, c, U)
  PROVE  Met(b \o XorBytes(SubSeq(data, n + 1, n + w), key), n + w, data, pat, c, U)
<1> DEFINE l == SubSeq(data, n + 1, n + w)
           x == XorBytes(l, key)
           all == b \o x
<1>1. /\ key \in Seq(SUBSET U) /\ Len(key) = w /\ \A q \in 1 .. w : key[q] = KeyAt(pat, v + (q - 1))
      /\ b \in Seq(SUBSET U) /\ Len(b) = n
      /\ \A q \in 1 .. n : b[q] = Xor(data[q], KeyAt(pat, c + (q - 1)))
      /\ data \in Seq(SUBSET U)
  BY DEF Meets, Met, IsData
<1>2. l \in Seq(SUBSET U) /\ IsPiece(l, data, n, n + w)
  <2>1. n + w \in Nat /\ n <= n + w
    OBVIOUS
  <2>2. QED
    BY <1>1, <2>1, Piece
<1> HIDE DEF l
<1>3. Len(l) = w /\ DOMAIN l = 1 .. w /\ \A i \in 1 .. w : l[i] = data[n + i]
  <2>1. (n + w) - n = w
    OBVIOUS
  <2>2. QED
    BY <1>2, <2>1 DEF IsPiece
<1>4. x = [i \in 1 .. w |-> Xor(l[i], key[i])]
  BY <1>3 DEF XorBytes
<1>5. \A i \in 1 .. w : Xor(l[i], key[i]) \in SUBSET U
  <2>1. \A i \in 1 .. w : l[i] \in SUBSET U /\ key[i] \in SUBSET U
    BY <1>1, <1>2, <1>3
  <2>2. QED
    BY <2>1, XorIsIn
<1>6. x \in Seq(SUBSET U) /\ Len(x) = w /\ \A i \in 1 .. w : x[i] = Xor(l[i], key[i])
  BY <1>4, <1>5
<1> HIDE DEF x
<1>7. all \in Seq(SUBSET U) /\ IsConcatenation(all, b, x)
  BY <1>1, <1>6, Concatenation
<1> HIDE DEF all
<1>8. Len(all) = n + w /\ (\A i \in 1 .. n : all[i] = b[i]) /\ \A i \in 1 .. w : all[n + i] = x[i]
  BY <1>1, <1>6, <1>7 DEF IsConcatenation
<1>9. ASSUME NEW q \in 1 .. n + w
      PROVE  all[q] = Xor(data[q], KeyAt(pat, c + (q - 1)))
  <2>1. CASE q <= n
    BY <1>1, <1>8, <2>1
  <2>2. CASE q > n
    <3>1. PICK j \in 1 .. w, y \in Nat : j = q - n /\ y = j - 1
      BY <2>2
    <3>2. q = n + j /\ (c + n) + y = c + (q - 1) /\ c + n \in Nat
      BY <3>1
    <3>3. all[q] = Xor(data[q], KeyAt(pat, v + y))
      <4>1. all[n + j] = x[j] /\ x[j] = Xor(l[j], key[j]) /\ l[j] = data[n + j]
        BY <1>3, <1>6, <1>8
      <4>2. key[j] = KeyAt(pat, v + (j - 1))
        BY <1>1
      <4>3. QED
        BY <3>1, <3>2, <4>1, <4>2
    <3>4. InStep(v + y, (c + n) + y, Len(pat))
      BY <3>2, Later DEF IsPattern
    <3>5. KeyAt(pat, v + y) = KeyAt(pat, (c + n) + y)
      BY <3>4, SameKey
    <3>6. QED
      BY <3>2, <3>3, <3>5
  <2>3. QED
    BY <2>1, <2>2
<1> QED  BY <1>7, <1>8, <1>9 DEF Met, all, x, l

LoopStates(U) == [at : Nat, bytes : Seq(SUBSET U)]

LEMMA XorRoundMeets ==
  ASSUME NEW U, NEW pat, IsPattern(pat, SUBSET U), NEW o \in Nat, NEW tile, TileOf(tile, pat, o, SUBSET U),
         NEW w \in Nat \ {0}, Divides(w, tile.len), NEW width \in Nat \ {0}, Divides(w, width),
         NEW c \in Nat, NEW data, IsData(data, U),
         NEW s \in LoopStates(U), NEW n \in Nat, Xoring(s, n, data, tile, pat, o, c, w, U)
  PROVE  LET r == Cook!XorRound(w, width, data, tile, s)
         IN  /\ n + width > Len(data) => r = s
             /\ n + width <= Len(data) =>
                  r \in LoopStates(U) /\ Xoring(r, n + width, data, tile, pat, o, c, w, U)
<1> DEFINE k == width \div w
           key == Cook!Loads(s.at, w, k, tile)
           piece == SubSeq(data, n + 1, n + width)
           r == Cook!XorRound(w, width, data, tile, s)
           i == Len(s.bytes)
<1>1. /\ Loadable(s.at, w, tile) /\ InStep(o + s.at, c + n, Len(pat))
      /\ Met(s.bytes, n, data, pat, c, U)
  BY DEF Xoring
<1>2. i = n
  BY <1>1 DEF Met
<1>3. k \in Nat /\ k * w = width
  <2>1. PICK x \in Nat : width = w * x
    BY DEF Divides
  <2>2. 0 \in 0 .. w - 1 /\ w * x + 0 = width
    BY <2>1
  <2>3. width \div w = x
    BY <2>2, ModUnique
  <2>4. QED
    BY <2>1, <2>3
<1>4. r = IF i + width > Len(data) THEN s
          ELSE [at |-> key.at, bytes |-> s.bytes \o XorBytes(SubSeq(data, i + 1, i + width), key.bytes)]
  BY Zenon, SameXorBytes DEF Cook!XorRound
<1> HIDE DEF k, r, i
<1>5. CASE n + width > Len(data)
  BY <1>2, <1>4, <1>5 DEF r, IsData
<1>6. CASE n + width <= Len(data)
  <2>1. Loading(key, k * w, tile, pat, o, s.at, w, SUBSET U)
    BY <1>1, <1>3, LoadsMeet
  <2> HIDE DEF key, piece
  <2>2. /\ Loadable(key.at, w, tile) /\ InStep(o + key.at, (o + s.at) + width, Len(pat))
        /\ Meets(key.bytes, width, pat, o + s.at, SUBSET U)
    BY <1>3, <2>1 DEF Loading
  <2>3. r = [at |-> key.at, bytes |-> s.bytes \o XorBytes(piece, key.bytes)]
    <3>1. ~ (n + width > Len(data))
      BY <1>6 DEF IsData
    <3>2. QED
      BY <1>2, <1>4, <3>1, Zenon DEF piece
  <2>4. s.at \in Nat /\ o + s.at \in Nat /\ c + n \in Nat /\ (c + n) + width = c + (n + width)
        /\ Len(pat) \in Nat \ {0}
    BY <1>1 DEF Loadable, IsPattern
  <2>5. Met(s.bytes \o XorBytes(piece, key.bytes), n + width, data, pat, c, U)
    BY <1>1, <1>6, <2>2, <2>4, PieceIsMet DEF piece
  <2>6. InStep((o + s.at) + width, (c + n) + width, Len(pat))
    BY <1>1, <2>4, Later
  <2>7. InStep(o + key.at, c + (n + width), Len(pat))
    BY <2>2, <2>4, <2>6, SameStep, Zenon
  <2>8. r.at = key.at /\ r.bytes = s.bytes \o XorBytes(piece, key.bytes) /\ r \in LoopStates(U)
    BY <2>2, <2>3, <2>5 DEF LoopStates, Loadable, Met
  <2>9. Xoring(r, n + width, data, tile, pat, o, c, w, U)
    BY <2>2, <2>5, <2>7, <2>8, Zenon DEF Xoring
  <2>10. ~ (n + width > Len(data))
    BY <1>6 DEF IsData
  <2>11. QED
    BY <2>8, <2>9, <2>10 DEF r
<1> QED  BY <1>5, <1>6 DEF IsData

\* Nothing as wide as a round is left behind a loop.
LEMMA XorLoopMeets ==
  ASSUME NEW U, NEW pat, IsPattern(pat, SUBSET U), NEW o \in Nat, NEW tile, TileOf(tile, pat, o, SUBSET U),
         NEW w \in Nat \ {0}, Divides(w, tile.len), NEW width \in Nat \ {0}, Divides(w, width),
         NEW c \in Nat, NEW data, IsData(data, U),
         NEW s \in LoopStates(U), NEW n \in Nat, n <= Len(data), Xoring(s, n, data, tile, pat, o, c, w, U)
  PROVE  LET r == Cook!XorLoop(w, width, data, tile, s)
         IN  /\ r \in LoopStates(U)
             /\ \E m \in Nat : /\ m <= Len(data) /\ m + width > Len(data)
                               /\ Xoring(r, m, data, tile, pat, o, c, w, U)
<1> DEFINE Ok(x, m) == Xoring(x, m, data, tile, pat, o, c, w, U)
           L == Len(data)
           rounds == (L - n) \div width
           Q == {x \in LoopStates(U) : \E m \in Nat : Ok(x, m)}
           Step(x) == Cook!XorRound(w, width, data, tile, x)
           G == [x \in Q |-> Step(x)]
           Body(f) == [k \in 0 .. rounds |-> IF k = 0 THEN s ELSE Step(f[k - 1])]
           round == CHOOSE f : f = Body(f)
<1>1. ASSUME NEW x \in LoopStates(U), NEW m \in Nat, Ok(x, m)
      PROVE  /\ m + width > L => Step(x) = x
             /\ m + width <= L => Step(x) \in LoopStates(U) /\ Ok(Step(x), m + width)
  BY <1>1, XorRoundMeets
<1>2. L \in Nat
  BY DEF IsData
<1>3. rounds \in Nat /\ L - n < rounds * width + width
  <2>1. PICK x \in Nat : x = L - n
    BY <1>2
  <2>2. PICK y \in Nat, z \in 0 .. width - 1 : y = x \div width /\ x = y * width + z
    BY DivMod
  <2>3. rounds = y
    BY <2>1, <2>2
  <2> HIDE DEF rounds
  <2>4. QED
    BY <2>1, <2>2, <2>3
<1>4. s \in Q
  OBVIOUS
<1>5. Cook!XorLoop(w, width, data, tile, s) = round[rounds]
  <2>1. Len(s.bytes) = n
    BY DEF Xoring, Met
  <2>2. QED
    BY <2>1, Zenon DEF Cook!XorLoop
<1> HIDE DEF Ok, Step, rounds
<1>6. G \in [Q -> Q]
  <2>1. ASSUME NEW x \in Q
        PROVE  Step(x) \in Q
    <3>1. PICK m \in Nat : Ok(x, m)
      OBVIOUS
    <3>2. CASE m + width > L
      BY <1>1, <3>1, <3>2
    <3>3. CASE m + width <= L
      <4>1. Step(x) \in LoopStates(U) /\ Ok(Step(x), m + width)
        BY <1>1, <3>1, <3>3
      <4>2. m + width \in Nat
        OBVIOUS
      <4>3. QED
        BY <4>1, <4>2
    <3>4. QED
      BY <1>2, <3>2, <3>3
  <2>2. QED
    BY <2>1
<1>7. PICK f \in [0 .. rounds -> Q] : f = [k \in 0 .. rounds |-> IF k = 0 THEN s ELSE G[f[k - 1]]]
  <2>1. rounds \in Nat
    BY <1>3
  <2> HIDE DEF G, Q, Body, round
  <2>2. QED
    BY ONLY <2>1, <1>4, <1>6, LoopExists, SMTT(40)
<1>8. f = Body(f)
  <2>1. \A k \in 0 .. rounds : k # 0 => k - 1 \in 0 .. rounds
    BY <1>3
  <2>2. \A k \in 0 .. rounds : k # 0 => G[f[k - 1]] = Step(f[k - 1])
    BY <2>1
  <2> HIDE DEF G, Q
  <2>3. QED
    BY <1>7, <2>2
<1>9. round = Body(round)
  <2> HIDE DEF Body
  <2> QED  BY <1>8, Zenon
<1> HIDE DEF round, G
<1>10. round[0] = s /\ \A k \in 1 .. rounds : round[k] = Step(round[k - 1])
  <2>1. 0 \in 0 .. rounds /\ \A k \in 1 .. rounds : k \in 0 .. rounds /\ k # 0
    BY <1>3
  <2>2. \A k \in 0 .. rounds : round[k] = IF k = 0 THEN s ELSE Step(round[k - 1])
    BY <1>9, Zenon
  <2>3. QED
    BY <2>1, <2>2, Zenon
<1> DEFINE Reached(k, m) == m <= L /\ (m + width > L \/ m >= n + k * width)
           T == {k \in 0 .. rounds : /\ round[k] \in LoopStates(U)
                                     /\ \E m \in Nat : Ok(round[k], m) /\ Reached(k, m)}
<1>11. 0 \in T
  <2>1. Reached(0, n)
    BY <1>2
  <2>2. Ok(s, n) /\ 0 \in 0 .. rounds
    BY <1>3 DEF Ok
  <2> HIDE DEF Reached
  <2>3. QED
    BY <1>10, <2>1, <2>2
<1>12. ASSUME NEW k \in 1 .. rounds, k - 1 \in T
       PROVE  k \in T
  <2>1. PICK m \in Nat : Ok(round[k - 1], m) /\ Reached(k - 1, m)
    BY <1>12
  <2>2. round[k - 1] \in LoopStates(U) /\ round[k] = Step(round[k - 1]) /\ k \in 0 .. rounds
    BY <1>3, <1>10, <1>12
  <2>3. n + (k - 1) * width + width = n + k * width
    BY <1>3
  <2>4. CASE m + width > L
    <3>1. round[k] = round[k - 1]
      BY <1>1, <2>1, <2>2, <2>4
    <3>2. Reached(k, m)
      BY <2>1, <2>4
    <3> HIDE DEF Reached
    <3>3. QED
      BY <2>1, <2>2, <3>1, <3>2
  <2>5. CASE m + width <= L
    <3>1. round[k] \in LoopStates(U) /\ Ok(round[k], m + width)
      BY <1>1, <2>1, <2>2, <2>5
    <3>2. Reached(k, m + width) /\ m + width \in Nat
      <4>1. m >= n + (k - 1) * width
        BY <1>2, <2>1, <2>5
      <4>2. k * width \in Nat /\ (k - 1) * width \in Nat
        BY <1>3
      <4>3. QED
        BY <2>3, <2>5, <4>1, <4>2
    <3> HIDE DEF Reached
    <3>3. QED
      BY <2>2, <3>1, <3>2
  <2>6. QED
    BY <1>2, <2>4, <2>5
<1>13. rounds \in T
  <2> HIDE DEF T
  <2> QED  BY <1>3, <1>11, <1>12, Climb
<1>14. PICK m \in Nat : Ok(round[rounds], m) /\ Reached(rounds, m)
  BY <1>13
<1>15. m <= L /\ m + width > L
  <2>1. rounds * width \in Nat
    BY <1>3
  <2>2. QED
    BY <1>2, <1>3, <1>14, <2>1
<1>16. round[rounds] \in LoopStates(U)
  BY <1>13
<1> QED  BY <1>5, <1>14, <1>15, <1>16 DEF Ok

\* The data with the repeated pattern from offset c on.
WithKey(data, pat, c) == [q \in 1 .. Len(data) |-> Xor(data[q], KeyAt(pat, c + (q - 1)))]

LEMMA AllIsMet ==
  ASSUME NEW U, NEW data, IsData(data, U), NEW pat, NEW c \in Nat, NEW b, Met(b, Len(data), data, pat, c, U)
  PROVE  b = WithKey(data, pat, c)
<1>1. b \in Seq(SUBSET U) /\ Len(b) = Len(data)
      /\ \A q \in 1 .. Len(data) : b[q] = Xor(data[q], KeyAt(pat, c + (q - 1)))
  BY DEF Met
<1>2. b = [q \in 1 .. Len(data) |-> b[q]]
  BY <1>1
<1> QED  BY <1>1, <1>2 DEF WithKey

LEMMA AnythingFits ==
  ASSUME NEW n \in Nat
  PROVE  Divides(1, n)
<1>1. n = 1 * n
  OBVIOUS
<1> QED  BY <1>1 DEF Divides

\* What the loops are given, and how far they got.
Prepared(tile, pat, o, c, data, U) ==
  /\ IsPattern(pat, SUBSET U) /\ o \in Nat /\ TileOf(tile, pat, o, SUBSET U)
  /\ c \in Nat /\ IsData(data, U)

Under(s, tile, pat, o, c, data, w, U) ==
  /\ s \in LoopStates(U)
  /\ \E n \in Nat : n <= Len(data) /\ Xoring(s, n, data, tile, pat, o, c, w, U)

LEMMA LoopGoesOn ==
  ASSUME NEW U, NEW pat, NEW o, NEW c, NEW tile, NEW data, Prepared(tile, pat, o, c, data, U),
         NEW w \in Nat \ {0}, Divides(w, tile.len), NEW k \in Nat \ {0},
         NEW s, Under(s, tile, pat, o, c, data, w, U)
  PROVE  Under(Cook!XorLoop(w, k * w, data, tile, s), tile, pat, o, c, data, w, U)
<1>1. PICK n \in Nat : n <= Len(data) /\ Xoring(s, n, data, tile, pat, o, c, w, U)
  BY DEF Under
<1>2. k * w \in Nat \ {0} /\ Divides(w, k * w)
  <2>1. k * w \in Nat /\ k * w # 0 /\ k * w = w * k
    OBVIOUS
  <2>2. QED
    BY <2>1 DEF Divides
<1>3. /\ IsPattern(pat, SUBSET U) /\ o \in Nat /\ TileOf(tile, pat, o, SUBSET U)
      /\ c \in Nat /\ IsData(data, U) /\ s \in LoopStates(U)
  BY DEF Prepared, Under
<1> DEFINE width == k * w
           r == Cook!XorLoop(w, width, data, tile, s)
<1> HIDE DEF width
<1>4. /\ r \in LoopStates(U)
      /\ \E m \in Nat : /\ m <= Len(data) /\ m + width > Len(data)
                        /\ Xoring(r, m, data, tile, pat, o, c, w, U)
  BY <1>1, <1>2, <1>3, XorLoopMeets DEF width
<1> HIDE DEF r
<1>5. Under(r, tile, pat, o, c, data, w, U)
  BY <1>4 DEF Under
<1> QED  BY <1>5 DEF r, width

\* The bytes that are left one by one.
LEMMA BytesFinish ==
  ASSUME NEW U, NEW pat, NEW o, NEW c, NEW tile, NEW data, Prepared(tile, pat, o, c, data, U),
         NEW w \in Nat \ {0}, NEW s, Under(s, tile, pat, o, c, data, w, U)
  PROVE  Cook!ByteByByte(data, tile, s) = WithKey(data, pat, c)
<1>1. PICK n \in Nat : n <= Len(data) /\ Xoring(s, n, data, tile, pat, o, c, w, U)
  BY DEF Under
<1>2. /\ IsPattern(pat, SUBSET U) /\ o \in Nat /\ TileOf(tile, pat, o, SUBSET U)
      /\ c \in Nat /\ IsData(data, U) /\ s \in LoopStates(U)
  BY DEF Prepared, Under
<1>3. Xoring(s, n, data, tile, pat, o, c, 1, U)
  BY <1>1, AnythingFits DEF Xoring, Loadable
<1>4. Divides(1, tile.len) /\ Divides(1, 1)
  BY <1>2, AnythingFits DEF TileOf
<1> DEFINE r == Cook!XorLoop(1, 1, data, tile, s)
<1>5. \E m \in Nat : /\ m <= Len(data) /\ m + 1 > Len(data)
                     /\ Xoring(r, m, data, tile, pat, o, c, 1, U)
  <2>1. 1 \in Nat \ {0}
    OBVIOUS
  <2>2. QED
    BY <1>1, <1>2, <1>3, <1>4, <2>1, XorLoopMeets
<1> HIDE DEF r
<1>6. PICK m \in Nat : /\ m <= Len(data) /\ m + 1 > Len(data)
                       /\ Xoring(r, m, data, tile, pat, o, c, 1, U)
  BY <1>5
<1>7. m = Len(data)
  BY <1>2, <1>6 DEF IsData
<1>8. r.bytes = WithKey(data, pat, c)
  BY <1>2, <1>6, <1>7, AllIsMet DEF Xoring
<1> QED  BY <1>8 DEF Cook!ByteByByte, r

\* From offset t of the tile on.
LEMMA StartsInStep ==
  ASSUME NEW U, NEW pat, NEW o, NEW c, NEW tile, NEW data, Prepared(tile, pat, o, c, data, U),
         NEW w \in Nat \ {0}, NEW t, Loadable(t, w, tile), InStep(o + t, c, Len(pat))
  PROVE  Under([at |-> t, bytes |-> << >>], tile, pat, o, c, data, w, U)
<1> DEFINE s == [at |-> t, bytes |-> << >>]
<1>1. s.at = t /\ s.bytes = << >> /\ s \in LoopStates(U)
  BY DEF LoopStates, Loadable
<1> HIDE DEF s
<1>2. c + 0 = c /\ Len(data) \in Nat
  BY DEF Prepared, IsData
<1>3. Met(<< >>, 0, data, pat, c, U)
  BY DEF Met
<1>4. Xoring(s, 0, data, tile, pat, o, c, w, U)
  BY <1>1, <1>2, <1>3 DEF Xoring
<1>5. 0 \in Nat /\ 0 <= Len(data)
  BY <1>2
<1> QED  BY <1>1, <1>4, <1>5 DEF Under, s

LEMMA HeadIsInStep ==
  ASSUME NEW U, NEW pat, NEW o, NEW c, NEW tile, NEW data, Prepared(tile, pat, o, c, data, U),
         NEW w \in Nat \ {0}, InStep(o, c, Len(pat))
  PROVE  Under(Cook!AtHead, tile, pat, o, c, data, w, U)
<1>1. 0 = w * 0 /\ o + 0 = o
  BY DEF Prepared
<1>2. Loadable(0, w, tile)
  BY <1>1 DEF Loadable, Divides, Prepared, TileOf
<1> QED  BY <1>1, <1>2, StartsInStep DEF Cook!AtHead

\* However wide the loops are, the data meets the pattern.
LEMMA XorTileMeets ==
  ASSUME NEW U, NEW pat, NEW o, NEW c, NEW tile, NEW data, Prepared(tile, pat, o, c, data, U),
         NEW vec \in Nat \ {0}, Divides(vec, tile.len), InStep(o, c, Len(pat))
  PROVE  /\ Cook!xor_tile(vec, data, tile) = WithKey(data, pat, c)
         /\ Cook!xor_tile_avx2(vec, data, tile) = WithKey(data, pat, c)
         /\ Cook!xor_tile_avx512(vec, data, tile) = WithKey(data, pat, c)
         /\ Cook!xor_tile_spe(vec, data, tile) = WithKey(data, pat, c)
<1> DEFINE Ok(s) == Under(s, tile, pat, o, c, data, vec, U)
           Wide(k, s) == Cook!XorLoop(vec, k * vec, data, tile, s)
           Narrow(s) == Cook!XorLoop(vec, vec, data, tile, s)
           all == WithKey(data, pat, c)
<1>1. Ok(Cook!AtHead)
  BY HeadIsInStep
<1>2. ASSUME NEW s, Ok(s)
      PROVE  Ok(Wide(2, s)) /\ Ok(Wide(4, s)) /\ Ok(Narrow(s))
  <2>1. Ok(Wide(2, s))
    <3>1. 2 \in Nat \ {0}
      OBVIOUS
    <3>2. QED
      BY <1>2, <3>1, LoopGoesOn
  <2>2. Ok(Wide(4, s))
    <3>1. 4 \in Nat \ {0}
      OBVIOUS
    <3>2. QED
      BY <1>2, <3>1, LoopGoesOn
  <2>3. Ok(Wide(1, s))
    <3>1. 1 \in Nat \ {0}
      OBVIOUS
    <3>2. QED
      BY <1>2, <3>1, LoopGoesOn
  <2>4. 1 * vec = vec
    OBVIOUS
  <2>5. QED
    BY <2>1, <2>2, <2>3, <2>4
<1>3. ASSUME NEW s, Ok(s)
      PROVE  Cook!ByteByByte(data, tile, s) = all
  BY <1>3, BytesFinish
<1>4. Cook!xor_tile(vec, data, tile) = Cook!ByteByByte(data, tile, Narrow(Cook!AtHead))
  BY Zenon DEF Cook!xor_tile
<1>5. Cook!xor_tile_avx2(vec, data, tile) = Cook!ByteByByte(data, tile, Narrow(Wide(2, Cook!AtHead)))
  BY Zenon DEF Cook!xor_tile_avx2
<1>6. Cook!xor_tile_avx512(vec, data, tile)
        = Cook!ByteByByte(data, tile, Narrow(Wide(2, Wide(4, Cook!AtHead))))
  BY Zenon DEF Cook!xor_tile_avx512
<1>7. Cook!xor_tile_spe(vec, data, tile) = Cook!ByteByByte(data, tile, Narrow(Wide(4, Cook!AtHead)))
  BY Zenon DEF Cook!xor_tile_spe
<1> HIDE DEF Ok, Wide, Narrow, all
<1>8. Ok(Narrow(Cook!AtHead)) /\ Ok(Narrow(Wide(2, Cook!AtHead))) /\ Ok(Narrow(Wide(4, Cook!AtHead)))
      /\ Ok(Narrow(Wide(2, Wide(4, Cook!AtHead))))
  BY <1>1, <1>2, Zenon
<1>9. /\ Cook!xor_tile(vec, data, tile) = all /\ Cook!xor_tile_avx2(vec, data, tile) = all
      /\ Cook!xor_tile_avx512(vec, data, tile) = all /\ Cook!xor_tile_spe(vec, data, tile) = all
  BY <1>3, <1>4, <1>5, <1>6, <1>7, <1>8, Zenon
<1> QED  BY <1>9, Zenon DEF all

\* The tile that is made of a pattern, with its padding.
LEMMA TileIsMade ==
  ASSUME NEW S, NEW pat, IsPattern(pat, S), NEW vec \in Nat \ {0}
  PROVE  LET tile == Cook!Tile(pat, vec)
         IN  /\ TileOf(tile, pat, 0, S) /\ Divides(vec, tile.len) /\ vec <= tile.len
             /\ tile.len = Cook!TileLength(Len(pat), vec)
<1> DEFINE len == Cook!TileLength(Len(pat), vec)
           bare == Cook!expand_tile(len, pat)
           padding == SubSeq(bare, 1, vec)
           bytes == bare \o padding
           tile == Cook!Tile(pat, vec)
<1>1. tile = [len |-> len, bytes |-> bytes]
  BY Zenon DEF Cook!Tile
<1>2. /\ len \in Nat \ {0} /\ Divides(Len(pat), len) /\ Divides(vec, len)
      /\ len >= Len(pat) /\ len >= vec
  BY TileLengthIs DEF IsPattern
<1> HIDE DEF len
<1>3. Filling(bare, pat, len, S) /\ Len(bare) = len
  BY <1>2, TileIsPattern
<1> HIDE DEF bare
<1>4. bare \in Seq(S) /\ \A i \in 1 .. len : bare[i] = KeyAt(pat, i - 1)
  BY <1>3 DEF Filling
<1>5. padding \in Seq(S)
  BY <1>2, <1>3, <1>4
<1> HIDE DEF padding
<1>6. bytes \in Seq(S) /\ IsConcatenation(bytes, bare, padding)
  BY <1>4, <1>5, Concatenation
<1> HIDE DEF bytes, tile
<1>7. Len(bytes) >= len /\ \A i \in 1 .. len : bytes[i] = bare[i]
  BY <1>2, <1>3, <1>6 DEF IsConcatenation
<1>8. \A i \in 1 .. len : bytes[i] = KeyAt(pat, 0 + (i - 1))
  <2>1. \A i \in 1 .. len : 0 + (i - 1) = i - 1
    BY <1>2
  <2>2. QED
    BY <1>4, <1>7, <2>1
<1>9. tile.len = len /\ tile.bytes = bytes
  BY <1>1
<1>10. TileOf(tile, pat, 0, S)
  BY <1>2, <1>6, <1>7, <1>8, <1>9 DEF TileOf
<1> QED  BY <1>2, <1>9, <1>10 DEF tile, len

\* Turned by t, the tile starts t bytes into the pattern.
LEMMA RotatedMeets ==
  ASSUME NEW S, NEW pat, IsPattern(pat, S), NEW vec \in Nat \ {0},
         NEW tile, tile = Cook!Tile(pat, vec), NEW t \in Nat, t < tile.len
  PROVE  LET r == Cook!Rotated(vec, tile, t)
         IN  TileOf(r, pat, t, S) /\ r.len = tile.len
<1> DEFINE b == tile.bytes
           len == tile.len
           front == SubSeq(b, t + 1, len)
           back == SubSeq(b, 1, t)
           turned == front \o back
           padding == SubSeq(turned, 1, vec)
           bytes == turned \o padding
           r == Cook!Rotated(vec, tile, t)
           made == Cook!Tile(pat, vec)
<1>1. tile = [len |-> len, bytes |-> b]
  <2>1. made = [len |-> made.len, bytes |-> made.bytes]
    BY DEF Cook!Tile
  <2>2. QED
    BY <2>1
<1>2. TileOf(tile, pat, 0, S) /\ vec <= len
  BY TileIsMade
<1>3. /\ b \in Seq(S) /\ Len(b) >= len /\ len \in Nat \ {0} /\ Divides(Len(pat), len)
      /\ \A i \in 1 .. len : b[i] = KeyAt(pat, 0 + (i - 1))
  BY <1>2 DEF TileOf
<1>4. r = [tile EXCEPT !.bytes = bytes]
  BY Zenon DEF Cook!Rotated
<1> HIDE DEF r, bytes, made
<1>5. r.len = len /\ r.bytes = bytes
  BY <1>1, <1>4
<1>6. t < len
  OBVIOUS
<1> HIDE DEF b, len, front, back, turned, padding
<1>7. front \in Seq(S) /\ IsPiece(front, b, t, len)
  <2>1. t <= len /\ len \in Nat
    BY <1>3, <1>6
  <2>2. QED
    BY <1>3, <2>1, Piece DEF front
<1>8. back \in Seq(S) /\ IsPiece(back, b, 0, t)
  <2>1. 0 <= t /\ t <= Len(b) /\ 0 + 1 = 1 /\ 0 \in Nat
    BY <1>3, <1>6
  <2>2. SubSeq(b, 0 + 1, t) \in Seq(S) /\ IsPiece(SubSeq(b, 0 + 1, t), b, 0, t)
    BY <1>3, <2>1, Piece
  <2>3. QED
    BY <2>1, <2>2 DEF back
<1>9. turned \in Seq(S) /\ IsConcatenation(turned, front, back)
  BY <1>7, <1>8, Concatenation DEF turned
<1>10. /\ Len(front) = len - t /\ \A i \in 1 .. len - t : front[i] = b[t + i]
  BY <1>7 DEF IsPiece
<1>11. Len(back) = t /\ \A i \in 1 .. t : back[i] = b[i]
  <2>1. t - 0 = t /\ \A i \in 1 .. t : 0 + i = i
    OBVIOUS
  <2>2. QED
    BY <1>8, <2>1 DEF IsPiece
<1>12. Len(turned) = len
  BY <1>3, <1>9, <1>10, <1>11 DEF IsConcatenation
<1>13. padding \in Seq(S)
  BY <1>2, <1>3, <1>9, <1>12 DEF padding
<1>14. bytes \in Seq(S) /\ IsConcatenation(bytes, turned, padding)
  BY <1>9, <1>13, Concatenation DEF bytes
<1>15. Len(bytes) >= len /\ \A i \in 1 .. len : bytes[i] = turned[i]
  BY <1>3, <1>12, <1>14 DEF IsConcatenation
<1>16. ASSUME NEW i \in 1 .. len
       PROVE  turned[i] = KeyAt(pat, t + (i - 1))
  <2>1. CASE i <= len - t
    <3>1. i \in 1 .. len - t /\ t + i \in 1 .. len /\ 0 + ((t + i) - 1) = t + (i - 1)
      BY <1>3, <1>6, <2>1
    <3>2. turned[i] = front[i]
      BY <1>9, <1>10, <3>1 DEF IsConcatenation
    <3>3. b[t + i] = KeyAt(pat, 0 + ((t + i) - 1))
      BY <1>3, <3>1
    <3>4. QED
      BY <1>10, <3>1, <3>2, <3>3
  <2>2. CASE i > len - t
    <3>1. PICK j \in 1 .. t, y \in Nat : j = i - (len - t) /\ y = j - 1
      BY <1>3, <1>6, <2>2
    <3>2. i = (len - t) + j /\ len + y = t + (i - 1) /\ j \in 1 .. len /\ 0 + (j - 1) = y
      BY <1>3, <1>6, <3>1
    <3>3. turned[i] = back[j]
      BY <1>9, <1>10, <1>11, <3>2 DEF IsConcatenation
    <3>4. b[j] = KeyAt(pat, y)
      BY <1>3, <3>2
    <3>5. InStep(len + y, y, Len(pat))
      BY <1>3, WholePeriods DEF IsPattern
    <3>6. KeyAt(pat, len + y) = KeyAt(pat, y)
      BY <3>5, SameKey
    <3>7. QED
      BY <1>11, <3>2, <3>3, <3>4, <3>6
  <2>3. QED
    BY <1>3, <2>1, <2>2
<1>17. TileOf(r, pat, t, S)
  BY <1>3, <1>5, <1>14, <1>15, <1>16 DEF TileOf
<1> QED  BY <1>5, <1>17 DEF r, len

LEMMA XorIsData ==
  ASSUME NEW U, NEW data, IsData(data, U), NEW pat, IsPattern(pat, SUBSET U), NEW c \in Nat
  PROVE  Met(WithKey(data, pat, c), Len(data), data, pat, c, U)
<1>1. Len(data) \in Nat /\ data \in Seq(SUBSET U)
  BY DEF IsData
<1>2. ASSUME NEW q \in 1 .. Len(data)
      PROVE  Xor(data[q], KeyAt(pat, c + (q - 1))) \in SUBSET U
  <2>1. data[q] \in SUBSET U /\ c + (q - 1) \in Nat
    BY <1>1
  <2>2. KeyAt(pat, c + (q - 1)) \in SUBSET U
    BY <2>1, KeyIsInPattern
  <2>3. QED
    BY <2>1, <2>2, XorIsIn
<1> QED  BY <1>1, <1>2 DEF WithKey, Met

\* Two parts one behind the other.
LEMMA PartsWithKey ==
  ASSUME NEW U, NEW data, IsData(data, U), NEW pat, IsPattern(pat, SUBSET U),
         NEW h \in Nat, h <= Len(data)
  PROVE  LET head == SubSeq(data, 1, h)
             rest == SubSeq(data, h + 1, Len(data))
         IN  /\ IsData(head, U) /\ IsData(rest, U)
             /\ WithKey(head, pat, 0) \o WithKey(rest, pat, h) = WithKey(data, pat, 0)
<1> DEFINE n == Len(data)
           head == SubSeq(data, 1, h)
           rest == SubSeq(data, h + 1, n)
           a == WithKey(head, pat, 0)
           b == WithKey(rest, pat, h)
           both == a \o b
<1>1. n \in Nat /\ data \in Seq(SUBSET U) /\ h <= n
  BY DEF IsData
<1>2. head \in Seq(SUBSET U) /\ IsPiece(head, data, 0, h)
  <2>1. 0 <= h /\ 0 + 1 = 1 /\ 0 \in Nat
    OBVIOUS
  <2> HIDE DEF n
  <2>2. SubSeq(data, 0 + 1, h) \in Seq(SUBSET U) /\ IsPiece(SubSeq(data, 0 + 1, h), data, 0, h)
    BY <1>1, <2>1, Piece DEF n
  <2>3. QED
    BY <2>1, <2>2
<1>3. rest \in Seq(SUBSET U) /\ IsPiece(rest, data, h, n)
  BY <1>1, Piece
<1> HIDE DEF n, head, rest
<1>4. Len(head) = h /\ \A i \in 1 .. h : head[i] = data[i]
  <2>1. h - 0 = h /\ \A i \in 1 .. h : 0 + i = i
    OBVIOUS
  <2>2. QED
    BY <1>2, <2>1 DEF IsPiece
<1>5. Len(rest) = n - h /\ \A i \in 1 .. n - h : rest[i] = data[h + i]
  BY <1>3 DEF IsPiece
<1>6. IsData(head, U) /\ IsData(rest, U)
  BY <1>2, <1>3 DEF IsData
<1>7. /\ a \in Seq(SUBSET U) /\ Len(a) = h
      /\ \A q \in 1 .. h : a[q] = Xor(data[q], KeyAt(pat, 0 + (q - 1)))
  <2>1. Met(a, Len(head), head, pat, 0, U)
    BY <1>6, XorIsData
  <2> HIDE DEF a
  <2>2. \A q \in 1 .. h : Xor(head[q], KeyAt(pat, 0 + (q - 1))) = Xor(data[q], KeyAt(pat, 0 + (q - 1)))
    BY <1>4
  <2>3. QED
    BY <1>4, <2>1, <2>2 DEF Met
<1>8. /\ b \in Seq(SUBSET U) /\ Len(b) = n - h
      /\ \A q \in 1 .. n - h : b[q] = Xor(data[h + q], KeyAt(pat, h + (q - 1)))
  <2>1. Met(b, Len(rest), rest, pat, h, U)
    BY <1>6, XorIsData
  <2> HIDE DEF b
  <2>2. \A q \in 1 .. n - h : Xor(rest[q], KeyAt(pat, h + (q - 1))) = Xor(data[h + q], KeyAt(pat, h + (q - 1)))
    BY <1>5
  <2>3. QED
    BY <1>5, <2>1, <2>2 DEF Met
<1> HIDE DEF a, b
<1>9. both \in Seq(SUBSET U) /\ IsConcatenation(both, a, b)
  BY <1>7, <1>8, Concatenation
<1> HIDE DEF both
<1>10. /\ Len(both) = n
       /\ \A i \in 1 .. h : both[i] = a[i]
       /\ \A i \in 1 .. n - h : both[h + i] = b[i]
  BY <1>1, <1>7, <1>8, <1>9 DEF IsConcatenation
<1>11. ASSUME NEW q \in 1 .. n
       PROVE  both[q] = Xor(data[q], KeyAt(pat, 0 + (q - 1)))
  <2>1. CASE q <= h
    BY <1>7, <1>10, <2>1
  <2>2. CASE q > h
    <3>1. PICK j \in 1 .. n - h : j = q - h
      BY <1>1, <2>2
    <3>2. q = h + j /\ h + (j - 1) = 0 + (q - 1)
      BY <3>1
    <3>3. both[h + j] = b[j] /\ b[j] = Xor(data[h + j], KeyAt(pat, h + (j - 1)))
      BY <1>8, <1>10
    <3>4. QED
      BY <3>2, <3>3
  <2>3. QED
    BY <1>1, <2>1, <2>2
<1>12. Met(both, Len(data), data, pat, 0, U)
  BY <1>9, <1>10, <1>11 DEF Met, n
<1>13. both = WithKey(data, pat, 0)
  BY <1>12, AllIsMet
<1> QED  BY <1>6, <1>13 DEF both, a, b, head, rest, n

\* Wherever the buffer starts, the data meets the pattern.
LEMMA XorAlignedMeets ==
  ASSUME NEW U, NEW pat, IsPattern(pat, SUBSET U), NEW data, IsData(data, U), NEW vec \in Nat \ {0},
         NEW misaligned \in Nat
  PROVE  Cook!xor_tile_aligned(vec, data, Cook!Tile(pat, vec), misaligned) = WithKey(data, pat, 0)
<1> DEFINE tile == Cook!Tile(pat, vec)
           head == IF misaligned > Len(data) THEN Len(data) ELSE misaligned
           t == head % tile.len
           first == SubSeq(data, 1, head)
           rest == SubSeq(data, head + 1, Len(data))
           wide == Len(rest) >= vec
           bare == Cook!ByteByByte(first, tile, Cook!AtHead)
           tail == CASE wide /\ t # 0 -> Cook!xor_tile_spe(vec, rest, Cook!Rotated(vec, tile, t))
                     [] wide /\ t = 0 -> Cook!xor_tile_spe(vec, rest, tile)
                     [] OTHER -> Cook!ByteByByte(rest, tile, [Cook!AtHead EXCEPT !.at = t])
           r == Cook!xor_tile_aligned(vec, data, tile, misaligned)
<1>1. r = bare \o tail
  BY Zenon DEF Cook!xor_tile_aligned
<1>2. head \in Nat /\ head <= Len(data)
  BY DEF IsData
<1>3. /\ TileOf(tile, pat, 0, SUBSET U) /\ Divides(vec, tile.len)
      /\ tile.len \in Nat \ {0} /\ Divides(Len(pat), tile.len) /\ Len(pat) \in Nat \ {0}
  BY TileIsMade DEF TileOf, IsPattern
<1> HIDE DEF tile, head, r, bare, tail, wide
<1>4. t \in Nat /\ t < tile.len /\ InStep(t, head, Len(pat))
  <2>1. PICK q \in Nat : t \in 0 .. tile.len - 1 /\ head = tile.len * q + t
    BY <1>2, <1>3, DivMod
  <2>2. PICK k \in Nat : tile.len = Len(pat) * k
    BY <1>3 DEF Divides
  <2> HIDE DEF t
  <2>3. PICK m \in Nat : m = k * q
    OBVIOUS
  <2>4. head = Len(pat) * m + t
    <3>1. (Len(pat) * k) * q = Len(pat) * (k * q)
      BY <1>3
    <3>2. QED
      BY <2>1, <2>2, <2>3, <3>1
  <2>5. t \in Nat /\ t < tile.len
    BY <1>3, <2>1
  <2>6. (Len(pat) * m + t) % Len(pat) = t % Len(pat)
    BY <1>3, <2>5, ModPeriod
  <2>7. QED
    BY <2>4, <2>5, <2>6 DEF InStep
<1> HIDE DEF t
<1>5. /\ IsData(first, U) /\ IsData(rest, U)
      /\ WithKey(first, pat, 0) \o WithKey(rest, pat, head) = WithKey(data, pat, 0)
  BY <1>2, PartsWithKey
<1> HIDE DEF first, rest
<1>6. bare = WithKey(first, pat, 0)
  <2>1. Prepared(tile, pat, 0, 0, first, U) /\ InStep(0, 0, Len(pat)) /\ 1 \in Nat \ {0}
    BY <1>3, <1>5 DEF Prepared, InStep
  <2>2. Under(Cook!AtHead, tile, pat, 0, 0, first, 1, U)
    BY <2>1, HeadIsInStep
  <2>3. QED
    BY <2>1, <2>2, BytesFinish DEF bare
<1>7. Prepared(tile, pat, 0, head, rest, U)
  BY <1>2, <1>3, <1>5 DEF Prepared
<1>8. tail = WithKey(rest, pat, head)
  <2>1. CASE wide /\ t # 0
    <3> DEFINE turned == Cook!Rotated(vec, tile, t)
    <3>1. tail = Cook!xor_tile_spe(vec, rest, turned)
      <4> HIDE DEF turned
      <4>1. QED
        BY <2>1, Zenon DEF tail, turned
    <3>2. TileOf(turned, pat, t, SUBSET U) /\ turned.len = tile.len
      BY <1>4, RotatedMeets DEF tile
    <3> HIDE DEF turned
    <3>3. Prepared(turned, pat, t, head, rest, U) /\ Divides(vec, turned.len)
      BY <1>3, <1>4, <1>7, <3>2 DEF Prepared
    <3>4. QED
      BY <1>4, <3>1, <3>3, XorTileMeets
  <2>2. CASE wide /\ t = 0
    <3>1. tail = Cook!xor_tile_spe(vec, rest, tile)
      BY <2>2 DEF tail
    <3>2. InStep(0, head, Len(pat))
      BY <1>4, <2>2
    <3>3. QED
      BY <1>3, <1>7, <3>1, <3>2, XorTileMeets
  <2>3. CASE ~ wide
    <3>1. tail = Cook!ByteByByte(rest, tile, [Cook!AtHead EXCEPT !.at = t])
      BY <2>3 DEF tail
    <3>2. [Cook!AtHead EXCEPT !.at = t] = [at |-> t, bytes |-> << >>]
      BY DEF Cook!AtHead
    <3>3. Loadable(t, 1, tile) /\ 0 + t = t /\ 1 \in Nat \ {0}
      BY <1>4, AnythingFits DEF Loadable
    <3> DEFINE s == [at |-> t, bytes |-> << >>]
    <3>4. Under(s, tile, pat, 0, head, rest, 1, U)
      BY <1>4, <1>7, <3>3, StartsInStep
    <3> HIDE DEF s
    <3>5. Cook!ByteByByte(rest, tile, s) = WithKey(rest, pat, head)
      BY <1>7, <3>3, <3>4, BytesFinish
    <3>6. QED
      BY <3>1, <3>2, <3>5, Zenon DEF s
  <2>4. QED
    BY <2>1, <2>2, <2>3
<1> QED  BY <1>1, <1>5, <1>6, <1>8 DEF r, tile

LEMMA SpreadFollows ==
  ASSUME NEW n \in Nat, NEW p \in Nat \ {0}
  PROVE  MeetThePattern(n, p)
<1> DEFINE data == [i \in 1 .. n |-> {}]
           pat  == [j \in 1 .. p |-> {j}]
           met  == [i \in 1 .. n |-> pat[((i - 1) % p) + 1]]
<1>1. IsData(data, Nat) /\ Len(data) = n /\ \A i \in 1 .. n : data[i] = {}
  BY DEF IsData
<1>2. IsPattern(pat, SUBSET Nat) /\ Len(pat) = p
  BY DEF IsPattern
<1> HIDE DEF data, pat
<1>3. WithKey(data, pat, 0) = met
  <2>1. \A x : Xor({}, x) = x
    BY DEF Xor
  <2>2. \A i \in 1 .. n : 0 + (i - 1) = i - 1
    OBVIOUS
  <2>3. \A i \in 1 .. n : Xor(data[i], KeyAt(pat, 0 + (i - 1))) = pat[((i - 1) % p) + 1]
    BY <1>1, <1>2, <2>1, <2>2, Zenon DEF KeyAt
  <2>4. QED
    BY <1>1, <2>3 DEF WithKey
<1> HIDE DEF met
<1>4. ASSUME NEW vec \in Nat \ {0}
      PROVE  /\ Cook!xor_tile(vec, data, Cook!Tile(pat, vec)) = met
             /\ Cook!xor_tile_avx2(vec, data, Cook!Tile(pat, vec)) = met
             /\ Cook!xor_tile_avx512(vec, data, Cook!Tile(pat, vec)) = met
             /\ \A head \in 0 .. 7 :
                  Cook!xor_tile_aligned(vec, data, Cook!Tile(pat, vec), head) = met
  <2> DEFINE tile == Cook!Tile(pat, vec)
  <2>1. TileOf(tile, pat, 0, SUBSET Nat) /\ Divides(vec, tile.len)
    BY <1>2, TileIsMade
  <2> HIDE DEF tile
  <2>2. Prepared(tile, pat, 0, 0, data, Nat) /\ InStep(0, 0, Len(pat))
    BY <1>1, <1>2, <2>1 DEF Prepared, InStep
  <2>3. /\ Cook!xor_tile(vec, data, tile) = met
        /\ Cook!xor_tile_avx2(vec, data, tile) = met
        /\ Cook!xor_tile_avx512(vec, data, tile) = met
    BY <1>3, <2>1, <2>2, XorTileMeets
  <2>4. ASSUME NEW head \in 0 .. 7
        PROVE  Cook!xor_tile_aligned(vec, data, tile, head) = met
    <3>1. head \in Nat
      OBVIOUS
    <3>2. QED
      BY <1>1, <1>2, <1>3, <3>1, XorAlignedMeets DEF tile
  <2>5. QED
    BY <2>3, <2>4, Zenon DEF tile
<1>5. 16 \in Nat \ {0} /\ 4 \in Nat \ {0} /\ 8 \in Nat \ {0}
  OBVIOUS
<1>6. /\ Cook!xor_tile(16, data, Cook!Tile(pat, 16)) = met
      /\ Cook!xor_tile_avx2(16, data, Cook!Tile(pat, 16)) = met
      /\ Cook!xor_tile_avx512(16, data, Cook!Tile(pat, 16)) = met
      /\ Cook!xor_tile(4, data, Cook!Tile(pat, 4)) = met
      /\ \A head \in 0 .. 7 : Cook!xor_tile_aligned(8, data, Cook!Tile(pat, 8), head) = met
  BY <1>4, <1>5, Zenon
<1> QED  BY <1>6, Zenon DEF MeetThePattern, data, pat, met

LEMMA KeyFits ==
  ASSUME NEW n \in 1 .. 999
  PROVE  TilesFit(n)
<1> SUFFICES ASSUME NEW vec \in {4, 8, 16}
             PROVE  /\ Cook!TileLength(n, vec) + vec <= 16000
                    /\ n \in 4 .. 32 => Cook!TileLength(n, vec) <= 512
  BY DEF TilesFit
<1> DEFINE len == Cook!TileLength(n, vec)
<1>1. n \in Nat \ {0} /\ vec \in Nat \ {0}
  OBVIOUS
<1>2. len \in Nat /\ len <= n * vec
  BY <1>1, TileLengthIs
<1> HIDE DEF len
<1>3. len <= n * 16 /\ vec <= 16
  BY <1>2
<1>4. len + vec <= 16000 /\ (n \in 4 .. 32 => len <= 512)
  BY <1>2, <1>3
<1> QED  BY <1>4 DEF len

\* Whatever the lengths, each byte of a datagram meets its byte of the repeated
\* pattern, and every key has a tile that fits.
THEOREM XorFollows == Spec => []XorFollowsThePattern
<1>1. ASSUME InputOK
      PROVE  XorFollowsThePattern
  <2>1. ASSUME input.kind = "xor"
        PROVE  input.args.data \in Nat /\ input.args.pat \in Nat \ {0}
    <3>1. input.args.data \in DataLens /\ input.args.pat \in PatternLens
      BY <1>1, <2>1, Zenon DEF InputOK
    <3>2. DataLens \subseteq Nat /\ PatternLens \subseteq Nat \ {0}
      BY ONLY InputsAssumption, Zenon
    <3>3. QED
      BY ONLY <3>1, <3>2, Zenon
  <2>2. ASSUME input.kind = "key"
        PROVE  input.args \in 1 .. 999
    <3>1. input.args \in KeyLens
      BY <1>1, <2>2, Zenon DEF InputOK
    <3> DEFINE lens == 1 .. 999
    <3>2. KeyLens \subseteq lens
      BY ONLY InputsAssumption, ZenonT(60)
    <3> HIDE DEF lens
    <3>3. input.args \in lens
      BY ONLY <3>1, <3>2, Zenon
    <3>4. QED
      BY <3>3 DEF lens
  <2>3. input.kind = "xor" => MeetThePattern(input.args.data, input.args.pat)
    BY <2>1, SpreadFollows
  <2>4. input.kind = "key" => TilesFit(input.args)
    BY <2>2, KeyFits
  <2>5. QED
    BY <2>3, <2>4 DEF XorFollowsThePattern
<1>2. InputOK => XorFollowsThePattern
  BY <1>1
<1> QED  BY <1>2, InputsAreGiven, PTL

-----------------------------------------------------------------------------
(* Cooking *)

\* What has met the pattern twice is what it was.
LEMMA TwiceIsNothing ==
  ASSUME NEW U, NEW data, IsData(data, U), NEW pat, IsPattern(pat, SUBSET U)
  PROVE  /\ IsData(WithKey(data, pat, 0), U) /\ Len(WithKey(data, pat, 0)) = Len(data)
         /\ WithKey(WithKey(data, pat, 0), pat, 0) = data
<1> DEFINE a == WithKey(data, pat, 0)
           b == WithKey(a, pat, 0)
           n == Len(data)
<1>1. Met(a, n, data, pat, 0, U)
  BY XorIsData
<1> HIDE DEF a
<1>2. IsData(a, U) /\ Len(a) = n
  BY <1>1 DEF Met, IsData
<1>3. Met(b, n, a, pat, 0, U)
  BY <1>2, XorIsData
<1> HIDE DEF b, n
<1>4. \A q \in 1 .. n : b[q] = Xor(Xor(data[q], KeyAt(pat, 0 + (q - 1))), KeyAt(pat, 0 + (q - 1)))
  BY <1>1, <1>3 DEF Met
<1>5. \A x, k : Xor(Xor(x, k), k) = x
  BY DEF Xor
<1>6. \A q \in 1 .. n : b[q] = data[q]
  BY <1>4, <1>5, Zenon
<1>7. b \in Seq(SUBSET U) /\ data \in Seq(SUBSET U) /\ Len(b) = Len(data)
  BY <1>3 DEF Met, IsData, n
<1>8. b = data
  BY <1>6, <1>7, SameSequence DEF n
<1> QED  BY <1>2, <1>8 DEF a, b, n

\* A datagram, the key or the initial vector.
IsText(d) == d \in Seq(Byte) /\ Len(d) \in Nat

LEMMA TextIsData ==
  ASSUME NEW d
  PROVE  /\ IsText(d) => IsData(d, 0 .. 7)
         /\ IsData(d, 0 .. 7) => IsText(d)
         /\ IsText(d) /\ d # << >> => IsPattern(d, SUBSET (0 .. 7))
BY DEF IsText, IsData, IsPattern, Byte

LEMMA XorWithTile ==
  ASSUME NEW data, IsText(data), NEW pat, IsText(pat), pat # << >>
  PROVE  /\ Cook!xor_tile(16, data, Cook!Tile(pat, 16)) = WithKey(data, pat, 0)
         /\ IsText(WithKey(data, pat, 0)) /\ Len(WithKey(data, pat, 0)) = Len(data)
         /\ WithKey(WithKey(data, pat, 0), pat, 0) = data
<1> DEFINE U == 0 .. 7
           tile == Cook!Tile(pat, 16)
<1>1. IsData(data, U) /\ IsPattern(pat, SUBSET U)
  BY TextIsData
<1> HIDE DEF U
<1>2. 16 \in Nat \ {0}
  OBVIOUS
<1>3. TileOf(tile, pat, 0, SUBSET U) /\ Divides(16, tile.len)
  BY <1>1, <1>2, TileIsMade
<1> HIDE DEF tile
<1>4. Prepared(tile, pat, 0, 0, data, U) /\ InStep(0, 0, Len(pat))
  BY <1>1, <1>3 DEF Prepared, InStep
<1>5. Cook!xor_tile(16, data, tile) = WithKey(data, pat, 0)
  BY <1>2, <1>3, <1>4, XorTileMeets
<1>6. /\ IsData(WithKey(data, pat, 0), U) /\ Len(WithKey(data, pat, 0)) = Len(data)
      /\ WithKey(WithKey(data, pat, 0), pat, 0) = data
  BY <1>1, TwiceIsNothing
<1>7. IsText(WithKey(data, pat, 0))
  BY <1>6, TextIsData DEF U
<1> QED  BY <1>5, <1>6, <1>7 DEF tile

\* Without a key a datagram is left as it is; with one it meets the key.
LEMMA EncryptIs ==
  ASSUME NEW key, IsText(key), NEW ctx, ctx.key_tile = Cook!prepare_key(key)
  PROVE  /\ key = << >> => \A x : Cook!encrypt_0(ctx, x) = x
         /\ key # << >> => \A x : IsText(x) => Cook!encrypt_0(ctx, x) = WithKey(x, key, 0)
<1> DEFINE tile == Cook!Tile(key, 16)
<1>1. ASSUME key = << >>, NEW x
      PROVE  Cook!encrypt_0(ctx, x) = x
  <2>1. ctx.key_tile.len = 0
    BY <1>1 DEF Cook!prepare_key
  <2>2. QED
    BY <2>1, Zenon DEF Cook!encrypt_0
<1>2. ASSUME key # << >>, NEW x, IsText(x)
      PROVE  Cook!encrypt_0(ctx, x) = WithKey(x, key, 0)
  <2>1. ctx.key_tile = tile
    BY <1>2, Zenon DEF Cook!prepare_key
  <2>2. tile.len # 0
    <3>1. IsPattern(key, SUBSET (0 .. 7)) /\ 16 \in Nat \ {0}
      BY <1>2, TextIsData
    <3>2. TileOf(tile, key, 0, SUBSET (0 .. 7))
      BY <3>1, TileIsMade
    <3> HIDE DEF tile
    <3>3. QED
      BY <3>2 DEF TileOf
  <2>3. Cook!xor_tile(16, x, tile) = WithKey(x, key, 0)
    BY <1>2, XorWithTile
  <2> HIDE DEF tile
  <2>4. QED
    BY <2>1, <2>2, <2>3, Zenon DEF Cook!encrypt_0
<1> QED  BY <1>1, <1>2, Zenon

\* What encrypts decrypts.
LEMMA EncryptTwice ==
  ASSUME NEW key, IsText(key), NEW ctx, ctx.key_tile = Cook!prepare_key(key), NEW data, IsText(data)
  PROVE  /\ IsText(Cook!encrypt_0(ctx, data))
         /\ Cook!encrypt_0(ctx, Cook!encrypt_0(ctx, data)) = data
<1>1. CASE key = << >>
  BY <1>1, EncryptIs
<1>2. CASE key # << >>
  <2> DEFINE once == WithKey(data, key, 0)
  <2>1. IsText(once) /\ WithKey(once, key, 0) = data
    BY <1>2, XorWithTile
  <2> HIDE DEF once
  <2>2. Cook!encrypt_0(ctx, data) = once
    BY <1>2, EncryptIs DEF once
  <2>3. Cook!encrypt_0(ctx, once) = data
    BY <1>2, <2>1, EncryptIs
  <2>4. QED
    BY <2>1, <2>2, <2>3
<1> QED  BY <1>1, <1>2

LEMMA ObscureTwice ==
  ASSUME NEW iv, IsText(iv), NEW data, IsText(data)
  PROVE  /\ IsText(Cook!xor_with_pattern(data, iv))
         /\ Cook!xor_with_pattern(Cook!xor_with_pattern(data, iv), iv) = data
<1>1. CASE iv = << >> \/ data = << >>
  <2>1. Cook!xor_with_pattern(data, iv) = data
    BY <1>1, Zenon DEF Cook!xor_with_pattern
  <2>2. QED
    BY <2>1
<1>2. CASE iv # << >> /\ data # << >>
  <2> DEFINE once == WithKey(data, iv, 0)
  <2>1. /\ Cook!xor_tile(16, data, Cook!Tile(iv, 16)) = once
        /\ IsText(once) /\ Len(once) = Len(data) /\ WithKey(once, iv, 0) = data
    BY <1>2, XorWithTile
  <2> HIDE DEF once
  <2>2. Cook!xor_tile(16, once, Cook!Tile(iv, 16)) = data
    BY <1>2, <2>1, XorWithTile
  <2>3. once # << >>
    BY <1>2, <2>1 DEF IsText
  <2>4. Cook!xor_with_pattern(data, iv) = once
    BY <1>2, <2>1, Zenon DEF Cook!xor_with_pattern
  <2>5. Cook!xor_with_pattern(once, iv) = data
    BY <1>2, <2>2, <2>3, Zenon DEF Cook!xor_with_pattern
  <2>6. QED
    BY <2>1, <2>4, <2>5
<1> QED  BY <1>1, <1>2

\* Three parts, taken apart again.
TakesApart3(y, a, b, c, S) ==
  LET i == Len(a)
      j == Len(a) + Len(b)
  IN  /\ y \in Seq(S) /\ Len(y) = j + Len(c)
      /\ SubSeq(y, 1, i) = a /\ SubSeq(y, i + 1, j) = b /\ SubSeq(y, j + 1, Len(y)) = c
      /\ SubSeq(y, 1, j) = a \o b
      /\ \A q \in 1 .. Len(c) : y[j + q] = c[q]

LEMMA ThreeParts ==
  ASSUME NEW S, NEW a \in Seq(S), NEW b \in Seq(S), NEW c \in Seq(S)
  PROVE  TakesApart3((a \o b) \o c, a, b, c, S)
<1> DEFINE x == a \o b
           y == x \o c
           i == Len(a)
           j == Len(a) + Len(b)
           n == Len(y)
<1>1. x \in Seq(S) /\ IsConcatenation(x, a, b)
  BY Concatenation
<1> HIDE DEF x
<1>2. y \in Seq(S) /\ IsConcatenation(y, x, c)
  BY <1>1, Concatenation
<1> HIDE DEF y
<1>3. /\ Len(x) = j /\ i \in Nat /\ Len(b) \in Nat
      /\ \A q \in 1 .. i : x[q] = a[q]
      /\ \A q \in 1 .. Len(b) : x[i + q] = b[q]
  BY <1>1 DEF IsConcatenation
<1>4. /\ n = j + Len(c) /\ Len(c) \in Nat /\ j \in Nat /\ i <= j /\ j <= n
      /\ \A q \in 1 .. j : y[q] = x[q]
      /\ \A q \in 1 .. Len(c) : y[j + q] = c[q]
  BY <1>2, <1>3 DEF IsConcatenation
<1> HIDE DEF i, j, n
<1>5. SubSeq(y, 1, i) = a
  <2> DEFINE p == SubSeq(y, 1, i)
  <2>1. p \in Seq(S) /\ Len(p) = i /\ \A q \in 1 .. i : p[q] = y[q]
    BY <1>2, <1>3, <1>4 DEF n
  <2> HIDE DEF p
  <2>2. \A q \in 1 .. i : p[q] = a[q]
    BY <1>3, <1>4, <2>1, SMTT(30)
  <2>3. p = a
    BY <2>1, <2>2, SameSequence DEF i
  <2>4. QED
    BY <2>3 DEF p
<1>6. SubSeq(y, i + 1, j) = b
  <2> DEFINE p == SubSeq(y, i + 1, j)
  <2>1. p \in Seq(S) /\ IsPiece(p, y, i, j)
    BY <1>2, <1>3, <1>4, Piece DEF n
  <2> HIDE DEF p
  <2>2. Len(p) = Len(b) /\ \A q \in 1 .. Len(b) : p[q] = y[i + q]
    BY <1>3, <2>1 DEF IsPiece, i, j
  <2>3. ASSUME NEW q \in 1 .. Len(b)
        PROVE  p[q] = b[q]
    <3>1. i + q \in 1 .. j
      BY <1>3 DEF i, j
    <3>2. QED
      BY <1>3, <1>4, <2>2, <3>1
  <2>4. p = b
    BY <2>1, <2>2, <2>3, SameSequence
  <2>5. QED
    BY <2>4 DEF p
<1>7. SubSeq(y, j + 1, n) = c
  <2> DEFINE p == SubSeq(y, j + 1, n)
  <2>1. p \in Seq(S) /\ IsPiece(p, y, j, n)
    BY <1>2, <1>4, Piece DEF n
  <2> HIDE DEF p
  <2>2. Len(p) = Len(c) /\ \A q \in 1 .. Len(c) : p[q] = y[j + q]
    BY <1>4, <2>1 DEF IsPiece
  <2>3. \A q \in 1 .. Len(c) : p[q] = c[q]
    BY <1>4, <2>2
  <2>4. p = c
    BY <2>1, <2>2, <2>3, SameSequence
  <2>5. QED
    BY <2>4 DEF p
<1>8. SubSeq(y, 1, j) = x
  <2> DEFINE p == SubSeq(y, 1, j)
  <2>1. p \in Seq(S) /\ Len(p) = j /\ \A q \in 1 .. j : p[q] = y[q]
    BY <1>2, <1>4 DEF n
  <2> HIDE DEF p
  <2>2. \A q \in 1 .. j : p[q] = x[q]
    BY <1>4, <2>1
  <2>3. p = x
    BY <1>1, <1>3, <2>1, <2>2, SameSequence
  <2>4. QED
    BY <2>3 DEF p
<1> QED  BY <1>2, <1>4, <1>5, <1>6, <1>7, <1>8 DEF TakesApart3, i, j, n, y, x

TakesApart(y, a, c, S) ==
  /\ y \in Seq(S) /\ Len(y) = Len(a) + Len(c)
  /\ SubSeq(y, 1, Len(a)) = a /\ SubSeq(y, Len(a) + 1, Len(y)) = c

LEMMA TwoParts ==
  ASSUME NEW S, NEW a \in Seq(S), NEW c \in Seq(S)
  PROVE  TakesApart(a \o c, a, c, S)
<1> DEFINE y == a \o c
           n == Len(a)
           m == Len(y)
           p == SubSeq(y, 1, n)
           q == SubSeq(y, n + 1, m)
<1>1. y \in Seq(S) /\ IsConcatenation(y, a, c)
  BY Concatenation
<1> HIDE DEF y
<1>2. /\ m = n + Len(c) /\ n \in Nat /\ Len(c) \in Nat
      /\ (\A i \in 1 .. n : y[i] = a[i]) /\ \A i \in 1 .. Len(c) : y[n + i] = c[i]
  BY <1>1 DEF IsConcatenation
<1> HIDE DEF n, m
<1>3. p = a
  <2>1. p \in Seq(S) /\ Len(p) = n /\ \A i \in 1 .. n : p[i] = y[i]
    BY <1>1, <1>2 DEF m
  <2> HIDE DEF p
  <2>2. \A i \in 1 .. n : p[i] = a[i]
    BY <1>2, <2>1
  <2>3. QED
    BY <2>1, <2>2, SameSequence DEF n
<1>4. q = c
  <2>1. q \in Seq(S) /\ IsPiece(q, y, n, m)
    <3>1. n <= m /\ m <= Len(y) /\ m \in Nat
      BY <1>2 DEF m
    <3>2. QED
      BY <1>1, <1>2, <3>1, Piece
  <2> HIDE DEF q
  <2>2. Len(q) = Len(c) /\ \A i \in 1 .. Len(c) : q[i] = y[n + i]
    BY <1>2, <2>1 DEF IsPiece
  <2>3. \A i \in 1 .. Len(c) : q[i] = c[i]
    BY <1>2, <2>2
  <2>4. QED
    BY <2>1, <2>2, <2>3, SameSequence
<1> QED  BY <1>1, <1>2, <1>3, <1>4 DEF TakesApart, y, n, m

LEMMA HighPowers == \A b \in 8 .. 30 : 2 ^ b \in Nat /\ 2 ^ b >= 256
<1>1. /\ 2 ^ 8 \in Nat /\ 2 ^ 8 >= 256
      /\ 2 ^ 9 \in Nat /\ 2 ^ 9 >= 256
      /\ 2 ^ 10 \in Nat /\ 2 ^ 10 >= 256
      /\ 2 ^ 11 \in Nat /\ 2 ^ 11 >= 256
      /\ 2 ^ 12 \in Nat /\ 2 ^ 12 >= 256
      /\ 2 ^ 13 \in Nat /\ 2 ^ 13 >= 256
      /\ 2 ^ 14 \in Nat /\ 2 ^ 14 >= 256
      /\ 2 ^ 15 \in Nat /\ 2 ^ 15 >= 256
      /\ 2 ^ 16 \in Nat /\ 2 ^ 16 >= 256
      /\ 2 ^ 17 \in Nat /\ 2 ^ 17 >= 256
      /\ 2 ^ 18 \in Nat /\ 2 ^ 18 >= 256
      /\ 2 ^ 19 \in Nat /\ 2 ^ 19 >= 256
      /\ 2 ^ 20 \in Nat /\ 2 ^ 20 >= 256
      /\ 2 ^ 21 \in Nat /\ 2 ^ 21 >= 256
      /\ 2 ^ 22 \in Nat /\ 2 ^ 22 >= 256
      /\ 2 ^ 23 \in Nat /\ 2 ^ 23 >= 256
      /\ 2 ^ 24 \in Nat /\ 2 ^ 24 >= 256
      /\ 2 ^ 25 \in Nat /\ 2 ^ 25 >= 256
      /\ 2 ^ 26 \in Nat /\ 2 ^ 26 >= 256
      /\ 2 ^ 27 \in Nat /\ 2 ^ 27 >= 256
      /\ 2 ^ 28 \in Nat /\ 2 ^ 28 >= 256
      /\ 2 ^ 29 \in Nat /\ 2 ^ 29 >= 256
      /\ 2 ^ 30 \in Nat /\ 2 ^ 30 >= 256
  BY SMT
<1>2. ASSUME NEW b \in 8 .. 30
      PROVE  2 ^ b \in Nat /\ 2 ^ b >= 256
  <2>1. b = 8 \/ b = 9 \/ b = 10 \/ b = 11 \/ b = 12 \/ b = 13 \/ b = 14 \/ b = 15
       \/ b = 16 \/ b = 17 \/ b = 18 \/ b = 19 \/ b = 20 \/ b = 21 \/ b = 22 \/ b = 23
       \/ b = 24 \/ b = 25 \/ b = 26 \/ b = 27 \/ b = 28 \/ b = 29 \/ b = 30
    BY SMT
  <2>2. QED
    BY <1>1, <2>1, ZenonT(60)
<1> QED  BY <1>2

\* The bits of a byte, and the byte they are the bits of.
LEMMA BitsOfByte ==
  ASSUME NEW n \in 0 .. 255
  PROVE  Cook!BitsOf(n) \in Byte /\ \A m \in 0 .. 255 : Cook!BitsOf(m) = Cook!BitsOf(n) => m = n
<1>1. ASSUME NEW b \in Cook!BitsOf(n), b \notin 0 .. 7
      PROVE  FALSE
  <2>1. b \in 8 .. 30 /\ (n \div 2 ^ b) % 2 = 1
    BY <1>1 DEF Cook!BitsOf
  <2>2. PICK p \in Nat : p = 2 ^ b /\ p >= 256
    <3>1. 2 ^ b >= 256 /\ 2 ^ b \in Nat
      BY <2>1, HighPowers
    <3>2. QED
      BY <3>1, Zenon
  <2>3. (n \div p) % 2 = 0
    BY <2>2
  <2>4. (n \div p) % 2 = 1
    BY <2>1, <2>2
  <2>5. QED
    BY <2>3, <2>4
<1>2. ASSUME NEW m \in 0 .. 255, Cook!BitsOf(m) = Cook!BitsOf(n)
      PROVE  m = n
  <2>1. \A b \in 0 .. 7 : (n \div 2 ^ b) % 2 = 1 <=> (m \div 2 ^ b) % 2 = 1
    <3>1. \A b \in 0 .. 7 : /\ b \in Cook!BitsOf(n) <=> (n \div 2 ^ b) % 2 = 1
                            /\ b \in Cook!BitsOf(m) <=> (m \div 2 ^ b) % 2 = 1
      BY DEF Cook!BitsOf
    <3>2. QED
      BY <1>2, <3>1
  <2>2. /\ (n % 2 = 1) = (m % 2 = 1)
        /\ ((n \div 2) % 2 = 1) = ((m \div 2) % 2 = 1)
        /\ ((n \div 4) % 2 = 1) = ((m \div 4) % 2 = 1)
        /\ ((n \div 8) % 2 = 1) = ((m \div 8) % 2 = 1)
        /\ ((n \div 16) % 2 = 1) = ((m \div 16) % 2 = 1)
        /\ ((n \div 32) % 2 = 1) = ((m \div 32) % 2 = 1)
        /\ ((n \div 64) % 2 = 1) = ((m \div 64) % 2 = 1)
        /\ ((n \div 128) % 2 = 1) = ((m \div 128) % 2 = 1)
    <3>1. /\ 2 ^ 0 = 1 /\ 2 ^ 1 = 2 /\ 2 ^ 2 = 4 /\ 2 ^ 3 = 8
          /\ 2 ^ 4 = 16 /\ 2 ^ 5 = 32 /\ 2 ^ 6 = 64 /\ 2 ^ 7 = 128
      BY SMT
    <3>2. n \div 1 = n /\ m \div 1 = m
      BY SMT
    <3>3. QED
      BY <2>1, <3>1, <3>2, SMTT(60)
  <2>3. QED
    BY <2>2, SMTT(60)
<1> QED  BY <1>1, <1>2 DEF Byte

\* A number that is written is read again.
LEMMA WordIsRead ==
  ASSUME NEW w \in Word
  PROVE  /\ Cook!write_u32(w) \in Seq(Byte) /\ Len(Cook!write_u32(w)) = 4
         /\ Cook!read_u32(Cook!write_u32(w)) = w
<1> DEFINE b == Cook!write_u32(w)
           r == Cook!Reverse(b)
<1>1. b = [i \in 1 .. 4 |-> Cook!ByteOf(w, 4 - i)]
  BY Zenon DEF Cook!write_u32
<1>2. \A k \in 0 .. 3 : Cook!ByteOf(w, k) = {x - 8 * k : x \in {c \in w : c \div 8 = k}}
  BY DEF Cook!ByteOf
<1>3. \A x \in w : x \in 0 .. 31
  BY DEF Word
<1>4. \A k \in 0 .. 3 : Cook!ByteOf(w, k) \in Byte
  BY <1>2, <1>3 DEF Byte
<1> HIDE DEF b
<1>5. b \in Seq(Byte) /\ Len(b) = 4 /\ \A i \in 1 .. 4 : b[i] = Cook!ByteOf(w, 4 - i)
  <2>1. \A i \in 1 .. 4 : 4 - i \in 0 .. 3
    OBVIOUS
  <2>2. \A i \in 1 .. 4 : Cook!ByteOf(w, 4 - i) \in Byte
    BY <1>4, <2>1
  <2>3. QED
    BY <1>1, <2>2
<1>6. r = [k \in 1 .. 4 |-> b[(4 - k) + 1]]
  BY <1>5 DEF Cook!Reverse
<1>7. DOMAIN r = 1 .. 4 /\ \A k \in 1 .. 4 : r[k] = Cook!ByteOf(w, k - 1)
  <2>1. \A k \in 1 .. 4 : (4 - k) + 1 \in 1 .. 4 /\ 4 - ((4 - k) + 1) = k - 1
    OBVIOUS
  <2>2. QED
    BY <1>5, <1>6, <2>1
<1> HIDE DEF r
<1>8. Cook!read_u32(b) = UNION {{x + 8 * (k - 1) : x \in r[k]} : k \in DOMAIN r}
  BY DEF Cook!read_u32, Cook!WordOf, r
<1>9. \A k \in 1 .. 4 : {x + 8 * (k - 1) : x \in r[k]} = {c \in w : c \div 8 = k - 1}
  <2>1. ASSUME NEW k \in 1 .. 4
        PROVE  {x + 8 * (k - 1) : x \in r[k]} = {c \in w : c \div 8 = k - 1}
    <3>1. k - 1 \in 0 .. 3 /\ r[k] = {x - 8 * (k - 1) : x \in {c \in w : c \div 8 = k - 1}}
      BY <1>2, <1>7
    <3>2. PICK j \in 0 .. 3 : j = k - 1
      BY <3>1
    <3>3. r[k] = {x - 8 * j : x \in {c \in w : c \div 8 = j}}
      BY <3>1, <3>2
    <3>4. ASSUME NEW x \in {y + 8 * j : y \in r[k]}
          PROVE  x \in {c \in w : c \div 8 = j}
      <4>1. PICK y \in r[k] : x = y + 8 * j
        OBVIOUS
      <4>2. PICK c \in w : c \div 8 = j /\ y = c - 8 * j
        BY <3>3
      <4>3. x = c
        BY <1>3, <4>1, <4>2
      <4>4. QED
        BY <4>2, <4>3
    <3>5. ASSUME NEW c \in w, c \div 8 = j
          PROVE  c \in {y + 8 * j : y \in r[k]}
      <4>1. c - 8 * j \in r[k]
        BY <3>3, <3>5
      <4>2. c = (c - 8 * j) + 8 * j
        BY <1>3
      <4>3. QED
        BY <4>1, <4>2
    <3>6. {y + 8 * j : y \in r[k]} = {c \in w : c \div 8 = j}
      BY <3>4, <3>5
    <3>7. QED
      BY <3>2, <3>6
  <2>2. QED
    BY <2>1
<1>10. UNION {{c \in w : c \div 8 = k - 1} : k \in 1 .. 4} = w
  <2>1. ASSUME NEW x \in w
        PROVE  \E k \in 1 .. 4 : x \div 8 = k - 1
    <3>1. x \div 8 \in 0 .. 3
      BY <1>3
    <3>2. (x \div 8) + 1 \in 1 .. 4 /\ ((x \div 8) + 1) - 1 = x \div 8
      BY <3>1
    <3>3. QED
      BY <3>2
  <2>2. QED
    BY <2>1
<1>11. Cook!read_u32(b) = w
  BY <1>7, <1>8, <1>9, <1>10
<1> QED  BY <1>5, <1>11 DEF b

\* What is sent with an initial vector behind it.
WithVector(x, iv) == (x \o iv) \o << Cook!BitsOf(Len(iv)) >>

\* The initial vector is found behind whatever arrives in front of it.
LEMMA VectorIsFound ==
  ASSUME NEW iv, IsText(iv), NEW x, IsText(x), NEW ctx,
         ctx.iv_min \in Nat, ctx.iv_max \in 0 .. 255, Len(iv) \in ctx.iv_min .. ctx.iv_max
  PROVE  /\ IsText(WithVector(x, iv))
         /\ Cook!de_obscure(ctx, WithVector(x, iv)) = Cook!xor_with_pattern(x, iv)
<1> DEFINE l == Len(iv)
           last == Cook!BitsOf(l)
           c == << last >>
           y == (x \o iv) \o c
           len == Len(y)
           iv_len == CHOOSE n \in 0 .. 255 : Cook!BitsOf(n) = y[len]
<1>0. PICK low \in Nat, high \in 0 .. 255 : low = ctx.iv_min /\ high = ctx.iv_max /\ l \in low .. high
  OBVIOUS
<1>2. l \in 0 .. 255 /\ l >= low /\ l <= high
  <2>1. l \in low .. high
    BY <1>0
  <2> HIDE DEF l
  <2>2. QED
    BY ONLY <2>1
<1>3. last \in Byte /\ \A m \in 0 .. 255 : Cook!BitsOf(m) = last => m = l
  BY <1>2, BitsOfByte, ZenonT(40)
<1>5. /\ Cook!de_obscure(ctx, y) =
           IF len < 1 THEN Refused
           ELSE IF iv_len < ctx.iv_min \/ iv_len > ctx.iv_max \/ len < 1 + iv_len THEN Refused
           ELSE Cook!xor_with_pattern(SubSeq(y, 1, len - 1 - iv_len), SubSeq(y, len - iv_len, len - 1))
  <2> HIDE DEF y
  <2>1. QED
    BY Zenon DEF Cook!de_obscure
<1> DEFINE i == Len(x)
           j == Len(x) + l
<1>6. x \in Seq(Byte) /\ iv \in Seq(Byte) /\ i \in Nat
  BY DEF IsText
<1> HIDE DEF last
<1>7. c \in Seq(Byte) /\ Len(c) = 1 /\ c[1] = last
  BY <1>3
<1> HIDE DEF c
<1>8. /\ y \in Seq(Byte) /\ len = j + 1
      /\ SubSeq(y, 1, i) = x /\ SubSeq(y, i + 1, j) = iv /\ y[j + 1] = last
  <2>1. /\ y \in Seq(Byte) /\ len = (Len(x) + Len(iv)) + Len(c)
        /\ SubSeq(y, 1, Len(x)) = x /\ SubSeq(y, Len(x) + 1, Len(x) + Len(iv)) = iv
        /\ \A q \in 1 .. Len(c) : y[(Len(x) + Len(iv)) + q] = c[q]
    <3>1. TakesApart3(y, x, iv, c, Byte)
      BY <1>6, <1>7, ThreeParts
    <3> HIDE DEF y
    <3>2. QED
      BY <3>1, Zenon DEF TakesApart3
  <2>2. 1 \in 1 .. Len(c)
    BY <1>7
  <2>3. QED
    BY <1>7, <2>1, <2>2
<1> HIDE DEF y, len
<1>9. iv_len = l
  <2>1. y[len] = last
    BY <1>8
  <2>2. Cook!BitsOf(l) = y[len]
    BY <2>1 DEF last
  <2>3. \A n \in 0 .. 255 : Cook!BitsOf(n) = y[len] => n = l
    BY <1>3, <2>1
  <2> HIDE DEF l
  <2>4. QED
    BY <1>2, <2>2, <2>3
<1> HIDE DEF iv_len, l, i, j
<1>10. j = i + l
  BY DEF i, j
<1>11. ~ (len < 1) /\ ~ (iv_len < ctx.iv_min \/ iv_len > ctx.iv_max \/ len < 1 + iv_len)
  <2>1. ~ (len < 1) /\ ~ (l < low) /\ ~ (l > high) /\ ~ (len < 1 + l)
    BY <1>2, <1>6, <1>8, <1>10
  <2>2. QED
    BY <1>0, <1>9, <2>1, Zenon
<1>12. len - 1 - iv_len = i /\ len - iv_len = i + 1 /\ len - 1 = j
  BY <1>2, <1>6, <1>8, <1>9, <1>10
<1>13. Cook!de_obscure(ctx, y) = Cook!xor_with_pattern(x, iv)
  BY <1>5, <1>8, <1>11, <1>12
<1>14. IsText(y)
  BY <1>8 DEF IsText
<1> QED  BY <1>13, <1>14 DEF WithVector, y, c, last, l

\* What is hidden behind an initial vector is found.
LEMMA ObscuredComesBack ==
  ASSUME NEW iv, IsText(iv), NEW data, IsText(data), NEW ctx,
         ctx.iv_min \in Nat, ctx.iv_max \in 0 .. 255, Len(iv) \in ctx.iv_min .. ctx.iv_max
  PROVE  /\ IsText(Cook!do_obscure(data, iv))
         /\ Cook!de_obscure(ctx, Cook!do_obscure(data, iv)) = data
<1> DEFINE x == Cook!xor_with_pattern(data, iv)
<1>1. IsText(x) /\ Cook!xor_with_pattern(x, iv) = data
  BY ObscureTwice
<1>2. Cook!do_obscure(data, iv) = WithVector(x, iv)
  BY Zenon DEF Cook!do_obscure, WithVector
<1> HIDE DEF x
<1>3. IsText(WithVector(x, iv)) /\ Cook!de_obscure(ctx, WithVector(x, iv)) = Cook!xor_with_pattern(x, iv)
  BY <1>1, VectorIsFound
<1> QED  BY <1>1, <1>2, <1>3

\* A checksum is a word.
LEMMA ChecksumIsWord ==
  ASSUME NEW data
  PROVE  crc32c(data) \in Word
<1>1. \A w : Crc32c!Not(w) \in Word
  BY DEF Crc32c!Not, Crc32c!Ones, Word
<1>2. crc32c(data) = Crc32c!crc32c_hw(data, {}) \/ crc32c(data) = Crc32c!crc32c_sw(data, {})
  BY Zenon DEF crc32c, Crc32c!crc32c
<1>3. Crc32c!crc32c_hw(data, {}) \in Word
  BY <1>1, Zenon DEF Crc32c!crc32c_hw
<1>4. Crc32c!crc32c_sw(data, {}) \in Word
  BY <1>1, Zenon DEF Crc32c!crc32c_sw, Crc32c!Sliced
<1> QED  BY <1>2, <1>3, <1>4, Zenon

\* The data comes back from behind its checksum.
LEMMA CheckedComesBack ==
  ASSUME NEW ctx, ctx.disable_checksum \in BOOLEAN, NEW data, IsText(data)
  PROVE  /\ IsText(Cook!put_crc32(ctx, data))
         /\ Cook!rm_crc32(ctx, Cook!put_crc32(ctx, data)) = data
<1> DEFINE w == Cook!write_u32(crc32c(data))
           y == data \o w
           len == Len(y) - 4
           s == SubSeq(y, 1, len)
<1>1. CASE ctx.disable_checksum
  <2>1. \A d : Cook!put_crc32(ctx, d) = d /\ Cook!rm_crc32(ctx, d) = d
    BY <1>1 DEF Cook!put_crc32, Cook!rm_crc32
  <2>2. QED
    BY <2>1
<1>2. CASE ~ ctx.disable_checksum
  <2>1. Cook!put_crc32(ctx, data) = y
    BY <1>2, Zenon DEF Cook!put_crc32
  <2>2. Cook!rm_crc32(ctx, y) =
          CASE ctx.disable_checksum -> y
            [] ~ctx.disable_checksum /\ len < 0 -> Refused
            [] ~ctx.disable_checksum /\ len >= 0 ->
                 IF Cook!read_u32(SubSeq(y, len + 1, Len(y))) = crc32c(s) THEN s ELSE Refused
    <3> HIDE DEF y
    <3>1. QED
      BY Zenon DEF Cook!rm_crc32
  <2>3. w \in Seq(Byte) /\ Len(w) = 4 /\ Cook!read_u32(w) = crc32c(data)
    BY ChecksumIsWord, WordIsRead
  <2> HIDE DEF w
  <2>4. /\ y \in Seq(Byte) /\ Len(y) = Len(data) + 4 /\ SubSeq(y, 1, Len(data)) = data
        /\ SubSeq(y, Len(data) + 1, Len(y)) = w
    <3>1. TakesApart(y, data, w, Byte)
      BY <2>3, TwoParts DEF IsText
    <3> HIDE DEF y
    <3>2. QED
      BY <2>3, <3>1 DEF TakesApart
  <2> HIDE DEF y
  <2>5. len = Len(data) /\ len \in Nat /\ len >= 0 /\ ~ (len < 0)
    BY <2>4 DEF IsText
  <2> HIDE DEF len
  <2>6. s = data /\ Cook!read_u32(SubSeq(y, len + 1, Len(y))) = crc32c(data)
    BY <2>3, <2>4, <2>5
  <2> HIDE DEF s
  <2>7. Cook!rm_crc32(ctx, y) = data
    BY <1>2, <2>2, <2>5, <2>6
  <2>8. IsText(y)
    BY <2>4 DEF IsText
  <2>9. QED
    BY <2>1, <2>7, <2>8, Zenon
<1> QED  BY <1>1, <1>2

\* What is cooked comes back, whatever is turned off.
LEMMA UncookedIsRaw ==
  ASSUME NEW key, IsText(key), NEW iv, IsText(iv), NEW data, IsText(data), NEW ctx,
         ctx.key_tile = Cook!prepare_key(key),
         ctx.iv_min \in Nat, ctx.iv_max \in 0 .. 255, Len(iv) \in ctx.iv_min .. ctx.iv_max,
         ctx.disable_checksum \in BOOLEAN
  PROVE  /\ IsText(Cook!do_cook(ctx, data, iv))
         /\ Cook!de_cook(ctx, Cook!do_cook(ctx, data, iv)) = data
<1> DEFINE checked == Cook!put_crc32(ctx, data)
           hidden == Cook!do_obscure(checked, iv)
           obscured == IF ctx.disable_obscure THEN checked ELSE hidden
           cooked == Cook!do_cook(ctx, data, iv)
           plain == IF ctx.disable_xor THEN cooked ELSE Cook!encrypt_0(ctx, cooked)
           clear == IF ctx.disable_obscure THEN plain ELSE Cook!de_obscure(ctx, plain)
           back == Cook!de_cook(ctx, cooked)
<1>1. cooked = IF ctx.disable_xor THEN obscured ELSE Cook!encrypt_0(ctx, obscured)
  BY Zenon DEF Cook!do_cook
<1>2. back = IF clear = Refused THEN Refused ELSE Cook!rm_crc32(ctx, clear)
  <2> HIDE DEF cooked
  <2>1. QED
    BY Zenon DEF Cook!de_cook
<1>3. IsText(checked) /\ Cook!rm_crc32(ctx, checked) = data
  BY CheckedComesBack
<1> HIDE DEF checked
<1>4. IsText(hidden) /\ Cook!de_obscure(ctx, hidden) = checked
  BY <1>3, ObscuredComesBack
<1> HIDE DEF hidden
<1>5. IsText(obscured)
  BY <1>3, <1>4
<1> HIDE DEF cooked, back
<1>6. IsText(cooked) /\ plain = obscured
  <2>1. CASE ctx.disable_xor
    BY <1>1, <1>5, <2>1
  <2>2. CASE ~ ctx.disable_xor
    <3> HIDE DEF obscured
    <3>1. IsText(Cook!encrypt_0(ctx, obscured))
          /\ Cook!encrypt_0(ctx, Cook!encrypt_0(ctx, obscured)) = obscured
      BY <1>5, EncryptTwice
    <3>2. QED
      BY <1>1, <2>2, <3>1, Zenon
  <2>3. QED
    BY <2>1, <2>2
<1> HIDE DEF plain
<1>7. clear = checked
  BY <1>4, <1>6, Zenon
<1> HIDE DEF clear
<1>8. clear # Refused
  BY <1>3, <1>7, DataAssumption DEF IsText
<1>9. back = data
  BY <1>2, <1>3, <1>7, <1>8
<1> QED  BY <1>6, <1>9 DEF back, cooked

\* The conversation comes back with the data, with a checksum of its own or without.
LEMMA ConvComesBack ==
  ASSUME NEW conv \in Word, NEW data, IsText(data)
  PROVE  /\ IsText(Cook!put_conv(conv, data))
         /\ Cook!get_conv(Cook!put_conv(conv, data)) = [conv |-> conv, data |-> data]
         /\ Cook!get_conv0(Cook!put_conv0(conv, data)) = [conv |-> conv, data |-> data]
<1> DEFINE head == Cook!write_u32(conv)
           p == head \o data
           check == Cook!write_u32(crc32c(p))
           y == p \o check
           len == Len(y) - 4
<1>1. head \in Seq(Byte) /\ Len(head) = 4 /\ Cook!read_u32(head) = conv
  BY WordIsRead
<1>2. Cook!put_conv(conv, data) = p
  BY Zenon DEF Cook!put_conv
<1>3. Cook!put_conv0(conv, data) = y
  BY <1>2, Zenon DEF Cook!put_conv0
<1> HIDE DEF head
<1>4. TakesApart(p, head, data, Byte)
  BY <1>1, TwoParts DEF IsText
<1>5. check \in Seq(Byte) /\ Len(check) = 4 /\ Cook!read_u32(check) = crc32c(p)
  BY ChecksumIsWord, WordIsRead
<1> HIDE DEF check
<1>6. TakesApart3(y, head, data, check, Byte)
  BY <1>1, <1>5, ThreeParts DEF IsText
<1>7. Cook!get_conv(p) = IF Len(p) < 4 THEN Refused
                         ELSE [conv |-> Cook!read_u32(SubSeq(p, 1, 4)), data |-> SubSeq(p, 5, Len(p))]
  <2> HIDE DEF p
  <2>1. QED
    BY Zenon DEF Cook!get_conv
<1>8. Cook!get_conv0(y) =
        IF len < 4 THEN Refused
        ELSE IF Cook!read_u32(SubSeq(y, len + 1, Len(y))) # crc32c(SubSeq(y, 1, len))
        THEN Refused
        ELSE [conv |-> Cook!read_u32(SubSeq(y, 1, 4)), data |-> SubSeq(y, 5, len)]
  <2> HIDE DEF y
  <2>1. QED
    BY Zenon DEF Cook!get_conv0
<1>9. /\ p \in Seq(Byte) /\ Len(p) = 4 + Len(data) /\ Len(data) \in Nat
      /\ SubSeq(p, 1, 4) = head /\ SubSeq(p, 4 + 1, Len(p)) = data
  BY <1>1, <1>4, Zenon DEF TakesApart, IsText
<1>10. /\ Len(y) = (4 + Len(data)) + 4
       /\ SubSeq(y, 1, 4) = head /\ SubSeq(y, 4 + 1, 4 + Len(data)) = data
       /\ SubSeq(y, (4 + Len(data)) + 1, Len(y)) = check /\ SubSeq(y, 1, 4 + Len(data)) = p
  BY <1>1, <1>5, <1>6, Zenon DEF TakesApart3
<1> HIDE DEF p, y
<1>11. Cook!get_conv(p) = [conv |-> conv, data |-> data]
  <2>1. ~ (Len(p) < 4) /\ 4 + 1 = 5
    BY <1>9
  <2>2. QED
    BY <1>1, <1>7, <1>9, <2>1
<1>12. len = 4 + Len(data) /\ ~ (len < 4) /\ 4 + 1 = 5
  BY <1>9, <1>10
<1> HIDE DEF len
<1>13. Cook!get_conv0(y) = [conv |-> conv, data |-> data]
  BY <1>1, <1>5, <1>8, <1>10, <1>12
<1>14. IsText(p)
  BY <1>9 DEF IsText
<1> QED  BY <1>2, <1>3, <1>11, <1>13, <1>14, Zenon

LEMMA UndamagedArrives ==
  ASSUME NEW d, IsText(d)
  PROVE  Arrived(d, NoBurst) = d
<1>1. DOMAIN NoBurst.flips = {}
  BY DEF NoBurst
<1>2. Arrived(d, NoBurst) = [i \in DOMAIN d |-> d[i]]
  BY <1>1 DEF Arrived
<1> QED  BY <1>2 DEF IsText

LEMMA DatagramComesBack ==
  ASSUME NEW sent, IsDatagram(sent)
  PROVE  Recovered(sent)
<1> DEFINE ctx == Context(sent)
           key == sent.key
           iv == sent.iv
           data == sent.data
           packet == Packet(sent)
           cooked == Cook!do_cook(ctx, packet, iv)
<1>1. IsText(data) /\ IsText(key) /\ IsText(iv) /\ sent.conv \in Word
  BY DEF IsDatagram, IsText
<1>2. /\ ctx.key_tile = Cook!prepare_key(key)
      /\ ctx.iv_min \in Nat /\ ctx.iv_max \in 0 .. 255 /\ Len(iv) \in ctx.iv_min .. ctx.iv_max
      /\ ctx.disable_checksum \in BOOLEAN
  BY DEF Context, IsDatagram
<1> HIDE DEF ctx, key, iv, data
<1>3. /\ IsText(packet) /\ Cook!get_conv(packet) = [conv |-> sent.conv, data |-> data]
      /\ Cook!get_conv0(Cook!put_conv0(sent.conv, data)) = [conv |-> sent.conv, data |-> data]
  BY <1>1, ConvComesBack DEF Packet, data
<1> HIDE DEF packet
<1>4. IsText(cooked) /\ Cook!de_cook(ctx, cooked) = packet
  BY <1>1, <1>2, <1>3, UncookedIsRaw
<1>5. Arrived(cooked, NoBurst) = cooked
  BY <1>4, UndamagedArrives
<1> HIDE DEF cooked
<1>6. Delivered(sent, NoBurst) = packet
  BY <1>4, <1>5, Zenon DEF Delivered, ctx, packet, iv, cooked
<1>7. packet # Refused
  BY <1>3, DataAssumption DEF IsText
<1> QED  BY <1>3, <1>6, <1>7, Zenon DEF Recovered, data

-----------------------------------------------------------------------------
(* Checksums.  What AlgorithmProofs says for any polynomial, and of timers for   *)
(* both heaps, is about the operators of its own instances.  They are those of   *)
(* Codecs: unfolded, both are the same.                                          *)

Z == INSTANCE AlgorithmProofs WITH Polynomial <- Zlib, DHEAP <- 2
C == INSTANCE AlgorithmProofs WITH Polynomial <- Castagnoli, DHEAP <- 4

LEMMA LibraryIsSame ==
  ASSUME NEW d, NEW p, NEW q, NEW n
  PROVE  /\ Z!crc32_bitwise(d, p) = Crc32!crc32_bitwise(d, p)
         /\ Z!crc32_halfbyte(d, p) = Crc32!crc32_halfbyte(d, p)
         /\ Z!crc32_1byte(d, p) = Crc32!crc32_1byte(d, p)
         /\ Z!crc32_1byte_tableless(d, p) = Crc32!crc32_1byte_tableless(d, p)
         /\ Z!crc32_1byte_tableless2(d, p) = Crc32!crc32_1byte_tableless2(d, p)
         /\ Z!crc32_4bytes(d, p) = Crc32!crc32_4bytes(d, p)
         /\ Z!crc32_8bytes(d, p) = Crc32!crc32_8bytes(d, p)
         /\ Z!crc32_4x8bytes(d, p) = Crc32!crc32_4x8bytes(d, p)
         /\ Z!crc32_16bytes_prefetch(d, p, n) = Crc32!crc32_16bytes_prefetch(d, p, n)
         /\ Z!crc32_fast(d, p) = Crc32!crc32_fast(d, p)
         /\ Z!crc32_combine(p, q, n) = Crc32!crc32_combine(p, q, n)
<1> USE DEF Z!Byte, Crc32!Byte, Z!Word, Crc32!Word, Z!Xor, Crc32!Xor,
            Z!ShiftRight, Crc32!ShiftRight, Z!ShiftLeft, Crc32!ShiftLeft,
            Z!ByteOf, Crc32!ByteOf, Z!XorAll, Crc32!XorAll,
            Z!Ones, Crc32!Ones, Z!Not, Crc32!Not, Z!Step, Crc32!Step,
            Z!Steps, Crc32!Steps, Z!OverBytes, Crc32!OverBytes
<1>1. Z!crc32_bitwise(d, p) = Crc32!crc32_bitwise(d, p)
  BY Zenon DEF Z!crc32_bitwise, Crc32!crc32_bitwise, Z!BitwiseByte, Crc32!BitwiseByte
<1> USE DEF Z!Lookup0, Crc32!Lookup0
<1>2. Z!crc32_halfbyte(d, p) = Crc32!crc32_halfbyte(d, p)
  BY Zenon DEF Z!crc32_halfbyte, Crc32!crc32_halfbyte, Z!HalfByte, Crc32!HalfByte,
               Z!HalfByteTable, Crc32!HalfByteTable, Z!Low, Crc32!Low
<1>3. Z!crc32_1byte_tableless(d, p) = Crc32!crc32_1byte_tableless(d, p)
  BY Zenon DEF Z!crc32_1byte_tableless, Crc32!crc32_1byte_tableless, Z!Tableless, Crc32!Tableless,
               Z!Times, Crc32!Times
<1>4. Z!crc32_1byte_tableless2(d, p) = Crc32!crc32_1byte_tableless2(d, p)
  BY Zenon DEF Z!crc32_1byte_tableless2, Crc32!crc32_1byte_tableless2, Z!Tableless2, Crc32!Tableless2,
               Z!BitTerm, Crc32!BitTerm
<1> USE DEF Z!TableByte, Crc32!TableByte
<1>5. Z!crc32_1byte(d, p) = Crc32!crc32_1byte(d, p)
  BY Zenon DEF Z!crc32_1byte, Crc32!crc32_1byte
<1>6. ASSUME NEW m, NEW once, NEW least
      PROVE  Z!Sliced(m, once, least, d, p) = Crc32!Sliced(m, once, least, d, p)
  BY Zenon DEF Z!Sliced, Crc32!Sliced, Z!OverBlocks, Crc32!OverBlocks, Z!Behind, Crc32!Behind,
               Z!SlicedBlock, Crc32!SlicedBlock, Z!Lookup, Crc32!Lookup, Z!MaxSlice, Crc32!MaxSlice,
               Z!SlicingBy4, Crc32!SlicingBy4, Z!SlicingBy8, Crc32!SlicingBy8,
               Z!SlicingBy16, Crc32!SlicingBy16, Z!Extended, Crc32!Extended,
               Z!NextSlice, Crc32!NextSlice
<1>7. Z!crc32_combine(p, q, n) = Crc32!crc32_combine(p, q, n)
  BY Zenon DEF Z!crc32_combine, Crc32!crc32_combine, Z!CombineRound, Crc32!CombineRound,
               Z!FourZeroBits, Crc32!FourZeroBits, Z!OneZeroBit, Crc32!OneZeroBit,
               Z!Square, Crc32!Square, Z!Apply, Crc32!Apply
<1>8. QED
  BY ONLY <1>1, <1>2, <1>3, <1>4, <1>5, <1>6, <1>7, Zenon
  DEF Z!crc32_4bytes, Crc32!crc32_4bytes, Z!crc32_8bytes, Crc32!crc32_8bytes,
      Z!crc32_4x8bytes, Crc32!crc32_4x8bytes, Z!crc32_16bytes_prefetch, Crc32!crc32_16bytes_prefetch,
      Z!crc32_fast, Crc32!crc32_fast, Z!crc32_16bytes, Crc32!crc32_16bytes

LEMMA DatagramsIsSame ==
  ASSUME NEW d, NEW p
  PROVE  /\ C!crc32_bitwise(d, p) = Crc32c!crc32_bitwise(d, p)
         /\ C!crc32c_hw(d, p) = Crc32c!crc32c_hw(d, p)
         /\ C!crc32c_sw(d, p) = Crc32c!crc32c_sw(d, p)
<1> USE DEF C!Byte, Crc32c!Byte, C!Word, Crc32c!Word, C!Xor, Crc32c!Xor,
            C!ShiftRight, Crc32c!ShiftRight, C!ByteOf, Crc32c!ByteOf, C!XorAll, Crc32c!XorAll,
            C!Ones, Crc32c!Ones, C!Not, Crc32c!Not, C!Step, Crc32c!Step,
            C!Steps, Crc32c!Steps, C!OverBytes, Crc32c!OverBytes,
            C!BitwiseByte, Crc32c!BitwiseByte, C!OverBlocks, Crc32c!OverBlocks, C!Behind, Crc32c!Behind
<1>1. C!crc32_bitwise(d, p) = Crc32c!crc32_bitwise(d, p)
  BY Zenon DEF C!crc32_bitwise, Crc32c!crc32_bitwise
<1>2. C!crc32c_hw(d, p) = Crc32c!crc32c_hw(d, p)
  BY Zenon DEF C!crc32c_hw, Crc32c!crc32c_hw, C!InstructionLoop, Crc32c!InstructionLoop,
               C!Instruction, Crc32c!Instruction
<1>3. C!crc32c_sw(d, p) = Crc32c!crc32c_sw(d, p)
  BY Zenon DEF C!crc32c_sw, Crc32c!crc32c_sw, C!Lookup0, Crc32c!Lookup0, C!TableByte, Crc32c!TableByte,
               C!Sliced, Crc32c!Sliced,
               C!SlicedBlock, Crc32c!SlicedBlock, C!Lookup, Crc32c!Lookup, C!MaxSlice, Crc32c!MaxSlice,
               C!SlicingBy4, Crc32c!SlicingBy4, C!SlicingBy8, Crc32c!SlicingBy8,
               C!SlicingBy16, Crc32c!SlicingBy16, C!Extended, Crc32c!Extended,
               C!NextSlice, Crc32c!NextSlice
<1>4. QED
  BY ONLY <1>1, <1>2, <1>3

\* Both ways to compute the datagrams' checksum are the division bit by bit.
LEMMA DatagramsIsBitwise ==
  ASSUME NEW data \in Seq(Byte)
  PROVE  /\ Crc32c!crc32c_hw(data, {}) = Crc32c!crc32_bitwise(data, {})
         /\ Crc32c!crc32c_sw(data, {}) = Crc32c!crc32_bitwise(data, {})
         /\ crc32c(data) = C!crc32_bitwise(data, {})
<1>1. Castagnoli \in C!Word /\ data \in Seq(C!Byte) /\ {} \in C!Word
  BY DEF Castagnoli, C!Word, C!Byte, Byte
<1>2. C!crc32c_hw(data, {}) = C!crc32_bitwise(data, {}) /\ C!crc32c_sw(data, {}) = C!crc32_bitwise(data, {})
  BY <1>1, C!InstructionsAndSlicesAgree
<1>3. crc32c(data) = Crc32c!crc32c_hw(data, {}) \/ crc32c(data) = Crc32c!crc32c_sw(data, {})
  BY Zenon DEF crc32c, Crc32c!crc32c
<1> QED  BY <1>2, <1>3, DatagramsIsSame

\* And so are all of the library's.
LEMMA LibraryAgrees ==
  ASSUME NEW m \in Seq(Byte), NEW p \in Word
  PROVE  LET bitwise == Crc32!crc32_bitwise(m, p)
         IN  /\ Crc32!crc32_halfbyte(m, p) = bitwise
             /\ Crc32!crc32_1byte(m, p) = bitwise
             /\ Crc32!crc32_1byte_tableless(m, p) = bitwise
             /\ Crc32!crc32_1byte_tableless2(m, p) = bitwise
             /\ Crc32!crc32_4bytes(m, p) = bitwise
             /\ Crc32!crc32_8bytes(m, p) = bitwise
             /\ Crc32!crc32_4x8bytes(m, p) = bitwise
             /\ Crc32!crc32_16bytes_prefetch(m, p, 8) = bitwise
             /\ Crc32!crc32_fast(m, p) = bitwise
<1>1. Zlib = Z!Zlibs /\ m \in Seq(Z!Byte) /\ p \in Z!Word /\ 8 \in Nat
  BY DEF Zlib, Z!Zlibs, Z!Word, Z!Byte, Word, Byte
<1>2. LET bitwise == Z!crc32_bitwise(m, p)
      IN  /\ Z!crc32_halfbyte(m, p) = bitwise
          /\ Z!crc32_1byte(m, p) = bitwise
          /\ Z!crc32_1byte_tableless(m, p) = bitwise
          /\ Z!crc32_1byte_tableless2(m, p) = bitwise
          /\ Z!crc32_4bytes(m, p) = bitwise
          /\ Z!crc32_8bytes(m, p) = bitwise
          /\ Z!crc32_4x8bytes(m, p) = bitwise
          /\ Z!crc32_16bytes_prefetch(m, p, 8) = bitwise
          /\ Z!crc32_fast(m, p) = bitwise
  BY <1>1, Z!LibraryIsBitwise
<1> QED  BY <1>2, LibraryIsSame

\* The checksum of two parts.
LEMMA PartsOfAMessage ==
  ASSUME NEW m \in Seq(Byte), NEW cut \in 0 .. Len(m)
  PROVE  LET first == Crc32!crc32_fast(SubSeq(m, 1, cut), {})
             rest  == SubSeq(m, cut + 1, Len(m))
         IN  /\ Crc32!crc32_fast(rest, first) = Crc32!crc32_bitwise(m, {})
             /\ Crc32!crc32_combine(first, Crc32!crc32_fast(rest, {}), Len(rest)) = Crc32!crc32_bitwise(m, {})
<1> DEFINE head  == SubSeq(m, 1, cut)
           rest  == SubSeq(m, cut + 1, Len(m))
           first == Z!crc32_bitwise(head, {})
<1>1. Zlib \in Z!Word /\ m \in Seq(Z!Byte) /\ Z!Byte = Byte /\ Z!Word = Word /\ {} \in Word
  BY DEF Zlib, Z!Word, Z!Byte, Word, Byte
<1>2. /\ rest \in Seq(Byte) /\ head \in Seq(Byte)
      /\ Z!crc32_bitwise(rest, first) = Z!crc32_bitwise(m, {})
      /\ Z!crc32_combine(first, Z!crc32_bitwise(rest, {}), Len(rest)) = Z!crc32_bitwise(m, {})
  <2>1. Z!ContinuedAndCombined(m, cut)
    BY <1>1, Z!PartsAgree
  <2>2. QED
    BY <1>1, <2>1, Zenon DEF Z!ContinuedAndCombined
<1>3. first \in Word
  BY <1>1, Z!BitwiseIsWord
<1> HIDE DEF head, rest, first
<1>4. Crc32!crc32_fast(head, {}) = first
  BY <1>1, <1>2, LibraryAgrees, LibraryIsSame DEF first
<1>5. Crc32!crc32_fast(rest, first) = Z!crc32_bitwise(rest, first)
  BY <1>2, <1>3, LibraryAgrees, LibraryIsSame
<1>6. Crc32!crc32_fast(rest, {}) = Z!crc32_bitwise(rest, {})
  BY <1>1, <1>2, LibraryAgrees, LibraryIsSame
<1>7. \A p, q, n : Z!crc32_combine(p, q, n) = Crc32!crc32_combine(p, q, n)
  BY LibraryIsSame
<1>8. Z!crc32_bitwise(m, {}) = Crc32!crc32_bitwise(m, {})
  BY LibraryIsSame
<1> QED  BY <1>2, <1>4, <1>5, <1>6, <1>7, <1>8 DEF head, rest

\* Whatever the message: every way to compute its checksum gives the remainder of the
\* division bit by bit, and so does its checksum in two parts.
THEOREM AllChecksumsAgree == Spec => []ChecksumsAgree
<1>1. ASSUME InputOK, input.kind = "checksum"
      PROVE  ChecksumsAgree
  <2> DEFINE m == input.args
  <2>1. m \in Seq(Byte) /\ {} \in Word
    BY <1>1, InputsAssumption DEF InputOK, Word
  <2> HIDE DEF m
  <2>2. LET bitwise == Crc32!crc32_bitwise(m, {})
        IN  /\ Crc32!crc32_halfbyte(m, {}) = bitwise
            /\ Crc32!crc32_1byte(m, {}) = bitwise
            /\ Crc32!crc32_1byte_tableless(m, {}) = bitwise
            /\ Crc32!crc32_1byte_tableless2(m, {}) = bitwise
            /\ Crc32!crc32_4bytes(m, {}) = bitwise
            /\ Crc32!crc32_8bytes(m, {}) = bitwise
            /\ Crc32!crc32_4x8bytes(m, {}) = bitwise
            /\ Crc32!crc32_16bytes_prefetch(m, {}, 8) = bitwise
            /\ Crc32!crc32_fast(m, {}) = bitwise
    BY <2>1, LibraryAgrees
  <2>3. /\ Crc32c!crc32c_hw(m, {}) = Crc32c!crc32_bitwise(m, {})
        /\ Crc32c!crc32c_sw(m, {}) = Crc32c!crc32_bitwise(m, {})
    BY <2>1, DatagramsIsBitwise
  <2>4. \A cut \in {0, 1, Len(m) \div 2, Len(m)} \cap (0 .. Len(m)) :
          LET first == Crc32!crc32_fast(SubSeq(m, 1, cut), {})
              rest  == SubSeq(m, cut + 1, Len(m))
          IN  /\ Crc32!crc32_fast(rest, first) = Crc32!crc32_bitwise(m, {})
              /\ Crc32!crc32_combine(first, Crc32!crc32_fast(rest, {}), Len(rest)) = Crc32!crc32_bitwise(m, {})
    BY <2>1, PartsOfAMessage
  <2>5. QED
    BY <2>2, <2>3, <2>4, Zenon DEF ChecksumsAgree, m
<1>2. InputOK => ChecksumsAgree
  BY <1>1 DEF ChecksumsAgree
<1> QED  BY <1>2, InputsAreGiven, PTL

-----------------------------------------------------------------------------
(* Damage *)

\* The burst lies in the first n bytes.
FitsIn(burst, n) == IsBurst(burst) /\ n \in Nat /\ burst.at + Len(burst.flips) <= n

\* What arrives, byte by byte.
LEMMA ArrivedBytes ==
  ASSUME NEW d, IsText(d), NEW burst, IsBurst(burst)
  PROVE  LET a == Arrived(d, burst)
         IN  /\ IsText(a) /\ Len(a) = Len(d)
             /\ \A i \in 1 .. Len(d) :
                  a[i] = IF i - burst.at \in 1 .. Len(burst.flips)
                         THEN Xor(d[i], burst.flips[i - burst.at]) ELSE d[i]
<1> DEFINE m == Len(burst.flips)
           n == Len(d)
           F(i) == IF i - burst.at \in DOMAIN burst.flips
                   THEN Xor(d[i], burst.flips[i - burst.at]) ELSE d[i]
<1>1. burst.at \in Nat /\ burst.flips \in Seq(Byte) /\ DOMAIN burst.flips = 1 .. m /\ m \in Nat
  BY DEF IsBurst
<1>2. d \in Seq(Byte) /\ n \in Nat /\ DOMAIN d = 1 .. n
  BY DEF IsText
<1>3. \A x, y \in Byte : Xor(x, y) \in Byte
  BY DEF Byte, Xor
<1>4. \A k \in 1 .. m : burst.flips[k] \in Byte
  BY <1>1
<1>5. \A i \in 1 .. n : d[i] \in Byte
  BY <1>2
<1> HIDE DEF m, n
<1>6. \A i \in 1 .. n : F(i) \in Byte
  <2>1. ASSUME NEW i \in 1 .. n
        PROVE  F(i) \in Byte
    <3>1. CASE i - burst.at \in DOMAIN burst.flips
      <4>1. burst.flips[i - burst.at] \in Byte /\ d[i] \in Byte
        BY <1>1, <1>4, <1>5, <3>1
      <4>2. QED
        BY <1>3, <3>1, <4>1, Zenon
    <3>2. CASE ~ (i - burst.at \in DOMAIN burst.flips)
      BY <1>5, <3>2, Zenon
    <3>3. QED
      BY <3>1, <3>2
  <2>2. QED
    BY <2>1, Zenon
<1>7. Arrived(d, burst) = [i \in 1 .. n |-> F(i)]
  BY <1>2, Zenon DEF Arrived
<1> DEFINE f == [i \in 1 .. n |-> F(i)]
<1>8. \A i \in 1 .. n : f[i] = IF i - burst.at \in 1 .. m
                               THEN Xor(d[i], burst.flips[i - burst.at]) ELSE d[i]
  BY <1>1, Zenon
<1>9. f \in [1 .. n -> Byte]
  BY <1>6, Zenon
<1> HIDE DEF f, F
<1>10. f \in Seq(Byte) /\ Len(f) = n
  BY <1>2, <1>9
<1>11. Arrived(d, burst) = f
  BY <1>7, Zenon DEF f
<1>12. IsText(f) /\ Len(f) = n
  BY <1>2, <1>10 DEF IsText
<1> QED  BY <1>8, <1>11, <1>12, Zenon DEF m, n

\* Two texts are the same if they have the same bytes.
LEMMA SameText ==
  ASSUME NEW a, IsText(a), NEW b, IsText(b), Len(a) = Len(b), \A i \in 1 .. Len(a) : a[i] = b[i]
  PROVE  a = b
BY SameSequence DEF IsText

\* Damage before the pattern is met is damage after it.
LEMMA DamageCommutes ==
  ASSUME NEW d, IsText(d), NEW pat, IsText(pat), pat # << >>, NEW burst, IsBurst(burst)
  PROVE  WithKey(Arrived(d, burst), pat, 0) = Arrived(WithKey(d, pat, 0), burst)
<1> DEFINE a == Arrived(d, burst)
           k == WithKey(d, pat, 0)
           b == WithKey(a, pat, 0)
           c == Arrived(k, burst)
           n == Len(d)
           hit(i) == i - burst.at \in 1 .. Len(burst.flips)
           flip(i) == burst.flips[i - burst.at]
           key(i) == KeyAt(pat, 0 + (i - 1))
<1>1. IsText(a) /\ Len(a) = n /\ \A i \in 1 .. n : a[i] = IF hit(i) THEN Xor(d[i], flip(i)) ELSE d[i]
  BY ArrivedBytes, Zenon
<1>2. IsText(k) /\ Len(k) = n
  BY XorWithTile
<1>3. \A i \in 1 .. n : k[i] = Xor(d[i], key(i))
  BY DEF WithKey
<1> HIDE DEF k
<1>4. IsText(c) /\ Len(c) = n /\ \A i \in 1 .. n : c[i] = IF hit(i) THEN Xor(k[i], flip(i)) ELSE k[i]
  BY <1>2, ArrivedBytes, ZenonT(60)
<1> HIDE DEF a, c
<1>5. IsText(b) /\ Len(b) = n
  BY <1>1, XorWithTile
<1>6. \A i \in 1 .. n : b[i] = Xor(a[i], key(i))
  BY <1>1 DEF WithKey
<1> HIDE DEF b, n, key, flip, hit
<1>7. \A x, y, z : Xor(Xor(x, y), z) = Xor(Xor(x, z), y)
  BY DEF Xor
<1>8. \A i \in 1 .. n : b[i] = c[i]
  BY <1>1, <1>3, <1>4, <1>6, <1>7
<1>9. b = c
  BY <1>4, <1>5, <1>8, SameText
<1> QED  BY <1>9 DEF a, b, c, k

\* The key does not spread damage.
LEMMA DamageKeepsItsPlace ==
  ASSUME NEW key, IsText(key), NEW ctx, ctx.key_tile = Cook!prepare_key(key),
         NEW d, IsText(d), NEW burst, IsBurst(burst)
  PROVE  Cook!encrypt_0(ctx, Arrived(Cook!encrypt_0(ctx, d), burst)) = Arrived(d, burst)
<1>1. CASE key = << >>
  BY <1>1, EncryptIs
<1>2. CASE key # << >>
  <2> DEFINE once == WithKey(d, key, 0)
             hurt == Arrived(once, burst)
  <2>1. IsText(once) /\ WithKey(once, key, 0) = d
    BY <1>2, XorWithTile
  <2>2. WithKey(hurt, key, 0) = Arrived(WithKey(once, key, 0), burst)
    <3> HIDE DEF once
    <3>1. QED
      BY <1>2, <2>1, DamageCommutes
  <2> HIDE DEF once
  <2>3. IsText(hurt)
    BY <2>1, ArrivedBytes, Zenon
  <2>4. Cook!encrypt_0(ctx, d) = once
    BY <1>2, EncryptIs DEF once
  <2> HIDE DEF hurt
  <2>5. Cook!encrypt_0(ctx, hurt) = WithKey(hurt, key, 0)
    BY <1>2, <2>3, EncryptIs
  <2>6. QED
    BY <2>1, <2>2, <2>4, <2>5, Zenon DEF hurt
<1> QED  BY <1>1, <1>2

\* The bytes in front of the initial vector, of the initial vector and of its length.
HasVector(y, x, iv) ==
  /\ IsText(y) /\ Len(y) = Len(x) + Len(iv) + 1
  /\ \A q \in 1 .. Len(x) : y[q] = x[q]
  /\ \A q \in 1 .. Len(iv) : y[Len(x) + q] = iv[q]
  /\ y[Len(x) + Len(iv) + 1] = Cook!BitsOf(Len(iv))

LEMMA VectorBytes ==
  ASSUME NEW iv, IsText(iv), Len(iv) \in 0 .. 255, NEW x, IsText(x)
  PROVE  HasVector(WithVector(x, iv), x, iv)
<1> DEFINE last == Cook!BitsOf(Len(iv))
           c == << last >>
           h == x \o iv
           y == h \o c
<1>1. last \in Byte
  BY BitsOfByte
<1>2. x \in Seq(Byte) /\ iv \in Seq(Byte) /\ Len(x) \in Nat /\ Len(iv) \in Nat
  BY DEF IsText
<1> HIDE DEF last
<1>3. c \in Seq(Byte) /\ Len(c) = 1 /\ c[1] = last
  BY <1>1
<1> HIDE DEF c
<1>4. h \in Seq(Byte) /\ IsConcatenation(h, x, iv)
  BY <1>2, Concatenation
<1> HIDE DEF h
<1>5. y \in Seq(Byte) /\ IsConcatenation(y, h, c)
  BY <1>3, <1>4, Concatenation, SMTT(30)
<1> HIDE DEF y
<1>6. /\ Len(h) = Len(x) + Len(iv)
      /\ \A q \in 1 .. Len(x) : h[q] = x[q]
      /\ \A q \in 1 .. Len(iv) : h[Len(x) + q] = iv[q]
  BY <1>4 DEF IsConcatenation
<1>7. /\ Len(y) = Len(h) + 1 /\ y[Len(h) + 1] = last
      /\ \A q \in 1 .. Len(h) : y[q] = h[q]
  <2>1. 1 \in 1 .. 1
    OBVIOUS
  <2>2. QED
    BY <1>3, <1>5, <2>1 DEF IsConcatenation
<1>8. \A q \in 1 .. Len(x) : q \in 1 .. Len(h)
  BY <1>2, <1>6
<1>9. \A q \in 1 .. Len(iv) : Len(x) + q \in 1 .. Len(h)
  BY <1>2, <1>6
<1>10. IsText(y)
  BY <1>2, <1>5, <1>6, <1>7 DEF IsText
<1>11. WithVector(x, iv) = y
  BY Zenon DEF WithVector, y, h, c, last
<1>12. /\ \A q \in 1 .. Len(x) : y[q] = x[q]
       /\ \A q \in 1 .. Len(iv) : y[Len(x) + q] = iv[q]
  BY <1>6, <1>7, <1>8, <1>9, SMTT(30)
<1>13. y[Len(x) + Len(iv) + 1] = last /\ Len(y) = Len(x) + Len(iv) + 1
  BY <1>6, <1>7
<1> QED  BY <1>10, <1>11, <1>12, <1>13, ZenonT(60) DEF last, HasVector

\* Damage in front of the initial vector leaves it as it is.
LEMMA DamageInFront ==
  ASSUME NEW iv, IsText(iv), Len(iv) \in 0 .. 255, NEW x, IsText(x),
         NEW burst, FitsIn(burst, Len(x))
  PROVE  Arrived(WithVector(x, iv), burst) = WithVector(Arrived(x, burst), iv)
<1> DEFINE y == WithVector(x, iv)
           a == Arrived(x, burst)
           z == WithVector(a, iv)
           r == Arrived(y, burst)
           n == Len(x)
           l == Len(iv)
           m == Len(burst.flips)
           last == Cook!BitsOf(l)
           hit(i) == i - burst.at \in 1 .. m
           flip(i) == burst.flips[i - burst.at]
<1>1. IsBurst(burst) /\ burst.at \in Nat /\ m \in Nat /\ n \in Nat /\ l \in Nat /\ burst.at + m <= n
  BY DEF FitsIn, IsBurst, IsText
<1>2. IsText(a) /\ Len(a) = n /\ \A i \in 1 .. n : a[i] = IF hit(i) THEN Xor(x[i], flip(i)) ELSE x[i]
  BY <1>1, ArrivedBytes, ZenonT(60)
<1>3. /\ IsText(y) /\ Len(y) = n + l + 1 /\ \A q \in 1 .. n : y[q] = x[q]
      /\ \A q \in 1 .. l : y[n + q] = iv[q]
      /\ y[n + l + 1] = last
  <2>1. HasVector(y, x, iv)
    BY VectorBytes
  <2>2. QED
    BY <2>1, Zenon DEF HasVector
<1> HIDE DEF a
<1>4. /\ IsText(z) /\ Len(z) = Len(a) + l + 1 /\ \A q \in 1 .. Len(a) : z[q] = a[q]
      /\ \A q \in 1 .. l : z[Len(a) + q] = iv[q]
      /\ z[Len(a) + l + 1] = last
  <2>1. HasVector(z, a, iv)
    BY <1>2, VectorBytes
  <2>2. QED
    BY <2>1, Zenon DEF HasVector
<1> HIDE DEF y, z
<1>5. IsText(r) /\ Len(r) = Len(y)
      /\ \A i \in 1 .. Len(y) : r[i] = IF hit(i) THEN Xor(y[i], flip(i)) ELSE y[i]
  BY <1>1, <1>3, ArrivedBytes, ZenonT(60)
<1> HIDE DEF r
<1>6. \A i \in 1 .. Len(y) : i > n => ~ hit(i)
  BY <1>1, <1>3
<1> HIDE DEF hit, flip, n, l, last, m
<1>7. ASSUME NEW i \in 1 .. Len(y)
      PROVE  r[i] = z[i]
  <2>1. CASE i <= n
    <3>1. i \in 1 .. n
      BY <1>1, <1>3, <2>1, SMTT(30)
    <3>2. y[i] = x[i] /\ z[i] = a[i]
      BY <1>2, <1>3, <1>4, <3>1
    <3>3. QED
      BY <1>2, <1>5, <3>1, <3>2, SMTT(30)
  <2>2. CASE i > n
    <3>1. r[i] = y[i]
      BY <1>5, <1>6, <2>2
    <3>2. i - n \in 1 .. l \/ i = n + l + 1
      BY <1>1, <1>3, <2>2
    <3>3. CASE i - n \in 1 .. l
      <4>1. n + (i - n) = i
        BY <1>1, SMTT(30)
      <4>2. y[n + (i - n)] = iv[i - n] /\ z[n + (i - n)] = iv[i - n]
        BY <1>2, <1>3, <1>4, <3>3, SMTT(30)
      <4>3. QED
        BY <3>1, <4>1, <4>2
    <3>4. CASE i = n + l + 1
      BY <1>2, <1>3, <1>4, <3>1, <3>4, SMTT(30)
    <3>5. QED
      BY <3>2, <3>3, <3>4
  <2>3. QED
    BY <1>1, <2>1, <2>2
<1>8. r = z
  <2>1. Len(r) = Len(z)
    BY <1>2, <1>3, <1>4, <1>5, SMTT(30)
  <2>2. \A i \in 1 .. Len(r) : r[i] = z[i]
    BY <1>5, <1>7
  <2>3. QED
    BY <1>4, <1>5, <2>1, <2>2, SameText, SMTT(30)
<1> QED  BY <1>8 DEF r, y, z, a

\* The initial vector does not spread damage either.
LEMMA DamageIsFound ==
  ASSUME NEW iv, IsText(iv), NEW d, IsText(d), NEW burst, FitsIn(burst, Len(d)), NEW ctx,
         ctx.iv_min \in Nat, ctx.iv_max \in 0 .. 255, Len(iv) \in ctx.iv_min .. ctx.iv_max
  PROVE  Cook!de_obscure(ctx, Arrived(Cook!do_obscure(d, iv), burst)) = Arrived(d, burst)
<1> DEFINE x == Cook!xor_with_pattern(d, iv)
           a == Arrived(x, burst)
<1>1. Len(iv) \in 0 .. 255
  <2> DEFINE l == Len(iv)
  <2>1. PICK low \in Nat, high \in 0 .. 255 : low = ctx.iv_min /\ high = ctx.iv_max /\ l \in low .. high
    OBVIOUS
  <2>2. l \in low .. high
    BY <2>1
  <2> HIDE DEF l
  <2>3. l \in 0 .. 255
    BY ONLY <2>2
  <2>4. QED
    BY <2>3 DEF l
<1>2. IsBurst(burst) /\ d # << >> /\ Len(d) # 0
  BY DEF FitsIn, IsBurst
<1>3. /\ IsText(x) /\ Len(x) = Len(d)
      /\ Cook!xor_with_pattern(a, iv) = Arrived(d, burst)
  <2>1. CASE iv = << >>
    <3>1. \A z : Cook!xor_with_pattern(z, iv) = z
      BY <2>1, Zenon DEF Cook!xor_with_pattern
    <3>2. QED
      BY <3>1
  <2>2. CASE iv # << >>
    <3> DEFINE once == WithKey(d, iv, 0)
               hurt == Arrived(once, burst)
    <3>1. /\ Cook!xor_tile(16, d, Cook!Tile(iv, 16)) = once
          /\ IsText(once) /\ Len(once) = Len(d) /\ WithKey(once, iv, 0) = d
      BY <2>2, XorWithTile
    <3> HIDE DEF once
    <3>2. IsText(hurt) /\ Len(hurt) = Len(once)
      BY <1>2, <3>1, ArrivedBytes, Zenon
    <3>3. WithKey(hurt, iv, 0) = Arrived(d, burst)
      BY <1>2, <2>2, <3>1, DamageCommutes
    <3>4. x = once
      BY <1>2, <2>2, <3>1, Zenon DEF Cook!xor_with_pattern
    <3> HIDE DEF x
    <3>5. a = hurt
      BY <3>4
    <3> HIDE DEF a, hurt
    <3>6. hurt # << >>
      BY <1>2, <3>1, <3>2
    <3>7. Cook!xor_tile(16, hurt, Cook!Tile(iv, 16)) = WithKey(hurt, iv, 0)
      BY <2>2, <3>2, XorWithTile
    <3>8. Cook!xor_with_pattern(hurt, iv) = WithKey(hurt, iv, 0)
      BY <2>2, <3>6, <3>7, Zenon DEF Cook!xor_with_pattern
    <3>9. QED
      BY <3>1, <3>3, <3>4, <3>5, <3>8
  <2>3. QED
    BY <2>1, <2>2
<1>4. Cook!do_obscure(d, iv) = WithVector(x, iv)
  BY Zenon DEF Cook!do_obscure, WithVector
<1> HIDE DEF x
<1>5. Arrived(WithVector(x, iv), burst) = WithVector(a, iv)
  BY <1>1, <1>3, DamageInFront
<1>6. IsText(a)
  BY <1>2, <1>3, ArrivedBytes, Zenon
<1> HIDE DEF a
<1>7. Cook!de_obscure(ctx, WithVector(a, iv)) = Cook!xor_with_pattern(a, iv)
  BY <1>6, VectorIsFound
<1> QED  BY <1>3, <1>4, <1>5, <1>7, SMTT(30)

\* Different bytes are different numbers.
LEMMA ReadTellsApart ==
  ASSUME NEW v \in Seq(Byte), Len(v) = 4, NEW w \in Seq(Byte), Len(w) = 4,
         Cook!read_u32(v) = Cook!read_u32(w)
  PROVE  v = w
<1>0. \A x \in Seq(Byte) : Len(x) = 4 => \A j \in 1 .. 4 : x[j] \in Byte
  <2>1. ASSUME NEW x \in Seq(Byte), Len(x) = 4
        PROVE  \A j \in 1 .. 4 : x[j] \in Byte
    <3>1. \A j \in 1 .. Len(x) : x[j] \in Byte
      OBVIOUS
    <3>2. QED
      BY <2>1, <3>1
  <2>2. QED
    BY <2>1
<1>1. \A x \in Seq(Byte) : Len(x) = 4 => \A c, k : k \in 1 .. 4 /\ c \in 0 .. 7 =>
        (c \in x[(4 - k) + 1] <=> c + 8 * (k - 1) \in Cook!read_u32(x))
  <2>1. ASSUME NEW x \in Seq(Byte), Len(x) = 4, NEW k \in 1 .. 4, NEW c \in 0 .. 7
        PROVE  c \in x[(4 - k) + 1] <=> c + 8 * (k - 1) \in Cook!read_u32(x)
    <3> DEFINE r == Cook!Reverse(x)
    <3>1. r = [j \in 1 .. 4 |-> x[(4 - j) + 1]]
      BY <2>1 DEF Cook!Reverse
    <3>2. DOMAIN r = 1 .. 4 /\ \A j \in 1 .. 4 : r[j] = x[(4 - j) + 1] /\ r[j] \in Byte
      <4>1. \A j \in 1 .. 4 : (4 - j) + 1 \in 1 .. 4
        OBVIOUS
      <4>2. \A j \in 1 .. 4 : x[j] \in Byte
        BY <2>1, SMTT(30)
      <4>3. QED
        BY <3>1, <4>1, <4>2
    <3> HIDE DEF r
    <3>3. Cook!read_u32(x) = UNION {{b + 8 * (j - 1) : b \in r[j]} : j \in DOMAIN r}
      BY DEF Cook!read_u32, Cook!WordOf, r
    <3>4. ASSUME c \in r[k]
          PROVE  c + 8 * (k - 1) \in Cook!read_u32(x)
      BY <3>2, <3>3, <3>4
    <3>5. ASSUME c + 8 * (k - 1) \in Cook!read_u32(x)
          PROVE  c \in r[k]
      <4>1. PICK j \in 1 .. 4 : c + 8 * (k - 1) \in {b + 8 * (j - 1) : b \in r[j]}
        BY <3>2, <3>3, <3>5
      <4>2. PICK b \in r[j] : c + 8 * (k - 1) = b + 8 * (j - 1)
        BY <4>1
      <4>3. b \in 0 .. 7
        BY <3>2, <4>2 DEF Byte
      <4>4. j = k /\ b = c
        BY <4>2, <4>3
      <4>5. QED
        BY <4>2, <4>4
    <3>6. QED
      BY <3>2, <3>4, <3>5
  <2>2. QED
    BY <2>1
<1>2. \A k \in 1 .. 4 : v[(4 - k) + 1] = w[(4 - k) + 1]
  <2>1. ASSUME NEW k \in 1 .. 4
        PROVE  v[(4 - k) + 1] = w[(4 - k) + 1]
    <3>1. (4 - k) + 1 \in 1 .. 4
      OBVIOUS
    <3>2. v[(4 - k) + 1] \subseteq 0 .. 7 /\ w[(4 - k) + 1] \subseteq 0 .. 7
      <4>1. \A j \in 1 .. 4 : v[j] \in Byte /\ w[j] \in Byte
        BY <1>0
      <4>2. QED
        BY <3>1, <4>1 DEF Byte
    <3>3. \A c \in 0 .. 7 : c \in v[(4 - k) + 1] <=> c \in w[(4 - k) + 1]
      BY <1>1
    <3>4. QED
      BY <3>2, <3>3
  <2>2. QED
    BY <2>1
<1>3. \A i \in 1 .. 4 : 4 - (4 - i) = i /\ 4 - (4 - i + 1) + 1 = i /\ 4 - i + 1 \in 1 .. 4
  OBVIOUS
<1>4. \A i \in 1 .. 4 : v[i] = w[i]
  BY <1>2, <1>3
<1> QED  BY <1>4, SameSequence

\* Damage of the data changes its checksum.
LEMMA DamageChangesChecksum ==
  ASSUME NEW data, IsText(data), NEW burst, FitsIn(burst, Len(data))
  PROVE  crc32c(Arrived(data, burst)) # crc32c(data)
<1> DEFINE a == Arrived(data, burst)
           at == burst.at
           m == Len(burst.flips)
           n == Len(data)
<1>1. /\ IsText(a) /\ Len(a) = n
      /\ \A i \in 1 .. n : a[i] = IF i - at \in 1 .. m THEN Xor(data[i], burst.flips[i - at]) ELSE data[i]
  BY ArrivedBytes, Zenon DEF FitsIn
<1>2. at \in Nat /\ m \in 1 .. 4 /\ n \in Nat /\ at + m <= n
  BY DEF FitsIn, IsBurst, IsText
<1>3. PICK k \in 1 .. m : burst.flips[k] # {}
  BY DEF FitsIn, IsBurst
<1> HIDE DEF a, at, m, n
<1>4. \A i \in 1 .. n : i <= at \/ i > at + m => data[i] = a[i]
  <2>1. \A i \in 1 .. n : i <= at \/ i > at + m => ~ (i - at \in 1 .. m)
    BY <1>2
  <2>2. QED
    BY <1>1, <2>1
<1>5. data[at + k] # a[at + k] /\ at + k \in at + 1 .. at + m
  <2>1. at + k \in 1 .. n /\ (at + k) - at = k /\ at + k \in at + 1 .. at + m
    BY <1>2
  <2>2. a[at + k] = Xor(data[at + k], burst.flips[k])
    BY <1>1, <2>1
  <2>3. \A x, f : f # {} => Xor(x, f) # x
    BY DEF Xor
  <2>4. QED
    BY <1>3, <2>1, <2>2, <2>3
<1>6. C!DifferIn(data, a, at, m)
  BY <1>1, <1>2, <1>4, <1>5 DEF C!DifferIn, n
<1>7. Castagnoli \in C!Word /\ 31 \in Castagnoli /\ C!Byte = Byte
  BY DEF Castagnoli, C!Word, C!Byte, Byte
<1>8. data \in Seq(Byte) /\ a \in Seq(Byte)
  BY <1>1 DEF IsText
<1>9. C!crc32_bitwise(data, {}) # C!crc32_bitwise(a, {})
  BY <1>6, <1>7, <1>8, C!BurstIsNoticed
<1> QED  BY <1>8, <1>9, DatagramsIsBitwise DEF a

\* What is damaged in its data or in its checksum is refused.
LEMMA DamageIsRefused ==
  ASSUME NEW ctx, ~ ctx.disable_checksum, NEW data, IsText(data), NEW burst, IsBurst(burst),
         \/ burst.at + Len(burst.flips) <= Len(data)
         \/ burst.at >= Len(data) /\ burst.at + Len(burst.flips) <= Len(data) + 4
  PROVE  LET checked == Cook!put_crc32(ctx, data)
         IN  /\ IsText(checked) /\ FitsIn(burst, Len(checked))
             /\ IsText(Arrived(checked, burst))
             /\ Cook!rm_crc32(ctx, Arrived(checked, burst)) = Refused
<1> DEFINE w == Cook!write_u32(crc32c(data))
           y == data \o w
           a == Arrived(y, burst)
           n == Len(data)
           at == burst.at
           m == Len(burst.flips)
           len == Len(a) - 4
           s == SubSeq(a, 1, len)
           t == SubSeq(a, len + 1, Len(a))
           hit(i) == i - at \in 1 .. m
           flip(i) == burst.flips[i - at]
<1>1. Cook!put_crc32(ctx, data) = y
  BY Zenon DEF Cook!put_crc32
<1>2. Cook!rm_crc32(ctx, a) =
        CASE ctx.disable_checksum -> a
          [] ~ctx.disable_checksum /\ len < 0 -> Refused
          [] ~ctx.disable_checksum /\ len >= 0 ->
               IF Cook!read_u32(t) = crc32c(s) THEN s ELSE Refused
  <2> HIDE DEF a
  <2>1. QED
    BY Zenon DEF Cook!rm_crc32
<1>3. w \in Seq(Byte) /\ Len(w) = 4 /\ Cook!read_u32(w) = crc32c(data)
  BY ChecksumIsWord, WordIsRead
<1>4. data \in Seq(Byte) /\ n \in Nat
  BY DEF IsText
<1> HIDE DEF w
<1>5. /\ IsText(y) /\ Len(y) = n + 4
      /\ \A i \in 1 .. n : y[i] = data[i]
      /\ \A i \in 1 .. 4 : y[n + i] = w[i]
  <2>1. y \in Seq(Byte) /\ IsConcatenation(y, data, w)
    BY <1>3, <1>4, Concatenation
  <2> HIDE DEF y
  <2>2. QED
    BY <1>3, <1>4, <2>1 DEF IsConcatenation, IsText
<1> HIDE DEF y
<1>6. /\ IsText(a) /\ Len(a) = Len(y)
      /\ \A i \in 1 .. Len(y) : a[i] = IF hit(i) THEN Xor(y[i], flip(i)) ELSE y[i]
  BY <1>5, ArrivedBytes, Zenon
<1>7. at \in Nat /\ m \in 1 .. 4 /\ m \in Nat /\ (at + m <= n \/ (at >= n /\ at + m <= n + 4))
  BY DEF IsBurst
<1>8. FitsIn(burst, Len(y))
  BY <1>4, <1>5, <1>7 DEF FitsIn
<1> HIDE DEF a
<1>9. len = n /\ Len(a) = n + 4 /\ len >= 0 /\ ~ (len < 0)
  BY <1>4, <1>5, <1>6
<1> HIDE DEF len
<1>10. /\ s \in Seq(Byte) /\ Len(s) = n /\ \A i \in 1 .. n : s[i] = a[i]
  BY <1>4, <1>6, <1>9 DEF IsText
<1>11. /\ t \in Seq(Byte) /\ Len(t) = 4 /\ \A i \in 1 .. 4 : t[i] = a[n + i]
  <2>1. a \in Seq(Byte) /\ n \in Nat /\ n + 4 \in Nat /\ n <= n + 4 /\ n + 4 <= Len(a)
    BY <1>4, <1>6, <1>9 DEF IsText
  <2>2. SubSeq(a, n + 1, n + 4) \in Seq(Byte) /\ IsPiece(SubSeq(a, n + 1, n + 4), a, n, n + 4)
    BY <2>1, Piece
  <2>3. t = SubSeq(a, n + 1, n + 4)
    BY <1>9
  <2> HIDE DEF t
  <2>4. t \in Seq(Byte) /\ IsPiece(t, a, n, n + 4)
    BY <2>2, <2>3
  <2>5. QED
    BY <1>4, <2>4 DEF IsPiece
<1> HIDE DEF s, t
<1>12. Cook!read_u32(t) # crc32c(s)
  <2>1. CASE at + m <= n
    <3>1. \A i \in 1 .. 4 : ~ hit(n + i)
      BY <1>4, <1>7, <2>1
    <3>2. \A i \in 1 .. 4 : n + i \in 1 .. Len(y)
      BY <1>4, <1>5
    <3>3. \A i \in 1 .. 4 : t[i] = w[i]
      BY <1>5, <1>6, <1>11, <3>1, <3>2
    <3>4. t = w
      BY <1>3, <1>11, <3>3, SameSequence
    <3>5. s = Arrived(data, burst)
      <4> DEFINE b == Arrived(data, burst)
      <4>1. /\ IsText(b) /\ Len(b) = n
            /\ \A i \in 1 .. n : b[i] = IF hit(i) THEN Xor(data[i], flip(i)) ELSE data[i]
        BY ArrivedBytes, Zenon
      <4> HIDE DEF b, hit, flip
      <4>2. \A i \in 1 .. n : i \in 1 .. Len(y)
        BY <1>4, <1>5
      <4>3. \A i \in 1 .. n : s[i] = b[i]
        BY <1>5, <1>6, <1>10, <4>1, <4>2
      <4>4. s = b
        BY <1>10, <4>1, <4>3, SameSequence DEF IsText
      <4>5. QED
        BY <4>4 DEF b
    <3>6. FitsIn(burst, Len(data))
      BY <1>4, <2>1 DEF FitsIn
    <3>7. crc32c(s) # crc32c(data)
      BY <3>5, <3>6, DamageChangesChecksum
    <3>8. QED
      BY <1>3, <3>4, <3>7
  <2>2. CASE at >= n /\ at + m <= n + 4
    <3>1. \A i \in 1 .. n : ~ hit(i) /\ i \in 1 .. Len(y)
      BY <1>4, <1>5, <1>7, <2>2
    <3>2. \A i \in 1 .. n : s[i] = data[i]
      BY <1>5, <1>6, <1>10, <3>1
    <3>3. s = data
      BY <1>4, <1>10, <3>2, SameSequence DEF n
    <3>4. PICK k \in 1 .. m : burst.flips[k] # {}
      BY DEF IsBurst
    <3> DEFINE i == (at + k) - n
    <3>5. i \in 1 .. 4 /\ n + i = at + k /\ (n + i) - at = k /\ n + i \in 1 .. Len(y)
      <4> HIDE DEF at, m, n
      <4>1. i \in 1 .. 4 /\ n + i = at + k /\ (n + i) - at = k
        BY <1>4, <1>7, <2>2
      <4> HIDE DEF i
      <4>2. n + i \in 1 .. Len(y)
        BY <1>4, <1>5, <4>1
      <4>3. QED
        BY <4>1, <4>2
    <3> HIDE DEF i
    <3>6. t[i] = Xor(w[i], burst.flips[k])
      BY <1>5, <1>6, <1>11, <3>5
    <3>7. \A x, f : f # {} => Xor(x, f) # x
      BY DEF Xor
    <3>8. t # w
      BY <3>4, <3>6, <3>7
    <3>9. Cook!read_u32(t) # Cook!read_u32(w)
      BY <1>3, <1>11, <3>8, ReadTellsApart
    <3>10. QED
      BY <1>3, <3>3, <3>9
  <2>3. QED
    BY <1>7, <2>1, <2>2
<1>13. Cook!rm_crc32(ctx, a) = Refused
  BY <1>2, <1>9, <1>12
<1>14. Arrived(Cook!put_crc32(ctx, data), burst) = a
  BY <1>1 DEF a
<1> QED  BY <1>1, <1>5, <1>6, <1>8, <1>13, <1>14, Zenon

\* What the receiver decooks of a damaged datagram is refused.
LEMMA DamagedIsRefused ==
  ASSUME NEW sent, IsDatagram(sent), ~ sent.ctx.disable_checksum, NEW burst, IsBurst(burst),
         \/ burst.at + Len(burst.flips) <= Len(Packet(sent))
         \/ burst.at >= Len(Packet(sent)) /\ burst.at + Len(burst.flips) <= Len(Packet(sent)) + 4
  PROVE  Delivered(sent, burst) = Refused
<1> DEFINE ctx == Context(sent)
           key == sent.key
           iv == sent.iv
           packet == Packet(sent)
           checked == Cook!put_crc32(ctx, packet)
           hidden == Cook!do_obscure(checked, iv)
           obscured == IF ctx.disable_obscure THEN checked ELSE hidden
           cooked == Cook!do_cook(ctx, packet, iv)
           arrived == Arrived(cooked, burst)
           plain == IF ctx.disable_xor THEN arrived ELSE Cook!encrypt_0(ctx, arrived)
           clear == IF ctx.disable_obscure THEN plain ELSE Cook!de_obscure(ctx, plain)
           back == Cook!de_cook(ctx, arrived)
<1>1. IsText(sent.data) /\ IsText(key) /\ IsText(iv) /\ sent.conv \in Word
  BY DEF IsDatagram, IsText
<1>2. /\ ctx.key_tile = Cook!prepare_key(key)
      /\ ctx.iv_min \in Nat /\ ctx.iv_max \in 0 .. 255 /\ Len(iv) \in ctx.iv_min .. ctx.iv_max
      /\ ~ ctx.disable_checksum
  BY DEF Context, IsDatagram
<1> HIDE DEF ctx, key, iv
<1>3. IsText(packet)
  BY <1>1, ConvComesBack DEF Packet
<1>4. cooked = IF ctx.disable_xor THEN obscured ELSE Cook!encrypt_0(ctx, obscured)
  BY Zenon DEF Cook!do_cook
<1> HIDE DEF packet
<1>5. \/ burst.at + Len(burst.flips) <= Len(packet)
      \/ burst.at >= Len(packet) /\ burst.at + Len(burst.flips) <= Len(packet) + 4
  BY DEF packet
<1>6. back = IF clear = Refused THEN Refused ELSE Cook!rm_crc32(ctx, clear)
  <2> HIDE DEF arrived
  <2>1. QED
    BY Zenon DEF Cook!de_cook
<1>7. /\ IsText(checked) /\ FitsIn(burst, Len(checked)) /\ IsText(Arrived(checked, burst))
      /\ Cook!rm_crc32(ctx, Arrived(checked, burst)) = Refused
  BY <1>2, <1>3, <1>5, DamageIsRefused
<1> HIDE DEF checked
<1>8. IsText(hidden) /\ Cook!de_obscure(ctx, Arrived(hidden, burst)) = Arrived(checked, burst)
  <2>1. IsText(hidden)
    BY <1>1, <1>2, <1>7, ObscuredComesBack
  <2>2. QED
    BY <1>1, <1>2, <1>7, <2>1, DamageIsFound
<1> HIDE DEF hidden
<1>9. IsText(obscured)
  BY <1>7, <1>8
<1> HIDE DEF cooked, back, arrived
<1>10. plain = Arrived(obscured, burst)
  <2>1. CASE ctx.disable_xor
    BY <1>4, <2>1 DEF arrived
  <2>2. CASE ~ ctx.disable_xor
    <3> HIDE DEF obscured
    <3>1. Cook!encrypt_0(ctx, Arrived(Cook!encrypt_0(ctx, obscured), burst)) = Arrived(obscured, burst)
      BY <1>1, <1>2, <1>9, DamageKeepsItsPlace
    <3>2. QED
      BY <1>4, <2>2, <3>1, Zenon DEF arrived
  <2>3. QED
    BY <2>1, <2>2
<1> HIDE DEF plain
<1>11. clear = Arrived(checked, burst)
  BY <1>8, <1>10, Zenon
<1> HIDE DEF clear
<1>12. back = Refused
  BY <1>6, <1>7, <1>11
<1> QED  BY <1>12, Zenon DEF back, arrived, cooked, ctx, packet, iv, Delivered

\* Every datagram, whatever it holds, whichever key and initial vector it is cooked
\* with and whatever is turned off, is recovered where it arrives as it was sent; with
\* its checksum it is refused where it arrives damaged by a burst.
THEOREM CookingIsUndone == Spec => []CookRoundTrip
<1>1. ASSUME InputOK, input.kind = "transmit"
      PROVE  IsDatagram(input.args.sent) /\ (input.args.burst = NoBurst \/ IsBurst(input.args.burst))
  BY <1>1, InputsAssumption DEF InputOK
<1>2. ASSUME InputOK
      PROVE  CookedComesBack
  BY <1>1, <1>2, DatagramComesBack DEF CookedComesBack
<1>3. ASSUME InputOK, input.kind = "transmit", input.args.burst # NoBurst,
             ~ input.args.sent.ctx.disable_checksum,
             LET len == Len(Packet(input.args.sent))
                 burst == input.args.burst
             IN  \/ burst.at + Len(burst.flips) <= len
                 \/ burst.at >= len /\ burst.at + Len(burst.flips) <= len + 4
      PROVE  Delivered(input.args.sent, input.args.burst) = Refused
  BY <1>1, <1>3, DamagedIsRefused
<1>4. InputOK => CookRoundTrip
  BY <1>2, <1>3, Zenon DEF CookRoundTrip
<1> QED  BY <1>4, InputsAreGiven, PTL

-----------------------------------------------------------------------------
(* Timers *)

\* The heap of AlgorithmProofs with two children is that of Codecs.
LEMMA BinaryIsSame ==
  ASSUME NEW h, NEW w, NEW at
  PROVE  /\ Z!HeapInsert(h, w, at) = Heap2!HeapInsert(h, w, at)
         /\ Z!HeapRemove(h, w) = Heap2!HeapRemove(h, w)
         /\ Z!HeapPostpone(h, at) = Heap2!HeapPostpone(h, at)
         /\ Z!verify_heap(h) <=> Heap2!verify_heap(h)
<1> USE DEF Z!HPARENT, Heap2!HPARENT, Z!Placed, Heap2!Placed, Z!upheap, Heap2!upheap,
            Z!MinChild, Heap2!MinChild, Z!downheap, Heap2!downheap
<1>1. Z!HeapInsert(h, w, at) = Heap2!HeapInsert(h, w, at)
  BY Zenon DEF Z!HeapInsert, Heap2!HeapInsert
<1>2. Z!HeapRemove(h, w) = Heap2!HeapRemove(h, w)
  BY Zenon DEF Z!HeapRemove, Heap2!HeapRemove, Z!adjustheap, Heap2!adjustheap
<1>3. Z!HeapPostpone(h, at) = Heap2!HeapPostpone(h, at)
  BY Zenon DEF Z!HeapPostpone, Heap2!HeapPostpone
<1>4. Z!verify_heap(h) <=> Heap2!verify_heap(h)
  BY Zenon DEF Z!verify_heap, Heap2!verify_heap
<1> QED  BY ONLY <1>1, <1>2, <1>3, <1>4

\* And so is the one with four.
LEMMA FourAryIsSame ==
  ASSUME NEW h, NEW w, NEW at
  PROVE  /\ C!HeapInsert(h, w, at) = Heap4!HeapInsert(h, w, at)
         /\ C!HeapRemove(h, w) = Heap4!HeapRemove(h, w)
         /\ C!HeapPostpone(h, at) = Heap4!HeapPostpone(h, at)
         /\ C!verify_heap(h) <=> Heap4!verify_heap(h)
<1> USE DEF C!HPARENT, Heap4!HPARENT, C!Placed, Heap4!Placed, C!upheap, Heap4!upheap,
            C!MinChild, Heap4!MinChild, C!downheap, Heap4!downheap
<1>1. C!HeapInsert(h, w, at) = Heap4!HeapInsert(h, w, at)
  BY Zenon DEF C!HeapInsert, Heap4!HeapInsert
<1>2. C!HeapRemove(h, w) = Heap4!HeapRemove(h, w)
  BY Zenon DEF C!HeapRemove, Heap4!HeapRemove, C!adjustheap, Heap4!adjustheap
<1>3. C!HeapPostpone(h, at) = Heap4!HeapPostpone(h, at)
  BY Zenon DEF C!HeapPostpone, Heap4!HeapPostpone
<1>4. C!verify_heap(h) <=> Heap4!verify_heap(h)
  BY Zenon DEF C!verify_heap, Heap4!verify_heap
<1> QED  BY ONLY <1>1, <1>2, <1>3, <1>4

\* The heaps of TimersStayHeap, which are defined by a choice.
Heaps(d, ats) ==
  LET started[i \in 0 .. Len(ats)] ==
        IF i = 0 THEN [timers |-> << >>, active |-> [w \in DOMAIN ats |-> 0]]
        ELSE IF d = 2 THEN Heap2!HeapInsert(started[i - 1], i, ats[i])
                      ELSE Heap4!HeapInsert(started[i - 1], i, ats[i])
  IN  started

LEMMA BinaryAreKept ==
  ASSUME NEW ats \in Seq(Int), ats # << >>
  PROVE  Z!AllKept(Heaps(2, ats), ats)
<1> DEFINE Body(g) == [i \in 0 .. Len(ats) |->
                         IF i = 0 THEN [timers |-> << >>, active |-> [w \in DOMAIN ats |-> 0]]
                         ELSE Heap2!HeapInsert(g[i - 1], i, ats[i])]
           g == CHOOSE f : f = Body(f)
<1>1. ASSUME NEW f
      PROVE  Z!StartedStepwise(f, ats) <=> f = Body(f)
  BY Zenon DEF Z!StartedStepwise, Z!NoTimers, Z!HeapInsert, Heap2!HeapInsert,
               Z!HPARENT, Heap2!HPARENT, Z!Placed, Heap2!Placed, Z!upheap, Heap2!upheap
<1>2. \E f : f = Body(f)
  <2>1. PICK f : Z!StartedStepwise(f, ats)
    BY Z!StartsExist, Zenon
  <2> HIDE DEF Body
  <2>2. QED
    BY <1>1, <2>1
<1>3. g = Body(g)
  <2> HIDE DEF Body
  <2> QED  BY <1>2, Zenon
<1>4. Heaps(2, ats) = g
  BY Zenon DEF Heaps
<1> HIDE DEF g, Body
<1>5. Z!StartedStepwise(g, ats)
  BY <1>1, <1>3
<1> QED  BY <1>4, <1>5, Z!StartedTimersAreKept

LEMMA FourAryAreKept ==
  ASSUME NEW ats \in Seq(Int), ats # << >>
  PROVE  C!AllKept(Heaps(4, ats), ats)
<1> DEFINE Body(g) == [i \in 0 .. Len(ats) |->
                         IF i = 0 THEN [timers |-> << >>, active |-> [w \in DOMAIN ats |-> 0]]
                         ELSE Heap4!HeapInsert(g[i - 1], i, ats[i])]
           g == CHOOSE f : f = Body(f)
<1>1. ASSUME NEW f
      PROVE  C!StartedStepwise(f, ats) <=> f = Body(f)
  BY Zenon DEF C!StartedStepwise, C!NoTimers, C!HeapInsert, Heap4!HeapInsert,
               C!HPARENT, Heap4!HPARENT, C!Placed, Heap4!Placed, C!upheap, Heap4!upheap
<1>2. \E f : f = Body(f)
  <2>1. PICK f : C!StartedStepwise(f, ats)
    BY C!StartsExist, Zenon
  <2> HIDE DEF Body
  <2>2. QED
    BY <1>1, <2>1
<1>3. g = Body(g)
  <2> HIDE DEF Body
  <2> QED  BY <1>2, Zenon
<1>4. Heaps(4, ats) = g
  <2>1. 4 # 2
    OBVIOUS
  <2>2. QED
    BY <2>1, Zenon DEF Heaps
<1> HIDE DEF g, Body
<1>5. C!StartedStepwise(g, ats)
  BY <1>1, <1>3
<1> QED  BY <1>4, <1>5, C!StartedTimersAreKept

Removed(d, h, w) == IF d = 2 THEN Heap2!HeapRemove(h, w) ELSE Heap4!HeapRemove(h, w)

Postponed(d, h, at) == IF d = 2 THEN Heap2!HeapPostpone(h, at) ELSE Heap4!HeapPostpone(h, at)

\* TimersStayHeap, of one of the heaps.
Kept(d, heap, ats) ==
  LET all   == heap[Len(ats)]
      first == all.timers[1]
      later == Postponed(d, all, first.at + 2)
  IN  /\ \A i \in DOMAIN ats : Verified(d, heap[i])
      /\ Entries(all) = {[w |-> w, at |-> ats[w]] : w \in DOMAIN ats}
      /\ \A w \in DOMAIN ats :
           LET left == Removed(d, all, w)
           IN  /\ Verified(d, left) /\ left.active[w] = 0
               /\ Entries(left) = {e \in Entries(all) : e.w # w}
      /\ Verified(d, later)
      /\ Entries(later) = (Entries(all) \ {first}) \cup {[first EXCEPT !.at = @ + 2]}

LEMMA BinaryKept ==
  ASSUME NEW ats \in Seq(Int), ats # << >>
  PROVE  Kept(2, Heaps(2, ats), ats)
<1>1. Z!AllKept(Heaps(2, ats), ats)
  BY BinaryAreKept
<1>2. \A h, w, at : /\ Z!HeapRemove(h, w) = Removed(2, h, w)
                    /\ Z!HeapPostpone(h, at) = Postponed(2, h, at)
                    /\ Z!verify_heap(h) <=> Verified(2, h)
  BY BinaryIsSame, Zenon DEF Removed, Postponed, Verified
<1>3. \A h : Z!EntriesOf(h) = Entries(h)
  BY Zenon DEF Z!EntriesOf, Entries
<1> QED  BY ONLY <1>1, <1>2, <1>3 DEF Kept, Z!AllKept

LEMMA FourAryKept ==
  ASSUME NEW ats \in Seq(Int), ats # << >>
  PROVE  Kept(4, Heaps(4, ats), ats)
<1>1. C!AllKept(Heaps(4, ats), ats)
  BY FourAryAreKept
<1>2. \A h, w, at : /\ C!HeapRemove(h, w) = Removed(4, h, w)
                    /\ C!HeapPostpone(h, at) = Postponed(4, h, at)
                    /\ C!verify_heap(h) <=> Verified(4, h)
  <2>1. 4 # 2
    OBVIOUS
  <2>2. QED
    BY FourAryIsSame, <2>1, Zenon DEF Removed, Postponed, Verified
<1>3. \A h : C!EntriesOf(h) = Entries(h)
  BY Zenon DEF C!EntriesOf, Entries
<1> QED  BY ONLY <1>1, <1>2, <1>3 DEF Kept, C!AllKept

\* Timers started in any order of their deadlines, however many, stay a heap that holds
\* them all, and so do those left when any is stopped or the first is postponed.
THEOREM TimersAreKept == Spec => []TimersStayHeap
<1>1. ASSUME InputOK, input.kind = "timers"
      PROVE  input.args.dheap \in {2, 4} /\ input.args.ats \in Seq(Int) /\ input.args.ats # << >>
  BY <1>1, InputsAssumption DEF InputOK
<1>2. ASSUME InputOK, input.kind = "timers"
      PROVE  Kept(input.args.dheap, Heaps(input.args.dheap, input.args.ats), input.args.ats)
  BY <1>1, <1>2, BinaryKept, FourAryKept
<1>3. InputOK => TimersStayHeap
  BY <1>2, Zenon DEF TimersStayHeap, Kept, Heaps, Removed, Postponed
<1> QED  BY <1>3, InputsAreGiven, PTL
===============================================================================
