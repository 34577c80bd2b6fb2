---------------------------- MODULE Scheme_proof ----------------------------
(***************************************************************************)
(* What holds of the parameters of the scheme, of decryption and of the    *)
(* noise, for every size of words, all bounds and whatever is asked of the *)
(* builder.                                                                *)
(***************************************************************************)
EXTENDS Scheme, WordLemmas, FiniteSetTheorems, SequenceTheorems

-----------------------------------------------------------------------------
(* Bits and primes *)

(* A nonempty set of naturals below a bound has a largest member.          *)
LEMMA LargestElement ==
    ASSUME NEW n \in Nat, NEW S \in SUBSET (0 .. n), S # {}
    PROVE  Largest(S) \in S /\ \A y \in S : y <= Largest(S)
<1> DEFINE R == {n - x : x \in S}
<1>1. R \in SUBSET Nat /\ R # {}
  <2>1. \A x \in S : n - x \in Nat
    OBVIOUS
  <2> QED
    BY <2>1
<1>2. PICK r \in R : \A m \in R : r <= m
  BY <1>1, LeastElement
<1>3. PICK x \in S : r = n - x
  OBVIOUS
<1>4. \A y \in S : y <= x
  BY <1>2, <1>3
<1> QED
  BY <1>3, <1>4 DEF Largest

LEMMA LeastIs ==
    ASSUME NEW S \in SUBSET Nat, S # {}
    PROVE  Least(S) \in S /\ \A y \in S : Least(S) <= y
  BY LeastElement DEF Least

(* The number of bits of a word, and that it grows with the word.          *)
LEMMA BitsTypes ==
    ASSUME NEW x \in Word
    PROVE  /\ Bits(x) \in 0 .. W /\ x < Pow2[Bits(x)]
           /\ Bits(x) = 0 \/ Pow2[Bits(x) - 1] <= x
<1> DEFINE z == LeadingZeros[x]
<1>1. z \in 0 .. W /\ x < Pow2[W - z] /\ (z = W \/ Pow2[W - z - 1] <= x)
  BY BitsOfWord
<1>2. Bits(x) = W - z
  BY DEF Bits
<1> QED
  BY <1>1, <1>2, WordsAssumption

LEMMA PowersGrow ==
    ASSUME NEW i \in 0 .. W, NEW j \in 0 .. W, i <= j
    PROVE  Pow2[i] \in Nat \ {0} /\ Pow2[j] \in Nat \ {0} /\ Pow2[i] <= Pow2[j]
<1>1. W \in Nat /\ i \in Nat /\ j \in Nat /\ j <= 4 * W /\ i \in 0 .. 4 * W /\ j \in 0 .. 4 * W
  BY WordsAssumption
<1>2. Pow2[i] \in Nat \ {0} /\ Pow2[j] \in Nat \ {0}
  BY <1>1, PowerTypes
<1>3. CASE i = j
  BY <1>2, <1>3
<1>4. CASE i < j
  <2>1. 2 * Pow2[i] <= Pow2[j]
    BY <1>1, <1>4, PowerGrows
  <2> QED
    BY <1>2, <2>1
<1> QED
  BY <1>1, <1>3, <1>4

LEMMA BitsBelow ==
    ASSUME NEW x \in Word, NEW n \in 0 .. W, x < Pow2[n]
    PROVE  Bits(x) <= n
<1> DEFINE b == Bits(x)
<1>1. b \in 0 .. W /\ (b = 0 \/ Pow2[b - 1] <= x) /\ x \in Int
  BY BitsTypes, WordTypes DEF Word
<1> HIDE DEF b
<1>2. SUFFICES ASSUME b > n PROVE FALSE
  BY <1>1, WordsAssumption DEF b
<1>3. b - 1 \in 0 .. W /\ n <= b - 1 /\ b # 0
  BY <1>1, <1>2, WordsAssumption
<1>4. Pow2[n] <= Pow2[b - 1] /\ Pow2[n] \in Nat /\ Pow2[b - 1] \in Nat
  BY <1>3, PowersGrow
<1> QED
  BY <1>1, <1>3, <1>4

LEMMA BitsMonotone ==
    ASSUME NEW x \in Word, NEW y \in Word, x <= y
    PROVE  Bits(x) <= Bits(y)
<1>1. Bits(y) \in 0 .. W /\ y < Pow2[Bits(y)] /\ x \in Int /\ y \in Int
  BY BitsTypes, WordTypes DEF Word
<1>2. Pow2[Bits(y)] \in Nat
  BY <1>1, PowersGrow
<1>3. x < Pow2[Bits(y)]
  BY <1>1, <1>2
<1> QED
  BY <1>1, <1>3, BitsBelow

LEMMA BitsOfZero == 0 \in Word /\ Bits(0) = 0
<1>1. 0 \in Word /\ 0 \in 0 .. W /\ 0 \in 0 .. 4 * W
  BY WordTypes, WordsAssumption DEF Word
<1>2. 0 < Pow2[0]
  BY <1>1, PowerTypes
<1>3. Bits(0) <= 0 /\ Bits(0) \in 0 .. W
  BY <1>1, <1>2, BitsBelow, BitsTypes
<1> QED
  BY <1>1, <1>3

(* What generate_prime is asked for: a prime of a size, one more than a    *)
(* multiple.                                                               *)
IsWanted(x, bits, modulo) == x \in Word /\ IsPrime(x) /\ x % modulo = 1 /\ Bits(x) = bits

SizeOk(bits) == bits \in MinBits .. MaxBits

LEMMA SizeBounds ==
    ASSUME NEW bits, SizeOk(bits)
    PROVE  /\ bits \in 0 .. W /\ bits \in Nat \ {0} /\ Pow2[bits] \in Nat \ {0} /\ Pow2[bits] < B
           /\ \A x \in 0 .. Pow2[bits] : x \in Word /\ x \in Nat
<1>1. bits \in Nat \ {0} /\ bits < W /\ W \in Nat /\ bits \in 0 .. W
  BY ParametersAssumption, WordsAssumption DEF SizeOk
<1>2. 2 * Pow2[bits] <= Pow2[W] /\ Pow2[bits] \in Nat \ {0} /\ B = Pow2[W] /\ B \in Nat
  BY <1>1, PowerGrows, PowersGrow, WordTypes
<1> QED
  BY <1>1, <1>2 DEF Word

(* generate_prime returns the largest prime of the size below the bound,   *)
(* and 0 only when there is none.                                          *)
LEMMA GeneratedPrime ==
    ASSUME NEW bits, SizeOk(bits), NEW modulo \in Nat, modulo >= 2,
           NEW upper \in Nat \ {0}, upper <= Pow2[bits],
           NEW g, g = GeneratePrime(bits, modulo, upper)
    PROVE  /\ g = 0 \/ (IsWanted(g, bits, modulo) /\ g < upper)
           /\ \A x : IsWanted(x, bits, modulo) /\ x < upper => g # 0 /\ x <= g
<1> DEFINE S1 == {x \in 0 .. upper - 1 : x % modulo = 1 \/ Bits(x) # bits}
           first == Largest(S1)
           S2 == {x \in 0 .. first : /\ (first - x) % modulo = 0
                                     /\ Bits(x) # bits \/ IsPrime(x) \/ x < modulo}
           last == Largest(S2)
<1>1. /\ bits \in 0 .. W /\ bits \in Nat \ {0} /\ Pow2[bits] \in Nat \ {0}
      /\ \A x \in 0 .. Pow2[bits] : x \in Word
  BY SizeBounds
<1>2. g = IF Bits(last) = bits /\ IsPrime(last) THEN last ELSE 0
  BY DEF GeneratePrime, SizeOk
<1>3. first \in S1 /\ \A y \in S1 : y <= first
  <2>1. upper - 1 \in Nat /\ S1 \in SUBSET (0 .. upper - 1)
    OBVIOUS
  <2>2. 0 \in S1
    BY <1>1, BitsOfZero
  <2> QED
    BY <2>1, <2>2, LargestElement
<1>4. first \in Nat /\ first < upper /\ (first % modulo = 1 \/ Bits(first) # bits)
  BY <1>3
<1>5. \A x \in 0 .. upper - 1 : x \in Word /\ x < Pow2[bits] /\ Bits(x) <= bits /\ Bits(x) \in Nat
  BY <1>1, BitsBelow, BitsTypes, WordsAssumption
<1> HIDE DEF first
<1>6. last \in S2 /\ \A y \in S2 : y <= last
  <2>1. S2 \in SUBSET (0 .. first)
    OBVIOUS
  <2>2. first % modulo \in S2
    <3> DEFINE r == first % modulo
               k == first \div modulo
    <3>1. modulo \in Nat \ {0} /\ first \in Int
      BY <1>4
    <3>2. r \in Nat /\ r < modulo /\ k \in Int /\ first = k * modulo + r /\ r <= first
      <4>1. r \in Int /\ k \in Int /\ 0 <= r /\ r < modulo /\ first = k * modulo + r
        BY <3>1, Remainder
      <4>2. r <= first
        <5>1. CASE first < modulo
          BY <1>4, <3>1, <5>1, OwnRemainder
        <5>2. CASE first >= modulo
          BY <3>1, <4>1, <5>2
        <5> QED
          BY <3>1, <5>1, <5>2
      <4> QED
        BY <4>1, <4>2
    <3> HIDE DEF r, k
    <3>3. (first - r) % modulo = 0
      <4>1. first - r \in Int /\ first - r = k * modulo
        BY <3>1, <3>2
      <4> QED
        BY <3>1, <3>2, <4>1, MultipleRemainder
    <3>4. r \in 0 .. first
      BY <1>4, <3>2
    <3>5. r \in S2
      BY <3>2, <3>3, <3>4
    <3> QED
      BY <3>5 DEF r
  <2> QED
    BY <1>4, <2>1, <2>2, LargestElement
<1>7. /\ last \in 0 .. first /\ (first - last) % modulo = 0
      /\ Bits(last) # bits \/ IsPrime(last) \/ last < modulo
  BY <1>6
<1>8. last \in 0 .. upper - 1
  BY <1>4, <1>7
<1>9. ASSUME NEW x \in 0 .. first, (first - x) % modulo = 0, first % modulo = 1
      PROVE  x % modulo = 1
  <2> DEFINE k == (first - x) \div modulo
  <2>1. modulo \in Nat \ {0} /\ x \in Int /\ first \in Int /\ first - x \in Int
    BY <1>4
  <2>2. first - x = k * modulo + 0 /\ k \in Int
    BY <1>9, <2>1, Remainder
  <2> HIDE DEF k
  <2>3. first = k * modulo + x
    BY <2>1, <2>2
  <2>4. first % modulo = x % modulo
    <3>1. modulo \in Nat \ {0} /\ x \in Int /\ first \in Int /\ k \in Int /\ first = k * modulo + x
      BY <2>1, <2>2, <2>3
    <3> HIDE DEF first
    <3> QED
      BY ONLY <3>1, SameRemainder, ZenonT(60)
  <2> QED
    BY <1>9, <2>4
<1>10. Bits(first) # bits => last = first
  <2>1. ASSUME Bits(first) # bits PROVE last = first
    <3>1. first \in S2
      <4>1. first - first = 0 * modulo /\ modulo \in Nat \ {0}
        BY <1>4
      <4>2. (first - first) % modulo = 0
        BY <1>4, <4>1, MultipleRemainder
      <4> QED
        BY <1>4, <2>1, <4>2
    <3> QED
      BY <1>4, <1>6, <1>7, <3>1
  <2> QED
    BY <2>1
<1> HIDE DEF last, S1, S2
<1>11. g = 0 \/ (IsWanted(g, bits, modulo) /\ g < upper)
  <2>1. ASSUME Bits(last) = bits, IsPrime(last) PROVE IsWanted(last, bits, modulo) /\ last < upper
    <3>1. first % modulo = 1
      BY <1>4, <1>10, <2>1
    <3>2. last % modulo = 1
      BY <1>7, <1>9, <3>1
    <3>3. last \in Word /\ last < upper
      BY <1>5, <1>8
    <3> QED
      BY <2>1, <3>2, <3>3 DEF IsWanted
  <2> QED
    BY <1>2, <2>1
<1>12. ASSUME NEW x, IsWanted(x, bits, modulo), x < upper
       PROVE  g # 0 /\ x <= g
  <2>1. x \in Nat /\ x \in 0 .. upper - 1 /\ x \in Word /\ IsPrime(x) /\ x % modulo = 1 /\ Bits(x) = bits
    BY <1>12, WordTypes DEF IsWanted, Word
  <2>2. x >= 2
    BY <2>1 DEF IsPrime, PrimeTable
  <2>3. x <= first
    BY <1>3, <2>1 DEF S1
  <2>4. Bits(first) = bits
    <3>1. first \in 0 .. upper - 1
      BY <1>4
    <3>2. Bits(x) <= Bits(first) /\ Bits(first) <= bits /\ Bits(first) \in Nat
      BY <1>5, <2>1, <2>3, <3>1, BitsMonotone
    <3> QED
      BY <1>1, <2>1, <3>2
  <2>5. (first - x) % modulo = 0
    <3>1. modulo \in Nat \ {0} /\ first \in Int /\ x \in Int
      BY <1>4, <2>1
    <3>2. /\ first = (first \div modulo) * modulo + 1 /\ x = (x \div modulo) * modulo + 1
          /\ first \div modulo \in Int /\ x \div modulo \in Int
      BY <1>4, <2>1, <2>4, <3>1, Remainder
    <3>3. first - x = (first \div modulo - x \div modulo) * modulo
      BY <3>1, <3>2
    <3> QED
      BY <3>1, <3>2, <3>3, MultipleRemainder, SMTT(60)
  <2>6. x \in S2
    BY <1>4, <2>1, <2>3, <2>5 DEF S2
  <2>7. x <= last /\ last \in Nat /\ last <= first /\ last \in Word
    BY <1>4, <1>5, <1>6, <1>7, <1>8, <2>6
  <2>8. Bits(last) = bits
    <3>1. Bits(x) <= Bits(last) /\ Bits(last) <= bits /\ Bits(last) \in Nat
      BY <1>5, <1>8, <2>1, <2>7, BitsMonotone
    <3> QED
      BY <1>1, <2>1, <3>1
  <2>9. ~(last < modulo)
    <3>1. ASSUME last < modulo PROVE FALSE
      <4>1. x < modulo /\ 0 <= x /\ modulo \in Nat \ {0} /\ x \in Int
        BY <2>1, <2>7, <3>1
      <4>2. x % modulo = x
        BY <4>1, OwnRemainder
      <4> QED
        BY <2>1, <2>2, <4>2
    <3> QED
      BY <3>1
  <2>10. IsPrime(last)
    BY <1>7, <2>8, <2>9
  <2>11. g = last
    BY <1>2, <2>8, <2>10
  <2> QED
    BY <2>1, <2>2, <2>7, <2>11
<1> QED
  BY <1>11, <1>12

-----------------------------------------------------------------------------
(* The primes of a size, from the top *)

Descends(p, size, modulo) ==
    /\ p \in [Nat -> 0 .. Pow2[size]] /\ p[0] = Pow2[size]
    /\ \A k \in Nat \ {0} :
          p[k] = IF p[k - 1] = 0 THEN 0 ELSE GeneratePrime(size, modulo, p[k - 1])

LEMMA PrimesDescend ==
    ASSUME NEW size, SizeOk(size), NEW modulo \in Nat, modulo >= 2
    PROVE  Descends(PrimesDown(size, modulo), size, modulo)
<1> DEFINE U == 0 .. Pow2[size]
           step == [a \in (Nat \ {0}) \X U |->
                      IF a[2] = 0 THEN 0 ELSE GeneratePrime(size, modulo, a[2])]
           E(h) == h = [k \in Nat |-> IF k = 0 THEN Pow2[size]
                                      ELSE LET upper == h[k - 1]
                                           IN  IF upper = 0 THEN 0
                                               ELSE GeneratePrime(size, modulo, upper)]
           c == CHOOSE h : E(h)
<1>1. Pow2[size] \in Nat \ {0} /\ Pow2[size] \in U
  BY SizeBounds
<1>2. step \in [(Nat \ {0}) \X U -> U]
  <2>1. ASSUME NEW x \in U, x # 0 PROVE GeneratePrime(size, modulo, x) \in U
    <3>1. x \in Nat \ {0} /\ x <= Pow2[size]
      BY <1>1, <2>1
    <3>2. \/ GeneratePrime(size, modulo, x) = 0
          \/ GeneratePrime(size, modulo, x) \in Word /\ GeneratePrime(size, modulo, x) < x
      BY <3>1, GeneratedPrime DEF IsWanted
    <3> QED
      BY <1>1, <3>1, <3>2, WordTypes DEF Word
  <2>2. 0 \in U
    BY <1>1
  <2> QED
    BY <2>1, <2>2
<1>3. \A k \in Nat \ {0}, x \in U :
         step[<< k, x >>] = IF x = 0 THEN 0 ELSE GeneratePrime(size, modulo, x)
  OBVIOUS
<1> HIDE DEF step
<1>4. PICK g \in [Nat -> U] : StepsForever(g, Pow2[size], step)
  BY <1>1, <1>2, EndlessRecursion
<1>5. ASSUME NEW k \in Nat \ {0}
      PROVE  g[k] = IF g[k - 1] = 0 THEN 0 ELSE GeneratePrime(size, modulo, g[k - 1])
  <2>1. k - 1 \in Nat /\ g[k] = step[<< k, g[k - 1] >>]
    BY <1>4 DEF StepsForever
  <2> QED
    BY <1>3, <2>1
<1>6. g[0] = Pow2[size]
  BY <1>4 DEF StepsForever
<1>7. E(g)
  <2>1. g = [k \in Nat |-> g[k]]
    OBVIOUS
  <2>2. \A k \in Nat : g[k] = IF k = 0 THEN Pow2[size]
                              ELSE LET upper == g[k - 1]
                                   IN  IF upper = 0 THEN 0 ELSE GeneratePrime(size, modulo, upper)
    BY <1>5, <1>6
  <2> QED
    BY <2>1, <2>2
<1>8. E(c)
  BY <1>7
<1>9. PrimesDown(size, modulo) = c
  BY DEF PrimesDown
<1> HIDE DEF c
<1>10. c[0] = Pow2[size] /\ \A k \in Nat \ {0} :
          c[k] = IF c[k - 1] = 0 THEN 0 ELSE GeneratePrime(size, modulo, c[k - 1])
  <2>1. \A k \in Nat : c[k] = IF k = 0 THEN Pow2[size]
                              ELSE LET upper == c[k - 1]
                                   IN  IF upper = 0 THEN 0 ELSE GeneratePrime(size, modulo, upper)
    BY <1>8
  <2> QED
    BY <2>1
<1>11. \A k \in Nat : c[k] = g[k]
  <2> DEFINE R == {k \in Nat : c[k] = g[k]}
  <2>1. 0 \in R
    BY <1>6, <1>10
  <2>2. ASSUME NEW n \in Nat, n \in R PROVE n + 1 \in R
    <3>1. n + 1 \in Nat \ {0} /\ (n + 1) - 1 = n /\ c[n] = g[n]
      BY <2>2
    <3> QED
      BY <1>5, <1>10, <3>1
  <2> HIDE DEF R
  <2>3. Nat \subseteq R
    BY <2>1, <2>2, SetInduction
  <2> QED
    BY <2>3 DEF R
<1>12. c \in [Nat -> U]
  <2>1. c = [k \in Nat |-> c[k]]
    <3>1. DOMAIN c = Nat
      BY <1>8
    <3> QED
      BY <1>8, <3>1
  <2> QED
    BY <1>11, <2>1
<1> QED
  BY <1>9, <1>10, <1>12 DEF Descends

(* They are distinct until there are none left, and a prime of the size is *)
(* among those passed.                                                     *)
LEMMA PrimesFall ==
    ASSUME NEW size, SizeOk(size), NEW modulo \in Nat, modulo >= 2,
           NEW p, Descends(p, size, modulo)
    PROVE  /\ \A k \in Nat \ {0} : p[k] = 0 \/ (IsWanted(p[k], size, modulo) /\ p[k] < p[k - 1])
           /\ \A x, k \in Nat : IsWanted(x, size, modulo) =>
                 x < p[k] \/ \E j \in 1 .. k : p[j] = x
           /\ \A i, j \in Nat : i < j => p[j] = 0 \/ p[j] < p[i]
<1>1. Pow2[size] \in Nat \ {0}
  BY SizeBounds
<1>2. \A k \in Nat : p[k] \in Nat /\ p[k] <= Pow2[size]
  BY <1>1 DEF Descends
<1>3. ASSUME NEW k \in Nat \ {0}
      PROVE  /\ p[k] = 0 \/ (IsWanted(p[k], size, modulo) /\ p[k] < p[k - 1])
             /\ \A x : IsWanted(x, size, modulo) /\ x < p[k - 1] => p[k] # 0 /\ x <= p[k]
  <2>1. k - 1 \in Nat
    OBVIOUS
  <2>2. CASE p[k - 1] = 0
    <3>1. \A x : IsWanted(x, size, modulo) => ~(x < 0)
      BY WordTypes DEF IsWanted, Word
    <3> QED
      BY <2>2, <3>1 DEF Descends
  <2>3. CASE p[k - 1] # 0
    <3>1. p[k - 1] \in Nat \ {0} /\ p[k - 1] <= Pow2[size]
      BY <1>2, <2>1, <2>3
    <3>2. p[k] = GeneratePrime(size, modulo, p[k - 1])
      BY <2>3 DEF Descends
    <3> QED
      BY <3>1, <3>2, GeneratedPrime
  <2> QED
    BY <2>2, <2>3
<1>4. ASSUME NEW x \in Nat, IsWanted(x, size, modulo)
      PROVE  \A k \in Nat : x < p[k] \/ \E j \in 1 .. k : p[j] = x
  <2> DEFINE R == {k \in Nat : x < p[k] \/ \E j \in 1 .. k : p[j] = x}
  <2>1. 0 \in R
    <3>1. x \in Word /\ Bits(x) = size
      BY <1>4 DEF IsWanted
    <3>2. x < Pow2[size]
      BY <3>1, BitsTypes
    <3> QED
      BY <3>2 DEF Descends
  <2>2. ASSUME NEW n \in Nat, n \in R PROVE n + 1 \in R
    <3>1. n + 1 \in Nat \ {0} /\ (n + 1) - 1 = n /\ n + 1 \in 1 .. n + 1
      OBVIOUS
    <3>2. CASE x < p[n]
      <4>1. x <= p[n + 1]
        BY <1>3, <1>4, <3>1, <3>2
      <4>2. x < p[n + 1] \/ p[n + 1] = x
        BY <1>2, <3>1, <4>1
      <4> QED
        BY <3>1, <4>2
    <3>3. CASE \E j \in 1 .. n : p[j] = x
      BY <3>3
    <3> QED
      BY <2>2, <3>2, <3>3
  <2> HIDE DEF R
  <2>3. Nat \subseteq R
    BY <2>1, <2>2, SetInduction
  <2> QED
    BY <2>3 DEF R
<1>5. ASSUME NEW i \in Nat PROVE \A j \in Nat : i < j => p[j] = 0 \/ p[j] < p[i]
  <2> DEFINE R == {j \in Nat : i < j => p[j] = 0 \/ p[j] < p[i]}
  <2>1. 0 \in R
    OBVIOUS
  <2>2. ASSUME NEW n \in Nat, n \in R PROVE n + 1 \in R
    <3>1. n + 1 \in Nat \ {0} /\ (n + 1) - 1 = n
      OBVIOUS
    <3>2. p[n + 1] = 0 \/ p[n + 1] < p[n]
      BY <1>3, <3>1
    <3>3. p[n] = 0 => p[n + 1] = 0
      BY <1>2, <3>1, <3>2
    <3>4. CASE i < n
      BY <1>2, <2>2, <3>1, <3>2, <3>3, <3>4
    <3>5. CASE i = n
      BY <3>1, <3>2, <3>5
    <3>6. CASE i > n
      BY <3>1, <3>6
    <3> QED
      BY <3>4, <3>5, <3>6
  <2> HIDE DEF R
  <2>3. Nat \subseteq R
    BY <2>1, <2>2, SetInduction
  <2> QED
    BY <2>3 DEF R
<1>6. \A x : IsWanted(x, size, modulo) => x \in Nat
  BY WordTypes DEF IsWanted, Word
<1> QED
  BY <1>3, <1>4, <1>5, <1>6

(* The next modulus is a prime of its size not taken yet, and 0 only when  *)
(* all are taken.                                                          *)
LEMMA NextModulusFree ==
    ASSUME NEW size, SizeOk(size), NEW degree \in Nat, degree >= 8,
           NEW taken, IsFiniteSet(taken), 0 \notin taken,
           NEW r, r = NextModulus(size, degree, taken)
    PROVE  /\ r \notin taken
           /\ r = 0 \/ IsWanted(r, size, 2 * degree)
           /\ r = 0 => \A x : IsWanted(x, size, 2 * degree) => x \in taken
<1> DEFINE m == 2 * degree
           p == PrimesDown(size, m)
           n == Cardinality(taken)
           T == {k \in 1 .. n + 1 : p[k] \notin taken}
           l == Least(T)
<1>1. m \in Nat /\ m >= 2
  OBVIOUS
<1>2. r = p[l]
  BY DEF NextModulus
<1> HIDE DEF m
<1>3. Descends(p, size, m)
  BY <1>1, PrimesDescend
<1>4. n \in Nat
  BY FS_CardinalityType
<1> HIDE DEF p, n
<1>5. /\ \A k \in Nat \ {0} : p[k] = 0 \/ (IsWanted(p[k], size, m) /\ p[k] < p[k - 1])
      /\ \A x, k \in Nat : IsWanted(x, size, m) => x < p[k] \/ \E j \in 1 .. k : p[j] = x
      /\ \A i, j \in Nat : i < j => p[j] = 0 \/ p[j] < p[i]
  BY <1>1, <1>3, PrimesFall
<1>6. T # {}
  <2> SUFFICES ASSUME \A k \in 1 .. n + 1 : p[k] \in taken PROVE FALSE
    OBVIOUS
  <2> DEFINE f == [k \in 1 .. n + 1 |-> p[k]]
  <2>1. \A i, j \in 1 .. n + 1 : i < j => f[i] # f[j]
    <3> TAKE i, j \in 1 .. n + 1
    <3> HAVE i < j
    <3>1. i \in Nat /\ j \in Nat /\ p[j] # 0 /\ p[i] \in Nat
      BY <1>3, <1>4 DEF Descends
    <3>2. p[j] < p[i] /\ p[j] \in Nat
      BY <1>3, <1>5, <3>1 DEF Descends
    <3> QED
      BY <3>1, <3>2
  <2>2. \A i, j \in 1 .. n + 1 : i # j => f[i] # f[j]
    <3> TAKE i, j \in 1 .. n + 1
    <3> HIDE DEF f
    <3>1. i < j \/ j < i \/ i = j
      BY <1>4
    <3> QED
      BY <2>1, <3>1
  <2>3. f \in Injection(1 .. n + 1, taken)
    <3>1. f \in [1 .. n + 1 -> taken]
      OBVIOUS
    <3> QED
      BY <2>2, <3>1 DEF Injection, IsInjective
  <2>4. Cardinality(1 .. n + 1) <= n /\ Cardinality(1 .. n + 1) = n + 1
    <3>1. Cardinality(1 .. n + 1) <= n
      BY <2>3, FS_Injection DEF n
    <3>2. Cardinality(1 .. n + 1) = n + 1
      <4>1. 1 \in Int /\ n + 1 \in Int /\ ~(1 > n + 1) /\ (n + 1) - 1 + 1 = n + 1
        BY <1>4
      <4> QED
        BY <4>1, FS_Interval
    <3> QED
      BY <3>1, <3>2
  <2> QED
    BY <1>4, <2>4
<1>7. l \in T /\ \A y \in T : l <= y
  <2>1. T \in SUBSET Nat
    BY <1>4
  <2> QED
    BY <1>6, <2>1, LeastIs
<1>8. l \in Nat \ {0} /\ l <= n + 1 /\ p[l] \notin taken
  BY <1>4, <1>7
<1> HIDE DEF l
<1>9. r = 0 \/ IsWanted(r, size, m)
  BY <1>2, <1>5, <1>8
<1>10. ASSUME r = 0, NEW x, IsWanted(x, size, m) PROVE x \in taken
  <2>1. x \in Nat
    BY <1>10, WordTypes DEF IsWanted, Word
  <2>2. PICK j \in 1 .. l : p[j] = x
    <3>1. ~(x < p[l])
      BY <1>2, <1>10, <2>1
    <3> QED
      BY <1>5, <1>8, <1>10, <2>1, <3>1
  <2>3. j # l
    <3>1. 0 # x
      <4>1. IsPrime(x) /\ x \in Word
        BY <1>10 DEF IsWanted
      <4>2. x >= 2
        BY <4>1 DEF IsPrime, PrimeTable
      <4> QED
        BY <2>1, <4>2
    <3> QED
      BY <1>2, <1>10, <2>2, <3>1
  <2>4. j \in 1 .. n + 1 /\ j < l
    BY <1>4, <1>8, <2>2, <2>3
  <2>5. j \notin T
    BY <1>7, <1>8, <2>4
  <2> QED
    BY <2>2, <2>4, <2>5
<1> QED
  BY <1>2, <1>8, <1>9, <1>10 DEF m

-----------------------------------------------------------------------------
(* Generated moduli *)

TakenBefore(m, i, used) == (used \cup {m[j] : j \in 1 .. i - 1}) \ {0}

ModulusFor(size, degree, taken) ==
    IF size \notin MinBits .. MaxBits THEN 0 ELSE NextModulus(size, degree, taken)

LEMMA ModulusForWord ==
    ASSUME NEW size, NEW degree \in Nat, degree >= 8, NEW taken, IsFiniteSet(taken), 0 \notin taken
    PROVE  ModulusFor(size, degree, taken) \in Word
<1>1. 0 \in Word
  BY BitsOfZero
<1>2. CASE SizeOk(size)
  <2>1. ModulusFor(size, degree, taken) = NextModulus(size, degree, taken)
    BY <1>2 DEF ModulusFor, SizeOk
  <2> QED
    BY <1>1, <1>2, <2>1, NextModulusFree DEF IsWanted
<1>3. CASE ~SizeOk(size)
  BY <1>1, <1>3 DEF ModulusFor, SizeOk
<1> QED
  BY <1>2, <1>3

LEMMA TakenFinite ==
    ASSUME NEW m, NEW i \in Nat, NEW used, IsFiniteSet(used)
    PROVE  IsFiniteSet(TakenBefore(m, i, used)) /\ 0 \notin TakenBefore(m, i, used)
<1> DEFINE f == [j \in 1 .. i - 1 |-> m[j]]
           R == {m[j] : j \in 1 .. i - 1}
<1>1. IsFiniteSet(1 .. i - 1)
  <2>1. 1 \in Int /\ i - 1 \in Int
    OBVIOUS
  <2> QED
    BY <2>1, FS_Interval
<1>2. f \in Surjection(1 .. i - 1, R)
  <2>1. f \in [1 .. i - 1 -> R]
    OBVIOUS
  <2>2. \A y \in R : \E x \in 1 .. i - 1 : f[x] = y
    OBVIOUS
  <2> QED
    BY <2>1, <2>2 DEF Surjection
<1>3. IsFiniteSet(R)
  BY <1>1, <1>2, FS_Surjection
<1> HIDE DEF R
<1>4. IsFiniteSet(used \cup R)
  BY <1>3, FS_Union
<1>5. TakenBefore(m, i, used) = (used \cup R) \ {0}
  BY DEF TakenBefore, R
<1>6. (used \cup R) \ {0} \in SUBSET (used \cup R)
  OBVIOUS
<1>7. IsFiniteSet((used \cup R) \ {0})
  BY <1>4, <1>6, FS_Subset
<1> QED
  BY <1>5, <1>7

(* There are as many words as there are sizes, each the next prime of its  *)
(* size after those before it.                                             *)
LEMMA GeneratedPrimes ==
    ASSUME NEW sizes \in Seq(Nat), NEW degree \in Nat, degree >= 8, NEW used, IsFiniteSet(used),
           NEW m, m = PrimesOf(sizes, degree, used)
    PROVE  /\ m \in Seq(Word) /\ Len(m) = Len(sizes)
           /\ \A i \in 1 .. Len(sizes) : m[i] = ModulusFor(sizes[i], degree, TakenBefore(m, i, used))
<1> DEFINE n == Len(sizes)
           Next1(s, i) == Append(s, ModulusFor(sizes[i], degree, TakenBefore(s, i, used)))
           step == [a \in (1 .. n) \X Seq(Word) |-> Next1(a[2], a[1])]
           E(h) == h = [i \in 0 .. n |-> IF i = 0 THEN << >> ELSE Next1(h[i - 1], i)]
           c == CHOOSE h : E(h)
<1>1. n \in Nat
  OBVIOUS
<1>2. m = c[n]
  BY DEF PrimesOf, ModulusFor, TakenBefore
<1>3. \A s \in Seq(Word), i \in 1 .. n : Next1(s, i) \in Seq(Word)
  <2> TAKE s \in Seq(Word), i \in 1 .. n
  <2>1. ModulusFor(sizes[i], degree, TakenBefore(s, i, used)) \in Word
    BY TakenFinite, ModulusForWord
  <2> QED
    BY <2>1
<1> HIDE DEF n, Next1
<1>4. step \in [(1 .. n) \X Seq(Word) -> Seq(Word)]
  BY <1>3
<1>5. \A i \in 1 .. n, s \in Seq(Word) : step[<< i, s >>] = Next1(s, i)
  OBVIOUS
<1> HIDE DEF step
<1>6. << >> \in Seq(Word)
  OBVIOUS
<1>7. PICK g \in [0 .. n -> Seq(Word)] : Steps(g, n, << >>, step)
  BY <1>1, <1>4, <1>6, RecursionExists
<1>8. g[0] = << >> /\ \A i \in 1 .. n : g[i] = Next1(g[i - 1], i)
  <2>1. \A i \in 1 .. n : i - 1 \in 0 .. n
    BY <1>1
  <2> QED
    BY <1>5, <1>7, <2>1 DEF Steps
<1>9. E(g)
  <2>1. g = [i \in 0 .. n |-> g[i]]
    OBVIOUS
  <2>2. \A i \in 0 .. n : g[i] = IF i = 0 THEN << >> ELSE Next1(g[i - 1], i)
    BY <1>1, <1>8
  <2> QED
    BY <2>1, <2>2
<1>10. E(c)
  BY <1>9
<1> HIDE DEF c
<1>11. c[0] = << >> /\ \A i \in 1 .. n : c[i] = Next1(c[i - 1], i)
  <2>1. \A i \in 0 .. n : c[i] = IF i = 0 THEN << >> ELSE Next1(c[i - 1], i)
    BY <1>10
  <2> QED
    BY <1>1, <2>1
<1>12. \A i \in 0 .. n : c[i] \in Seq(Word) /\ Len(c[i]) = i
  <2> DEFINE U == {i \in 0 .. n : c[i] \in Seq(Word) /\ Len(c[i]) = i}
  <2>1. 0 \in U
    <3>1. << >> \in Seq(Word) /\ Len(<< >>) = 0 /\ 0 \in 0 .. n
      BY <1>1
    <3> QED
      BY <1>11, <3>1
  <2>2. ASSUME NEW i \in 0 .. n - 1, i \in U PROVE i + 1 \in U
    <3>1. i + 1 \in 1 .. n /\ (i + 1) - 1 = i /\ i + 1 \in 0 .. n /\ c[i] \in Seq(Word) /\ Len(c[i]) = i
      BY <1>1, <2>2
    <3>2. c[i + 1] = Next1(c[i], i + 1)
      BY <1>11, <3>1
    <3>3. c[i + 1] \in Seq(Word)
      BY <1>3, <3>1, <3>2
    <3>4. Len(c[i + 1]) = i + 1
      BY <3>1, <3>2 DEF Next1
    <3> QED
      BY <3>1, <3>3, <3>4
  <2> HIDE DEF U
  <2>3. \A i \in 0 .. n : i \in U
    BY <1>1, <2>1, <2>2, InductionUpTo
  <2> QED
    BY <2>3 DEF U
<1>13. \A i \in 0 .. n : \A j \in 1 .. i : c[i][j] = c[j][j]
  <2> DEFINE U == {i \in 0 .. n : \A j \in 1 .. i : c[i][j] = c[j][j]}
  <2>1. 0 \in U
    BY <1>1
  <2>2. ASSUME NEW i \in 0 .. n - 1, i \in U PROVE i + 1 \in U
    <3>1. i + 1 \in 1 .. n /\ (i + 1) - 1 = i /\ i + 1 \in 0 .. n /\ c[i] \in Seq(Word) /\ Len(c[i]) = i
      BY <1>1, <1>12
    <3>2. c[i + 1] = Next1(c[i], i + 1)
      BY <1>11, <3>1
    <3>3. \A j \in 1 .. i : c[i + 1][j] = c[i][j]
      BY <3>1, <3>2 DEF Next1
    <3>4. ASSUME NEW j \in 1 .. i + 1 PROVE c[i + 1][j] = c[j][j]
      <4>1. CASE j \in 1 .. i
        BY <2>2, <3>3, <4>1
      <4>2. CASE j = i + 1
        BY <4>2
      <4> QED
        BY <4>1, <4>2
    <3> QED
      BY <3>1, <3>4
  <2> HIDE DEF U
  <2>3. \A i \in 0 .. n : i \in U
    BY <1>1, <2>1, <2>2, InductionUpTo
  <2> QED
    BY <2>3 DEF U
<1>14. ASSUME NEW i \in 1 .. n
       PROVE  m[i] = ModulusFor(sizes[i], degree, TakenBefore(m, i, used))
  <2>1. i \in 0 .. n /\ i - 1 \in 0 .. n /\ n \in 0 .. n /\ i \in Nat
    BY <1>1
  <2>2. c[i] = Next1(c[i - 1], i) /\ c[i - 1] \in Seq(Word) /\ Len(c[i - 1]) = i - 1
    BY <1>11, <1>12, <2>1
  <2>3. c[i][i] = ModulusFor(sizes[i], degree, TakenBefore(c[i - 1], i, used))
    <3>1. Len(c[i - 1]) + 1 = i
      BY <2>1, <2>2
    <3>2. Append(c[i - 1], ModulusFor(sizes[i], degree, TakenBefore(c[i - 1], i, used)))[Len(c[i - 1]) + 1]
             = ModulusFor(sizes[i], degree, TakenBefore(c[i - 1], i, used))
      BY <2>2
    <3> QED
      BY <2>2, <3>1, <3>2 DEF Next1
  <2>4. m[i] = c[i][i]
    BY <1>2, <1>13, <2>1
  <2>5. \A j \in 1 .. i - 1 : c[i - 1][j] = m[j]
    <3> TAKE j \in 1 .. i - 1
    <3>1. j \in 1 .. n
      BY <1>1
    <3> QED
      BY <1>2, <1>13, <2>1, <3>1
  <2>6. TakenBefore(c[i - 1], i, used) = TakenBefore(m, i, used)
    BY <2>5 DEF TakenBefore
  <2> QED
    BY <2>3, <2>4, <2>6
<1>15. m \in Seq(Word) /\ Len(m) = n
  <2>1. n \in 0 .. n
    BY <1>1
  <2> QED
    BY <1>2, <1>12, <2>1
<1> QED
  BY <1>14, <1>15 DEF n

LEMMA GeneratedModuli ==
    ASSUME NEW sizes \in Seq(Nat), NEW degree \in Nat, degree >= 8,
           NEW m, m = GenerateModuli(sizes, degree)
    PROVE  /\ m \in Seq(Word) /\ Len(m) = Len(sizes)
           /\ \A i \in 1 .. Len(sizes) : m[i] = ModulusFor(sizes[i], degree, TakenBefore(m, i, {}))
<1>1. IsFiniteSet({}) /\ m = PrimesOf(sizes, degree, {})
  BY FS_EmptySet DEF GenerateModuli
<1> QED
  BY <1>1, GeneratedPrimes

(* Without a zero the generated moduli have the sizes asked for, and with  *)
(* one a size is out of range or asked for more often than it has primes.  *)
AsAsked(m, sizes, degree) ==
    /\ (\A i \in DOMAIN m : m[i] # 0) => SizesOf(m) = sizes
    /\ \A i \in DOMAIN m : m[i] = 0 =>
          \/ sizes[i] \notin MinBits .. MaxBits
          \/ Cardinality({j \in DOMAIN sizes : sizes[j] = sizes[i]})
                > Cardinality({q \in Word : NttModulus(q, degree) /\ Bits(q) = sizes[i]})

LEMMA SizesAsAsked ==
    ASSUME NEW sizes \in Seq(Nat), NEW degree \in Nat, degree >= 8,
           NEW m, m = GenerateModuli(sizes, degree)
    PROVE  AsAsked(m, sizes, degree)
<1>1. /\ m \in Seq(Word) /\ Len(m) = Len(sizes) /\ Len(m) \in Nat
      /\ \A i \in 1 .. Len(sizes) : m[i] = ModulusFor(sizes[i], degree, TakenBefore(m, i, {}))
  BY GeneratedModuli
<1>2. DOMAIN m = 1 .. Len(sizes) /\ DOMAIN sizes = 1 .. Len(sizes)
  BY <1>1
<1>3. ASSUME NEW i \in 1 .. Len(sizes)
      PROVE  /\ m[i] = 0 \/ (IsWanted(m[i], sizes[i], 2 * degree) /\ SizeOk(sizes[i]))
             /\ m[i] = 0 /\ SizeOk(sizes[i]) =>
                  \A x : IsWanted(x, sizes[i], 2 * degree) => x \in TakenBefore(m, i, {})
  <2>1. m[i] = ModulusFor(sizes[i], degree, TakenBefore(m, i, {}))
    BY <1>1
  <2>2. IsFiniteSet(TakenBefore(m, i, {})) /\ 0 \notin TakenBefore(m, i, {})
    BY FS_EmptySet, TakenFinite
  <2>3. CASE ~SizeOk(sizes[i])
    BY <2>1, <2>3 DEF ModulusFor, SizeOk
  <2>4. CASE SizeOk(sizes[i])
    <3>1. m[i] = NextModulus(sizes[i], degree, TakenBefore(m, i, {}))
      BY <2>1, <2>4 DEF ModulusFor, SizeOk
    <3> QED
      BY <2>2, <2>4, <3>1, NextModulusFree
  <2> QED
    BY <2>3, <2>4
<1>4. ASSUME \A i \in DOMAIN m : m[i] # 0 PROVE SizesOf(m) = sizes
  <2>1. \A i \in 1 .. Len(sizes) : Bits(m[i]) = sizes[i]
    BY <1>2, <1>3, <1>4 DEF IsWanted
  <2>2. sizes = [i \in 1 .. Len(sizes) |-> sizes[i]]
    BY <1>2
  <2> QED
    BY <1>2, <2>1, <2>2 DEF SizesOf
<1>5. ASSUME NEW i \in 1 .. Len(sizes), m[i] = 0, SizeOk(sizes[i])
      PROVE  Cardinality({j \in DOMAIN sizes : sizes[j] = sizes[i]})
                > Cardinality({q \in Word : NttModulus(q, degree) /\ Bits(q) = sizes[i]})
  <2> DEFINE s == sizes[i]
             J == {j \in DOMAIN sizes : sizes[j] = s}
             P == {q \in Word : NttModulus(q, degree) /\ Bits(q) = s}
             At(q) == CHOOSE j \in 1 .. i - 1 : m[j] = q
             f == [q \in P |-> At(q)]
  <2>1. ASSUME NEW q \in P PROVE At(q) \in J \ {i} /\ m[At(q)] = q
    <3>1. IsWanted(q, s, 2 * degree)
      BY DEF NttModulus, IsWanted
    <3>2. q \in TakenBefore(m, i, {})
      BY <1>3, <1>5, <3>1
    <3>3. \E j \in 1 .. i - 1 : m[j] = q
      BY <3>2 DEF TakenBefore
    <3>4. At(q) \in 1 .. i - 1 /\ m[At(q)] = q
      BY <3>3
    <3> DEFINE j == At(q)
    <3> HIDE DEF j
    <3>5. j \in 1 .. Len(sizes) /\ j # i /\ m[j] = q
      BY <3>4 DEF j
    <3>6. q # 0
      BY <3>2 DEF TakenBefore
    <3>7. Bits(q) = sizes[j] /\ Bits(q) = s
      BY <1>3, <3>1, <3>5, <3>6 DEF IsWanted
    <3>8. j \in J \ {i}
      BY <1>2, <3>5, <3>7
    <3> QED
      BY <3>4, <3>8 DEF j
  <2>2. f \in Injection(P, J \ {i})
    <3> HIDE DEF At, P, J
    <3>1. f \in [P -> J \ {i}]
      BY <2>1
    <3>2. \A x, y \in P : f[x] = f[y] => x = y
      BY <2>1
    <3> QED
      BY <3>1, <3>2 DEF Injection, IsInjective
  <2>3. IsFiniteSet(J)
    <3>1. Len(sizes) \in Nat /\ 1 \in Int /\ Len(sizes) \in Int
      BY <1>1
    <3>2. IsFiniteSet(1 .. Len(sizes))
      BY <3>1, FS_Interval
    <3>3. J \in SUBSET (1 .. Len(sizes))
      BY <1>2
    <3> QED
      BY <3>2, <3>3, FS_Subset
  <2>4. i \in J
    BY <1>2
  <2> HIDE DEF f, J, P
  <2>5. IsFiniteSet(J \ {i}) /\ Cardinality(J \ {i}) = Cardinality(J) - 1
    BY <2>3, <2>4, FS_RemoveElement
  <2>6. IsFiniteSet(P) /\ Cardinality(P) <= Cardinality(J \ {i})
    BY <2>2, <2>5, FS_Injection
  <2>7. Cardinality(J) \in Nat /\ Cardinality(P) \in Nat
    BY <2>3, <2>6, FS_CardinalityType
  <2>8. Cardinality(J) > Cardinality(P)
    BY <2>5, <2>6, <2>7
  <2> QED
    BY <2>8 DEF J, P
<1> QED
  BY <1>2, <1>4, <1>5 DEF SizeOk, AsAsked

-----------------------------------------------------------------------------
(* The parameters that are built *)

Errors == {"none", "degree", "plaintext", "conflict", "missing", "primes", "moduli", "inverse",
            "panic"}

Builders ==
    [degree : Word, t : Nat, variance : Nat, moduli : Seq(Word), sizes : Seq(Nat), refused : Errors]

(* What is given to build and accepted by it. *)
Accepted(b) == b \in Builders /\ BuildError(b) = "none"

LEMMA AcceptedFacts ==
    ASSUME NEW b, Accepted(b), NEW M, M = ModuliOf(b)
    PROVE  /\ DegreeOk(b.degree) /\ b.degree \in Nat /\ b.degree >= 8
           /\ PlaintextOk(b.t) /\ b.t \in Nat /\ b.t >= 2
           /\ M \in Seq(Word) /\ Len(M) \in Nat \ {0} /\ DOMAIN M = 1 .. Len(M)
           /\ ContextOk(M, b.degree) /\ DeltaOk(M, b.t) /\ BasisOk(M, b.degree)
           /\ \A i \in DOMAIN M : M[i] # 0
<1>1. b \in Builders /\ BuildError(b) = "none"
  BY DEF Accepted
<1>2. DegreeOk(b.degree) /\ PlaintextOk(b.t) /\ ~(b.moduli = << >> /\ b.sizes = << >>)
  BY <1>1 DEF BuildError
<1>3. /\ ContextOk(M, b.degree) /\ DeltaOk(M, b.t) /\ BasisOk(M, b.degree)
      /\ \A i \in DOMAIN M : M[i] # 0
  BY <1>1, <1>2 DEF BuildError, ModuliOf
<1>4. b.degree \in Nat /\ b.degree >= 8
  BY <1>1, <1>2, WordTypes DEF Builders, DegreeOk, Word
<1>5. M \in Seq(Word)
  <2>1. b.sizes \in Seq(Nat) /\ b.moduli \in Seq(Word)
    BY <1>1 DEF Builders
  <2>2. GenerateModuli(b.sizes, b.degree) \in Seq(Word)
    BY <1>4, <2>1, GeneratedModuli
  <2> QED
    BY <2>1, <2>2 DEF ModuliOf
<1>6. M # << >>
  BY <1>3 DEF ContextOk, RnsContextOk
<1>7. Len(M) \in Nat \ {0} /\ DOMAIN M = 1 .. Len(M)
  BY <1>5, <1>6
<1>8. b.t \in Nat /\ b.t >= 2
  <2>1. b.t \in Nat /\ B \in Nat /\ B >= 16
    BY <1>1, WordTypes DEF Builders
  <2> QED
    BY <1>2, <2>1 DEF PlaintextOk, IsSmall, NewModulusOk
<1> QED
  BY <1>2, <1>3, <1>4, <1>5, <1>7, <1>8

(* What build makes of the fields it reads. *)
BuiltWith(degree, t, variance, moduli) ==
    LET n == Len(moduli)
        basis == ExtendedBasis(moduli, degree)
    IN  [degree |-> degree, t |-> t, variance |-> variance, moduli |-> moduli,
         sizes |-> SizesOf(moduli), simd |-> IsSmall(t) /\ NttModulus(t, degree),
         plaintext |-> SubSeq(moduli, 1, PlaintextCount(SizesOf(moduli), t)),
         level |-> [k \in 0 .. n - 1 |-> CipherPlain(FirstModuli(moduli, k), t)],
         mul |-> [k \in 0 .. n - 1 |-> MultiplicationModuli(moduli, k, basis)]]

(* Parameters that are written and read again are accepted and the same.   *)
LEMMA ReloadIsBuilt ==
    ASSUME NEW b, Accepted(b), NEW p, p = Built(b), NEW r, r = ReloadBuilder(p)
    PROVE  Accepted(r) /\ Built(r) = p
<1> DEFINE M == ModuliOf(b)
<1>1. /\ DegreeOk(b.degree) /\ PlaintextOk(b.t) /\ M \in Seq(Word) /\ M # << >>
      /\ ContextOk(M, b.degree) /\ DeltaOk(M, b.t) /\ BasisOk(M, b.degree)
      /\ \A i \in DOMAIN M : M[i] # 0
  <2>1. Len(M) # 0
    BY AcceptedFacts
  <2> QED
    BY <2>1, AcceptedFacts
<1>2. b \in Builders
  BY DEF Accepted
<1>3. p.degree = b.degree /\ p.t = b.t /\ p.moduli = M /\ p.variance = b.variance
  BY DEF Built, ModuliOf
<1> HIDE DEF M
<1>4. r = [degree |-> b.degree, t |-> b.t, variance |-> b.variance, moduli |-> M, sizes |-> << >>,
           refused |-> "none"]
  BY <1>3 DEF ReloadBuilder, NewBuilder
<1>5. << >> \in Seq(Nat)
  OBVIOUS
<1>6. r \in Builders
  BY <1>1, <1>2, <1>4, <1>5 DEF Builders, Errors
<1>7. r.degree = b.degree /\ r.t = b.t /\ r.variance = b.variance /\ r.moduli = M /\ r.sizes = << >>
  BY <1>4
<1>10. ModuliOf(r) = M
  BY <1>7 DEF ModuliOf
<1>8. BuildError(r) = "none"
  BY <1>1, <1>7, <1>10 DEF BuildError
<1>9. Built(r) = Built(b)
  <2>1. ModuliOf(r) = ModuliOf(b)
    BY <1>10 DEF M
  <2>2. /\ Built(r) = BuiltWith(r.degree, r.t, r.variance, ModuliOf(r))
        /\ Built(b) = BuiltWith(b.degree, b.t, b.variance, ModuliOf(b))
    BY DEF Built, BuiltWith
  <2> HIDE DEF M
  <2> QED
    BY <1>7, <2>1, <2>2
<1> QED
  BY <1>6, <1>8, <1>9 DEF Accepted

(* The default sets are built from words. *)
LEMMA DefaultIsBuilder ==
    ASSUME NEW set \in DefaultSets, NEW bits \in DefaultBits,
           NEW t, t = GeneratePrime(bits, 2 * set.degree, Pow2[bits] - 1), t # 0,
           NEW b, b = [NewBuilder EXCEPT !.degree = set.degree, !.t = t, !.moduli = set.moduli],
           BuildError(b) = "none"
    PROVE  Accepted(b)
<1>1. set.degree \in Word /\ set.moduli \in Seq(Word) /\ << >> \in Seq(Nat)
  BY ParametersAssumption
<1>2. b = [degree |-> set.degree, t |-> t, variance |-> 10, moduli |-> set.moduli, sizes |-> << >>,
           refused |-> "none"]
  BY DEF NewBuilder
<1>3. SizeOk(bits)
  BY DEF GeneratePrime, SizeOk
<1>4. set.degree \in Nat /\ set.degree >= 8
  <2>1. DegreeOk(set.degree)
    BY <1>2 DEF BuildError
  <2> QED
    BY <1>1, <2>1, WordTypes DEF DegreeOk, Word
<1>5. t \in Nat
  <2> DEFINE m == 2 * set.degree
             u == Pow2[bits] - 1
  <2>1. m \in Nat /\ m >= 2
    BY <1>4
  <2>2. Pow2[bits] \in Nat \ {0} /\ 2 <= Pow2[bits]
    <3>1. bits \in Nat \ {0} /\ bits <= 4 * W /\ 0 \in Nat /\ 0 < bits /\ 0 \in 0 .. 4 * W /\ W \in Nat
      BY <1>3, SizeBounds, WordsAssumption
    <3>2. 2 * Pow2[0] <= Pow2[bits] /\ Pow2[0] \in Nat \ {0}
      BY <3>1, PowerGrows, PowerTypes
    <3> QED
      BY <1>3, <3>2, SizeBounds
  <2>3. u \in Nat \ {0} /\ u <= Pow2[bits]
    BY <2>2
  <2>4. t = GeneratePrime(bits, m, u)
    OBVIOUS
  <2> HIDE DEF m, u
  <2>5. IsWanted(t, bits, m)
    BY <1>3, <2>1, <2>3, <2>4, GeneratedPrime
  <2> QED
    BY <2>5, WordTypes DEF IsWanted, Word
<1>6. b \in Builders
  BY ONLY <1>1, <1>2, <1>5 DEF Builders, Errors
<1> QED
  BY <1>6 DEF Accepted

LEMMA NewBuilderTypes == NewBuilder \in Builders /\ NewBuilder.sizes = << >>
<1>1. 0 \in Word /\ << >> \in Seq(Word) /\ << >> \in Seq(Nat)
  BY BitsOfZero
<1> QED
  BY <1>1 DEF NewBuilder, Builders, Errors

-----------------------------------------------------------------------------
(* The invariant of the parameters: what was built was accepted, what was  *)
(* read back is what was built, and nothing is read back before.           *)
ParametersInv ==
    /\ builder \in Builders
    /\ par # NoParameters => \E b : Accepted(b) /\ par = Built(b)
    /\ par = NoParameters => reloaded = NoParameters
    /\ reloaded # NoParameters => reloaded = par

specVars == << builder, par, reloaded, sk, pk, cts, calls >>

LEMMA ParametersStart == ASSUME SchemeInit PROVE ParametersInv
  BY NewBuilderTypes DEF SchemeInit, ParametersInit, ParametersInv

LEMMA ParametersStep == ASSUME ParametersInv, ParametersNext PROVE ParametersInv'
<1>1. builder \in Builders
  BY DEF ParametersInv
<1>2. ASSUME NEW b \in Builders, Set(b) PROVE ParametersInv'
  <2>1. builder' \in Builders
    BY <1>2 DEF Set, Builders, Errors
  <2> QED
    BY <1>2, <2>1 DEF Set, ParametersInv
<1>3. ASSUME NEW d \in Degrees, SetDegree(d) PROVE ParametersInv'
  <2>1. [builder EXCEPT !.degree = d] \in Builders
    BY <1>1, ParametersAssumption DEF Builders
  <2> QED
    BY <1>2, <1>3, <2>1 DEF SetDegree
<1>4. ASSUME NEW t \in PlaintextModuli, SetPlaintextModulus(t) PROVE ParametersInv'
  <2>1. [builder EXCEPT !.t = t] \in Builders
    BY <1>1, ParametersAssumption DEF Builders
  <2> QED
    BY <1>2, <1>4, <2>1 DEF SetPlaintextModulus
<1>5. ASSUME NEW s \in SizeLists, SetModuliSizes(s) PROVE ParametersInv'
  <2>1. [builder EXCEPT !.sizes = s] \in Builders
    BY <1>1, ParametersAssumption DEF Builders
  <2> QED
    BY <1>2, <1>5, <2>1 DEF SetModuliSizes
<1>6. ASSUME NEW m \in ModuliLists, SetModuli(m) PROVE ParametersInv'
  <2>1. [builder EXCEPT !.moduli = m] \in Builders
    BY <1>1, ParametersAssumption DEF Builders
  <2> QED
    BY <1>2, <1>6, <2>1 DEF SetModuli
<1>7. ASSUME NEW v \in VarianceChoices, SetVariance(v) PROVE ParametersInv'
  <2>1. [builder EXCEPT !.variance = v] \in Builders
    BY <1>1, ParametersAssumption DEF Builders
  <2> QED
    BY <1>2, <1>7, <2>1 DEF SetVariance
<1>8. ASSUME Build PROVE ParametersInv'
  <2>1. CASE BuildError(builder) = "none"
    <3>1. Accepted(builder) /\ par' = Built(builder) /\ builder' = NewBuilder /\ reloaded' = reloaded
      BY <1>1, <1>8, <2>1 DEF Build, Accepted
    <3> QED
      BY <1>8, <3>1, NewBuilderTypes DEF ParametersInv, Build
  <2>2. CASE BuildError(builder) # "none"
    <3>1. BuildError(builder) \in Errors
      BY DEF BuildError, Errors
    <3>2. builder' \in Builders
      BY <1>1, <1>8, <2>2, <3>1 DEF Build, Builders
    <3> QED
      BY <1>8, <2>2, <3>2 DEF ParametersInv, Build
  <2> QED
    BY <2>1, <2>2
<1>9. ASSUME NEW s \in DefaultSets, NEW bits \in DefaultBits, DefaultParameters(s, bits)
      PROVE  ParametersInv'
  <2> DEFINE t == GeneratePrime(bits, 2 * s.degree, Pow2[bits] - 1)
             b == [NewBuilder EXCEPT !.degree = s.degree, !.t = t, !.moduli = s.moduli]
  <2>1. t # 0 /\ BuildError(b) = "none" /\ par' = Built(b) /\ builder' = builder /\ reloaded' = reloaded
        /\ par = NoParameters
    BY <1>9 DEF DefaultParameters
  <2>2. Accepted(b)
    BY <2>1, DefaultIsBuilder
  <2> HIDE DEF b
  <2> QED
    BY <2>1, <2>2 DEF ParametersInv
<1>10. ASSUME Reload PROVE ParametersInv'
  <2>1. PICK b : Accepted(b) /\ par = Built(b)
    BY <1>10 DEF ParametersInv, Reload
  <2>2. Accepted(ReloadBuilder(par)) /\ Built(ReloadBuilder(par)) = par
    BY <2>1, ReloadIsBuilt
  <2>3. reloaded' = par /\ par' = par /\ builder' = builder /\ par # NoParameters
    BY <1>10, <2>2 DEF Reload, Accepted
  <2> QED
    BY <2>3 DEF ParametersInv
<1> QED
  BY <1>3, <1>4, <1>5, <1>6, <1>7, <1>8, <1>9, <1>10 DEF ParametersNext

LEMMA ParametersKept ==
    ASSUME ParametersInv, [SchemeNext]_specVars PROVE ParametersInv'
<1>1. CASE ParametersNext
  BY <1>1, ParametersStep
<1>2. CASE UNCHANGED << builder, par, reloaded >>
  BY <1>2 DEF ParametersInv
<1> QED
  BY <1>1, <1>2 DEF SchemeNext, specVars

LEMMA ParametersHold == Spec => []ParametersInv
<1>1. SchemeInit => ParametersInv
  BY ParametersStart
<1>2. ParametersInv /\ [SchemeNext]_specVars => ParametersInv'
  BY ParametersKept
<1> QED
  BY <1>1, <1>2, PTL DEF Spec, specVars

(* Parameters that were written and read are the parameters (to_bytes and  *)
(* try_deserialize): reading never refuses what build accepted, and the    *)
(* moduli it is given are those that sizes were turned into.               *)
THEOREM ReloadingIsExact == Spec => []ReloadsSame
<1>1. ParametersInv => ReloadsSame
  BY DEF ParametersInv, ReloadsSame
<1> QED
  BY <1>1, ParametersHold, PTL

LEMMA ModuliAreAsAsked == ASSUME ParametersInv PROVE ModuliAsAsked
<1>1. ASSUME par # NoParameters
      PROVE  /\ \A i \in DOMAIN par.moduli : NttModulus(par.moduli[i], par.degree)
             /\ \A i, j \in DOMAIN par.moduli : i # j => par.moduli[i] # par.moduli[j]
  <2>1. PICK b : Accepted(b) /\ par = Built(b)
    BY <1>1 DEF ParametersInv
  <2> DEFINE M == ModuliOf(b)
  <2>2. /\ M \in Seq(Word) /\ Len(M) \in Nat \ {0} /\ DOMAIN M = 1 .. Len(M)
        /\ ContextOk(M, b.degree)
    BY <2>1, AcceptedFacts
  <2>3. par.moduli = M /\ par.degree = b.degree
    BY <2>1 DEF Built, ModuliOf
  <2> HIDE DEF M
  <2>4. \A i \in 1 .. Len(M) : M[i] \in Nat /\ M[i] >= 2
    <3> TAKE i \in 1 .. Len(M)
    <3>1. M[i] \in Word /\ NewModulusOk(M[i])
      BY <2>2 DEF ContextOk, RnsContextOk
    <3> QED
      BY <3>1, WordTypes, SMTT(60) DEF NewModulusOk, Word
  <2>5. ASSUME NEW i \in 1 .. Len(M), NEW j \in 1 .. Len(M), i # j, M[i] = M[j] PROVE FALSE
    <3>1. Coprime(M[i], M[i]) /\ M[i] \in Nat \ {0} /\ M[i] >= 2
      BY <2>2, <2>4, <2>5 DEF ContextOk, RnsContextOk
    <3>2. M[i] % M[i] = 0 /\ M[i] \in 2 .. M[i]
      <4>1. M[i] = 1 * M[i] /\ M[i] \in Int /\ 1 \in Int
        BY <3>1
      <4> QED
        BY <3>1, <4>1, MultipleRemainder
    <3> QED
      BY <3>1, <3>2 DEF Coprime
  <2> QED
    BY <2>2, <2>3, <2>5 DEF ContextOk
<1>2. ASSUME builder.sizes # << >>, DegreeOk(builder.degree), NEW m,
             m = GenerateModuli(builder.sizes, builder.degree)
      PROVE  IF \E i \in DOMAIN m : m[i] = 0
             THEN \E i \in DOMAIN m :
                     \/ builder.sizes[i] \notin MinBits .. MaxBits
                     \/ Cardinality({j \in DOMAIN builder.sizes : builder.sizes[j] = builder.sizes[i]})
                          > Cardinality({q \in Word : NttModulus(q, builder.degree)
                                                      /\ Bits(q) = builder.sizes[i]})
             ELSE SizesOf(m) = builder.sizes
  <2>1. builder.sizes \in Seq(Nat) /\ builder.degree \in Nat /\ builder.degree >= 8
    BY <1>2, WordTypes DEF ParametersInv, Builders, DegreeOk, Word
  <2>2. AsAsked(m, builder.sizes, builder.degree)
    BY <1>2, <2>1, SizesAsAsked
  <2> QED
    BY <2>2 DEF AsAsked
<1> QED
  BY <1>1, <1>2 DEF ModuliAsAsked

(* Moduli are distinct primes with transforms of the degree; generated     *)
(* ones have the sizes asked for, and generation gives up only on a size   *)
(* out of range or asked for more often than there are primes of it        *)
(* (generate_moduli, generate_prime), for every width of words.            *)
THEOREM GeneratedAsAsked == Spec => []ModuliAsAsked
<1>1. ParametersInv => ModuliAsAsked
  BY ModuliAreAsAsked
<1> QED
  BY <1>1, ParametersHold, PTL

-----------------------------------------------------------------------------
(* What build precomputes for the levels *)

LEMMA FirstModuliContext ==
    ASSUME NEW M \in Seq(Word), NEW degree, ContextOk(M, degree), NEW k \in 0 .. Len(M) - 1,
           NEW q, q = FirstModuli(M, k)
    PROVE  /\ IsContext(q) /\ q \in Seq(Word) /\ Len(q) = Len(M) - k
           /\ \A i \in 1 .. Len(q) : q[i] = M[i] /\ NttModulus(q[i], degree)
<1>1. Len(M) \in Nat /\ k \in Nat /\ Len(M) - k \in Nat \ {0} /\ 1 \in Int /\ Len(M) - k \in Int
  OBVIOUS
<1>2. \A i \in 1 .. Len(M) - k : M[i] \in Word /\ i \in DOMAIN M
  BY <1>1
<1>3. /\ q \in Seq(Word) /\ Len(q) = Len(M) - k
      /\ \A i \in 1 .. Len(M) - k : q[i] = M[i]
  <2>1. /\ q \in Seq(Word) /\ Len(q) = IF 1 <= Len(M) - k THEN (Len(M) - k) - 1 + 1 ELSE 0
        /\ \A i \in 1 .. (Len(M) - k) - 1 + 1 : q[i] = M[1 + i - 1]
    BY <1>1, <1>2, SubSeqProperties DEF FirstModuli
  <2>2. (Len(M) - k) - 1 + 1 = Len(M) - k /\ 1 <= Len(M) - k
    BY <1>1
  <2>3. \A i \in 1 .. Len(M) - k : 1 + i - 1 = i
    BY <1>1
  <2> QED
    BY <2>1, <2>2, <2>3
<1>4. DOMAIN q = 1 .. Len(M) - k /\ q # << >> /\ q \in Seq(Nat)
  <2>1. \A x \in Word : x \in Nat
    BY WordTypes DEF Word
  <2>2. DOMAIN q = 1 .. Len(q) /\ Len(q) \in Nat /\ \A i \in 1 .. Len(q) : q[i] \in Word
    BY <1>3
  <2>3. q = [i \in 1 .. Len(q) |-> q[i]]
    BY <1>3, <2>2
  <2>4. \A i \in 1 .. Len(q) : q[i] \in Nat
    BY <2>1, <2>2
  <2>5. q \in Seq(Nat)
    BY <2>2, <2>3, <2>4
  <2> QED
    BY <1>1, <1>3, <2>2, <2>5
<1>5. RnsContextOk(q) /\ \A i \in 1 .. Len(q) : NttModulus(q[i], degree)
  BY <1>2, <1>3, <1>4 DEF ContextOk, RnsContextOk
<1> QED
  BY <1>3, <1>4, <1>5 DEF IsContext

(* delta is minus the inverse of t (BfvParameters: delta_rests). *)
LEMMA DeltaExact ==
    ASSUME NEW q, IsContext(q), \A i \in 1 .. Len(q) : IsPrime(q[i]),
           NEW t \in Nat, \A i \in 1 .. Len(q) : t % q[i] # 0
    PROVE  Delta(q, t) \in Nat /\ Same(Delta(q, t) * t, -1, ProductOf(q))
<1> DEFINE rest(i) == CHOOSE w \in 0 .. q[i] - 1 : (w * (q[i] - (t % q[i]))) % q[i] = 1
           rests == [i \in DOMAIN q |-> rest(i)]
<1>1. /\ Len(q) \in Nat \ {0} /\ DOMAIN q = 1 .. Len(q) /\ ProductOf(q) \in Nat \ {0}
      /\ \A i \in 1 .. Len(q) : q[i] \in Nat \ {0} /\ q[i] >= 2 /\ NewModulusOk(q[i])
  BY ContextTypes
<1>2. ASSUME NEW i \in 1 .. Len(q)
      PROVE  rest(i) \in Int /\ Same(rest(i) * t, -1, q[i])
  <2> DEFINE p == q[i]
             a == p - (t % p)
             m == NewModulus(p)
  <2>1. p \in Nat \ {0} /\ p >= 2 /\ NewModulusOk(p) /\ IsPrime(p) /\ t % p # 0 /\ p \in Nat
    BY <1>1
  <2> HIDE DEF p
  <2>2. t % p \in Int /\ 0 <= t % p /\ t % p < p
    BY <2>1
  <2>3. a \in 0 .. p - 1 /\ a # 0 /\ a \in Int
    BY <2>1, <2>2
  <2>4. InverseOk(m, a)
    BY <2>1, <2>3 DEF InverseOk, NewModulus
  <2> HIDE DEF a, m
  <2>5. /\ InverseOf(m, a) \in 0 .. p - 1 /\ (InverseOf(m, a) * a) % p = 1
    BY <2>1, <2>3, <2>4, InverseExact DEF m
  <2>6. \E w \in 0 .. p - 1 : (w * a) % p = 1
    BY <2>5
  <2>7. rest(i) \in 0 .. p - 1 /\ (rest(i) * a) % p = 1
    BY <2>6 DEF p, a
  <2> DEFINE w == rest(i)
  <2> HIDE DEF rest
  <2>15. w \in 0 .. p - 1
    BY <2>7
  <2> HIDE DEF w
  <2>8. w \in Int /\ w * a \in Int /\ w * t \in Int /\ p \in Int
    BY <2>1, <2>3, <2>15
  <2>9. Same(w * a, 1, p)
    <3>1. Same((w * a) % p, w * a, p)
      BY <2>1, <2>8, SameMod
    <3> QED
      BY <2>7, <2>8, <3>1, SameSymmetric DEF w
  <2>10. Same(a, -t, p)
    <3> DEFINE k == t \div p
    <3>1. t = k * p + (t % p) /\ k \in Int
      BY <2>1, Remainder
    <3> HIDE DEF k
    <3>2. a = -t + (k + 1) * p /\ -t \in Int /\ k + 1 \in Int
      BY <2>1, <2>2, <3>1 DEF a
    <3> QED
      BY <2>3, <2>8, <3>2, IsSame
  <2>11. Same(w * a, w * (-t), p)
    BY <2>8, <2>10, SameScaled
  <2>12. Same(w * (-t), 1, p)
    <3>1. Same(w * (-t), w * a, p)
      BY <2>8, <2>11, SameSymmetric
    <3> QED
      BY <2>8, <2>9, <3>1, SameTransitive
  <2>13. Same(-(w * (-t)), -1, p)
    BY <2>8, <2>12, SameNegated
  <2>14. -(w * (-t)) = w * t
    BY <2>8
  <2> QED
    BY <2>8, <2>13, <2>14 DEF w, p
<1> HIDE DEF rest
<1>3. \A i \in 1 .. Len(q) : rests[i] = rest(i) /\ rests[i] \in Int
  BY <1>1, <1>2
<1>4. Delta(q, t) = Lift(q, rests)
  BY DEF Delta, rest
<1> HIDE DEF rests
<1>5. /\ Lift(q, rests) \in 0 .. ProductOf(q) - 1
      /\ \A i \in 1 .. Len(q) : Same(Lift(q, rests), rests[i], q[i])
  BY <1>3, LiftExact
<1> DEFINE d == Delta(q, t)
<1>6. d \in Nat /\ d \in Int /\ d * t \in Int
  BY <1>1, <1>4, <1>5
<1>7. ASSUME NEW i \in 1 .. Len(q) PROVE Same(d * t, -1, q[i])
  <2>1. Same(d, rest(i), q[i]) /\ q[i] \in Int /\ rest(i) \in Int
    BY <1>1, <1>3, <1>4, <1>5, SMTT(60)
  <2> HIDE DEF d
  <2>2. Same(t * d, t * rest(i), q[i])
    BY <2>1, SameScaled
  <2>3. t * d = d * t /\ t * rest(i) = rest(i) * t
    BY <1>6, <2>1
  <2>4. Same(rest(i) * t, -1, q[i])
    BY <1>2
  <2> QED
    BY <2>1, <2>2, <2>3, <2>4, SameTransitive
<1> HIDE DEF d
<1>8. Same(d * t, -1, ProductOf(q))
  <2>1. -1 \in Int
    OBVIOUS
  <2> QED
    BY <1>6, <1>7, <2>1, ChineseRemainders
<1> QED
  BY <1>6, <1>8 DEF d

IsBuilt == \E b : Accepted(b) /\ par = Built(b)

Levels == 0 .. Len(par.moduli) - 1

LEMMA BuiltTypes ==
    ASSUME IsBuilt
    PROVE  /\ par.moduli \in Seq(Word) /\ Len(par.moduli) \in Nat \ {0}
           /\ \A i \in 1 .. Len(par.moduli) : par.moduli[i] \in Nat \ {0}
           /\ par.t \in Nat \ {0} /\ par.t >= 2 /\ par.variance \in Nat
           /\ DOMAIN par.level = Levels /\ ReadModulus \in Nat \ {0}
<1>1. PICK b : Accepted(b) /\ par = Built(b)
  BY DEF IsBuilt
<1> DEFINE M == ModuliOf(b)
           n == PlaintextCount(SizesOf(M), b.t)
<1>2. /\ M \in Seq(Word) /\ Len(M) \in Nat \ {0} /\ DOMAIN M = 1 .. Len(M)
      /\ ContextOk(M, b.degree) /\ b.t \in Nat /\ b.t >= 2
  BY <1>1, AcceptedFacts
<1>3. /\ par.moduli = M /\ par.t = b.t /\ par.variance = b.variance
      /\ par.level = [k \in 0 .. Len(M) - 1 |-> CipherPlain(FirstModuli(M, k), b.t)]
      /\ par.plaintext = SubSeq(M, 1, n)
  BY <1>1 DEF Built
<1>4. b.variance \in Nat
  BY <1>1 DEF Accepted, Builders
<1> HIDE DEF M
<1>5. \A i \in 1 .. Len(M) : M[i] \in Nat \ {0} /\ M[i] \in Word
  <2> TAKE i \in 1 .. Len(M)
  <2>1. NewModulusOk(M[i]) /\ M[i] \in Word
    BY <1>2 DEF ContextOk, RnsContextOk
  <2> QED
    BY <2>1, WordTypes, SMTT(60) DEF NewModulusOk, Word
<1>6. n \in 1 .. Len(M)
  <2> DEFINE T == {Len(SizesOf(M))} \cup
                    {i \in 1 .. Len(SizesOf(M)) : SumOfSizes(SizesOf(M), i) >= BitsOf(b.t) + Headroom}
  <2>1. Len(SizesOf(M)) = Len(M)
    <3>1. SizesOf(M) = [i \in 1 .. Len(M) |-> Bits(M[i])]
      BY <1>2 DEF SizesOf
    <3> QED
      BY <1>2, <3>1
  <2>2. n = Least(T)
    BY DEF PlaintextCount
  <2>3. T \in SUBSET (1 .. Len(M)) /\ T # {}
    BY <1>2, <2>1
  <2>4. T \in SUBSET Nat
    BY <1>2, <2>3
  <2> HIDE DEF T
  <2>5. Least(T) \in T
    BY <2>3, <2>4, LeastIs
  <2> QED
    BY <2>2, <2>3, <2>5
<1> HIDE DEF n
<1>7. SubSeq(M, 1, n) \in Seq(Nat \ {0})
  <2>1. 1 \in Int /\ n \in Int /\ \A i \in 1 .. n : M[i] \in Nat \ {0}
    BY <1>2, <1>5, <1>6
  <2> QED
    BY <2>1, SubSeqProperties
<1>8. ReadModulus \in Nat \ {0}
  <2>1. ProductOf(par.plaintext) \in Nat \ {0}
    BY <1>3, <1>7, ProductOfPositive
  <2>2. par.moduli[1] \in Nat \ {0}
    BY <1>2, <1>3, <1>5
  <2> QED
    BY <2>1, <2>2 DEF ReadModulus
<1> QED
  BY <1>2, <1>3, <1>4, <1>5, <1>8 DEF Levels

LEMMA LevelFacts ==
    ASSUME IsBuilt, NEW k \in Levels
    PROVE  /\ k \in Nat /\ IsContext(ModuliAt(k)) /\ Q(k) \in Nat \ {0}
           /\ Len(ModuliAt(k)) = Len(par.moduli) - k
           /\ \A i \in 1 .. Len(ModuliAt(k)) :
                 ModuliAt(k)[i] = par.moduli[i] /\ NttModulus(par.moduli[i], par.degree)
           /\ par.degree \in Nat /\ par.degree >= 8
           /\ par.level[k].delta \in Nat /\ Same(par.level[k].delta * par.t, -1, Q(k))
           /\ par.level[k].qModT = Q(k) % par.t
<1>1. PICK b : Accepted(b) /\ par = Built(b)
  BY DEF IsBuilt
<1> DEFINE M == ModuliOf(b)
           q == FirstModuli(M, k)
<1>2. /\ M \in Seq(Word) /\ Len(M) \in Nat \ {0} /\ DOMAIN M = 1 .. Len(M)
      /\ ContextOk(M, b.degree) /\ DeltaOk(M, b.t) /\ b.t \in Nat
      /\ b.degree \in Nat /\ b.degree >= 8
  BY <1>1, AcceptedFacts
<1>3. /\ par.moduli = M /\ par.t = b.t /\ par.degree = b.degree
      /\ par.level = [j \in 0 .. Len(M) - 1 |-> CipherPlain(FirstModuli(M, j), b.t)]
  BY <1>1 DEF Built
<1> HIDE DEF M
<1>4. k \in 0 .. Len(M) - 1 /\ k \in Nat
  BY <1>2, <1>3 DEF Levels
<1>5. /\ IsContext(q) /\ Len(q) = Len(M) - k
      /\ \A i \in 1 .. Len(q) : q[i] = M[i] /\ NttModulus(q[i], b.degree)
  BY <1>2, <1>4, FirstModuliContext, SMTT(60)
<1>6. ModuliAt(k) = q /\ Q(k) = ProductOf(q) /\ ProductOf(q) \in Nat \ {0}
  BY <1>3, <1>5, ContextTypes DEF ModuliAt, Q
<1>7. par.level[k] = CipherPlain(q, b.t)
  BY <1>3, <1>4
<1>8. par.level[k].delta = Delta(q, b.t) /\ par.level[k].qModT = ProductOf(q) % b.t
  BY <1>7 DEF CipherPlain
<1> HIDE DEF q
<1>9. \A i \in 1 .. Len(q) : IsPrime(q[i]) /\ b.t % q[i] # 0
  <2> TAKE i \in 1 .. Len(q)
  <2>1. i \in DOMAIN M /\ q[i] = M[i]
    BY <1>2, <1>4, <1>5
  <2> QED
    BY <1>2, <1>5, <2>1 DEF NttModulus, DeltaOk
<1>10. Delta(q, b.t) \in Nat /\ Same(Delta(q, b.t) * b.t, -1, ProductOf(q))
  BY <1>2, <1>5, <1>9, DeltaExact
<1> QED
  BY <1>2, <1>3, <1>4, <1>5, <1>6, <1>8, <1>10

(* Switching down divides the modulus by the last one. *)
LEMMA NextLevel ==
    ASSUME IsBuilt, NEW k \in Levels, k + 1 < Len(par.moduli)
    PROVE  /\ k + 1 \in Levels /\ par.moduli[Len(par.moduli) - k] \in Nat \ {0}
           /\ Q(k) = par.moduli[Len(par.moduli) - k] * Q(k + 1)
<1> DEFINE q == ModuliAt(k)
           M == par.moduli
<1>1. M \in Seq(Word) /\ Len(M) \in Nat \ {0} /\ \A i \in 1 .. Len(M) : M[i] \in Nat \ {0}
  BY BuiltTypes
<1>2. /\ IsContext(q) /\ Len(q) = Len(M) - k /\ k \in Nat
      /\ \A i \in 1 .. Len(q) : q[i] = M[i]
  BY LevelFacts
<1>3. k + 1 \in Levels /\ Len(M) - k \in 1 .. Len(M)
  BY <1>1, <1>2 DEF Levels
<1>4. q \in Seq(Nat \ {0}) /\ q # << >>
  <2>1. q \in Seq(Nat \ {0}) /\ Len(q) \in Nat \ {0}
    BY <1>2, ContextTypes
  <2> QED
    BY <2>1
<1>5. ModuliAt(k + 1) = SubSeq(q, 1, Len(q) - 1)
  <2> DEFINE a == SubSeq(M, 1, Len(M) - (k + 1))
             c == SubSeq(q, 1, Len(q) - 1)
             n == Len(M) - (k + 1)
  <2>1. n \in Nat \ {0} /\ n = Len(q) - 1 /\ n \in Int /\ 1 \in Int /\ n - 1 + 1 = n /\ 1 <= n
    BY <1>1, <1>2
  <2>2. \A i \in 1 .. n : M[i] \in Nat \ {0} /\ q[i] = M[i] /\ q[i] \in Nat \ {0} /\ 1 + i - 1 = i
    BY <1>1, <1>2, <2>1
  <2> HIDE DEF n, M, q
  <2>3. SubSeq(M, 1, n) \in Seq(Nat \ {0}) /\ Len(SubSeq(M, 1, n)) = n
        /\ \A i \in 1 .. n : SubSeq(M, 1, n)[i] = M[i]
    BY <2>1, <2>2, SubSeqProperties
  <2>4. SubSeq(q, 1, n) \in Seq(Nat \ {0}) /\ Len(SubSeq(q, 1, n)) = n
        /\ \A i \in 1 .. n : SubSeq(q, 1, n)[i] = q[i]
    BY <2>1, <2>2, SubSeqProperties
  <2>5. SubSeq(M, 1, n) = SubSeq(q, 1, n)
    BY <2>2, <2>3, <2>4
  <2> QED
    BY <2>1, <2>5 DEF ModuliAt, FirstModuli, M, n
<1>6. ProductOf(q) = q[Len(q)] * ProductOf(SubSeq(q, 1, Len(q) - 1))
  BY <1>4, ProductOfFront
<1>7. q[Len(q)] = M[Len(M) - k]
  BY <1>1, <1>2, <1>3
<1> QED
  BY <1>1, <1>3, <1>5, <1>6, <1>7 DEF Q

-----------------------------------------------------------------------------
(* Plaintexts in a ciphertext, and reading them *)

(* The numbers of a message brought to the scale of Q. *)
FloorValues(q, t, d, m, r, T) ==
    /\ q \in Nat \ {0}
    /\ t \in Nat \ {0}
    /\ d \in Nat
    /\ Same(d * t, -1, q)
    /\ m \in 0 .. t - 1
    /\ r = (m * (q % t)) % t
    /\ T = (d * r) % q

(* to_poly: what delta, minus the inverse of t, makes of a message is the  *)
(* message times Q / t, rounded down.                                      *)
LEMMA FloorByInverse ==
    ASSUME NEW q, NEW t, NEW d, NEW m, NEW r, NEW T,
           FloorValues(q, t, d, m, r, T)
    PROVE  T \in 0 .. q - 1 /\ r \in 0 .. t - 1 /\ t * T = m * q - r
<1> SUFFICES ASSUME q \in Nat \ {0},
                    t \in Nat \ {0},
                    d \in Nat,
                    Same(d * t, -1, q),
                    m \in 0 .. t - 1,
                    r = (m * (q % t)) % t,
                    T = (d * r) % q
             PROVE  T \in 0 .. q - 1 /\ r \in 0 .. t - 1 /\ t * T = m * q - r
  BY DEF FloorValues
<1>1. m \in Int /\ q % t \in Int /\ m * (q % t) \in Int /\ m * q \in Int /\ t \in Int /\ q \in Int
  OBVIOUS
<1>2. r \in Int /\ 0 <= r /\ r < t
  BY <1>1, Remainder
<1>3. d \in Int /\ d * r \in Int /\ d * t \in Int
  BY <1>1, <1>2
<1>4. T \in Int /\ 0 <= T /\ T < q
  BY <1>3, Remainder
<1>5. Same(r, m * q, t)
  <2>1. Same(r, m * (q % t), t)
    BY <1>1, SameMod
  <2>2. Same(q % t, q, t)
    BY <1>1, SameMod
  <2>3. Same(m * (q % t), m * q, t)
    BY <1>1, <2>2, SameScaled
  <2> QED
    BY <1>1, <2>1, <2>3, SameTransitive
<1>6. PICK j \in Int : r = m * q + j * t
  BY <1>5 DEF Same
<1> DEFINE y == -j
<1>7. y \in Int /\ t * y \in Int /\ t * y = m * q - r
  BY <1>1, <1>2, <1>6
<1> HIDE DEF y
<1>8. Same(T, d * r, q)
  BY <1>3, SameMod
<1>9. Same(t * T, -r, q)
  <2>1. Same(t * T, t * (d * r), q)
    BY <1>1, <1>8, SameScaled
  <2>2. Same(r * (d * t), r * (-1), q)
    BY <1>1, <1>2, SameScaled
  <2>3. t * (d * r) = r * (d * t)
    BY <1>1, <1>2, <1>3
  <2>4. r * (-1) = -r
    BY <1>2
  <2> QED
    BY <1>1, <2>1, <2>2, <2>3, <2>4, SameTransitive
<1>10. Same(-r, t * y, q)
  <2> DEFINE n == -m
             a == m * q
             z == t * y
             s == n * q
  <2>2. n \in Int /\ s = -a /\ a \in Int /\ s \in Int /\ z \in Int /\ z = a - r
    BY <1>1, <1>7
  <2> HIDE DEF a, z, s
  <2>3. -r = z + s /\ -r \in Int
    BY <1>2, <2>2
  <2>1. -r = t * y + n * q /\ n \in Int /\ -r \in Int
    BY <2>2, <2>3 DEF s, z
  <2> HIDE DEF n
  <2> QED
    BY <1>1, <1>7, <2>1, IsSame
<1>11. Same(t * T, t * y, q)
  BY <1>1, <1>9, <1>10, SameTransitive
<1>12. ASSUME NEW x \in Int PROVE Same(d * (t * x), -x, q)
  <2>1. Same(x * (d * t), x * (-1), q)
    BY <1>1, SameScaled
  <2>2. x * (d * t) = d * (t * x) /\ x * (-1) = -x
    BY <1>1, <1>3
  <2> QED
    BY <2>1, <2>2
<1>13. Same(d * (t * T), d * (t * y), q)
  BY <1>1, <1>3, <1>11, SameScaled
<1>14. Same(-T, -y, q)
  <2>1. Same(-T, d * (t * T), q)
    BY <1>1, <1>4, <1>12, SameSymmetric
  <2>2. Same(d * (t * y), -y, q)
    BY <1>7, <1>12
  <2>3. Same(-T, d * (t * y), q)
    BY <1>1, <1>13, <2>1, SameTransitive
  <2> QED
    BY <1>1, <2>2, <2>3, SameTransitive
<1>15. Same(T, y, q)
  <2>1. Same(-(-T), -(-y), q)
    BY <1>1, <1>14, SameNegated
  <2>2. -(-T) = T /\ -(-y) = y
    BY <1>4, <1>7
  <2> QED
    BY <2>1, <2>2
<1>16. y \in 0 .. q - 1
  <2>1. 0 <= m * q /\ m * q <= (t - 1) * q
    <3>1. 0 <= m /\ m <= t - 1 /\ t - 1 \in Int
      OBVIOUS
    <3>2. m * q <= (t - 1) * q /\ 0 <= m * q
      BY <1>1, <3>1
    <3> QED
      BY <3>2
  <2>2. y >= 0
    <3>1. t * (y + 1) > 0
      BY <1>1, <1>2, <1>7, <2>1
    <3>2. (y + 1) * t > 0 /\ y + 1 \in Int
      BY <1>7, <3>1
    <3>3. y + 1 >= 1
      BY <3>2, Positive
    <3> QED
      BY <1>7, <3>3
  <2>3. y < q
    <3>1. t * q - t * y > 0
      <4>1. t * y <= (t - 1) * q
        BY <1>1, <1>2, <1>7, <2>1
      <4>2. (t - 1) * q = t * q - q
        BY <1>1
      <4> QED
        BY <1>1, <1>7, <4>1, <4>2
    <3>2. (q - y) * t > 0 /\ q - y \in Int
      BY <1>1, <1>7, <3>1
    <3>3. q - y >= 1
      BY <3>2, Positive
    <3> QED
      BY <1>7, <3>3
  <2> QED
    BY <1>7, <2>2, <2>3
<1>17. T = y
  <2>1. T \in 0 .. q - 1
    BY <1>4
  <2> QED
    BY <1>15, <1>16, <2>1, SameIndex
<1> QED
  BY <1>2, <1>4, <1>7, <1>17

(* The numbers of a decryption. *)
ScaledValues(q, t, C, T, r, w, e, l, N, S) ==
    /\ q \in Nat \ {0}
    /\ t \in Nat \ {0}
    /\ C \in Int
    /\ -q < 2 * C
    /\ 2 * C <= q
    /\ T \in Int
    /\ r \in 0 .. t - 1
    /\ w \in 0 .. t - 1
    /\ t * T = w * q - r
    /\ e \in Int
    /\ l \in Int
    /\ C = T + e + l * q
    /\ N \in Nat
    /\ -N <= e
    /\ e <= N
    /\ 2 * t * (N + 1) < q
    /\ S = Rounded(C, t, q)

(* Scaling a centred number within the budget gives the message.           *)
LEMMA ScaledMessage ==
    ASSUME NEW q, NEW t, NEW C, NEW T, NEW r, NEW w, NEW e, NEW l, NEW N, NEW S,
           ScaledValues(q, t, C, T, r, w, e, l, N, S)
    PROVE  S = w + t * l /\ -t <= 2 * S /\ 2 * S <= t
<1> SUFFICES ASSUME q \in Nat \ {0},
                    t \in Nat \ {0},
                    C \in Int,
                    -q < 2 * C,
                    2 * C <= q,
                    T \in Int,
                    r \in 0 .. t - 1,
                    w \in 0 .. t - 1,
                    t * T = w * q - r,
                    e \in Int,
                    l \in Int,
                    C = T + e + l * q,
                    N \in Nat,
                    -N <= e,
                    e <= N,
                    2 * t * (N + 1) < q,
                    S = Rounded(C, t, q)
             PROVE  S = w + t * l /\ -t <= 2 * S /\ 2 * S <= t
  BY DEF ScaledValues
<1> DEFINE z == w + t * l
           v == t * e - r
<1>1. /\ w \in Int /\ r \in Int /\ q \in Int /\ t \in Int /\ z \in Int /\ t * e \in Int /\ v \in Int
      /\ t * C \in Int /\ z * q \in Int /\ t * N \in Int
  OBVIOUS
<1>2. t * C = z * q + v
  <2>1. t * C = t * T + t * e + t * (l * q)
    BY <1>1
  <2>2. z * q = w * q + t * (l * q)
    BY <1>1
  <2> QED
    BY <1>1, <2>1, <2>2
<1>3. -(t * N) <= t * e /\ t * e <= t * N
  <2>1. 0 <= N - e /\ 0 <= e + N /\ N - e \in Nat /\ e + N \in Nat
    OBVIOUS
  <2>2. t * (N - e) >= 0 /\ t * (e + N) >= 0
    BY <2>1
  <2>3. t * (N - e) = t * N - t * e /\ t * (e + N) = t * e + t * N
    BY <1>1
  <2> QED
    BY <1>1, <2>2, <2>3
<1>4. 2 * (t * N) + 2 * t < q
  <2>1. 2 * t * (N + 1) = 2 * (t * N) + 2 * t
    BY <1>1
  <2> QED
    BY <2>1
<1>5. -q < 2 * v /\ 2 * v < q
  BY <1>1, <1>3, <1>4
<1> HIDE DEF z, v
<1>6. S = z
  <2> DEFINE p == 2 * q
             s == 2 * v + q
             x == 2 * t * C + q
  <2>1. p \in Nat \ {0} /\ s \in Int /\ 0 <= s /\ s < p
    BY <1>1, <1>5
  <2>2. x \in Int /\ x = z * p + s
    <3>1. 2 * t * C = 2 * (t * C) /\ z * p = 2 * (z * q)
      BY <1>1
    <3> QED
      BY <1>1, <1>2, <3>1
  <2>3. S = x \div p
    BY DEF Rounded
  <2> HIDE DEF p, s, x
  <2> QED
    BY <1>1, <2>1, <2>2, <2>3, QuotientUnique
<1>7. -(t * q) < 2 * (t * C) /\ 2 * (t * C) <= t * q
  <2>1. q - 2 * C \in Nat /\ 2 * C + q - 1 \in Nat
    BY <1>1
  <2>2. t * (q - 2 * C) >= 0 /\ t * (2 * C + q - 1) >= 0
    BY <2>1
  <2>3. t * (q - 2 * C) = t * q - 2 * (t * C) /\ t * (2 * C + q - 1) = 2 * (t * C) + t * q - t
    BY <1>1
  <2> QED
    BY <1>1, <2>2, <2>3
<1>8. -((t + 1) * q) < 2 * (z * q) /\ 2 * (z * q) < (t + 1) * q
  <2>1. (t + 1) * q = t * q + q
    BY <1>1
  <2> QED
    BY <1>1, <1>2, <1>5, <1>7, <2>1
<1>9. 2 * z < t + 1
  <2>1. (t + 1 - 2 * z) * q = (t + 1) * q - 2 * (z * q)
    BY <1>1
  <2>2. (t + 1 - 2 * z) * q > 0 /\ t + 1 - 2 * z \in Int
    BY <1>1, <1>8, <2>1
  <2>3. t + 1 - 2 * z >= 1
    BY <2>2, Positive
  <2> QED
    BY <1>1, <2>3
<1>10. 2 * z > -(t + 1)
  <2>1. (2 * z + t + 1) * q = 2 * (z * q) + (t + 1) * q
    BY <1>1
  <2>2. (2 * z + t + 1) * q > 0 /\ 2 * z + t + 1 \in Int
    BY <1>1, <1>8, <2>1
  <2>3. 2 * z + t + 1 >= 1
    BY <2>2, Positive
  <2> QED
    BY <1>1, <2>3
<1> QED
  BY <1>1, <1>6, <1>9, <1>10 DEF z

(* try_decrypt reads such a number back through the moduli read.           *)
LEMMA ReadBack ==
    ASSUME NEW t \in Nat \ {0}, NEW M \in Nat \ {0}, 3 * t < 2 * M,
           NEW S \in Int, -t <= 2 * S, 2 * S <= t,
           NEW w \in Int, NEW l \in Int, S = w + t * l
    PROVE  (((S % M) + t) % M) % t = w % t
<1> DEFINE x == S + t
           k == l + 1
<1>1. x \in Int /\ 0 <= x /\ x < M /\ x = k * t + w /\ k \in Int /\ t \in Int
  OBVIOUS
<1>2. ((S % M) + t) % M = x % M
  BY ONLY S \in Int, M \in Nat \ {0}, <1>1, RemainderOfSum DEF x
<1> HIDE DEF x, k
<1>3. x % M = x
  BY ONLY M \in Nat \ {0}, <1>1, OwnRemainder
<1>4. x % t = w % t
  <2>1. t \in Nat \ {0} /\ w \in Int /\ x \in Int /\ k \in Int /\ x = k * t + w
    BY <1>1
  <2>2. Same(x, w, t)
    BY <2>1 DEF Same
  <2> QED
    BY <2>1, <2>2, SameEqual
<1> QED
  BY <1>2, <1>3, <1>4

LEMMA CenteredSame ==
    ASSUME NEW q \in Nat \ {0}, NEW x \in 0 .. q - 1
    PROVE  Centered(x, q) \in Int /\ Same(Centered(x, q), x, q)
           /\ -q < 2 * Centered(x, q) /\ 2 * Centered(x, q) <= q
<1>1. CASE 2 * x > q
  <2> DEFINE y == x - q
  <2>1. Centered(x, q) = y /\ y = x + (-1) * q /\ y \in Int /\ x \in Int /\ -1 \in Int /\ q \in Int
        /\ y = x - q
    BY <1>1 DEF Centered
  <2> HIDE DEF y
  <2>2. Same(y, x, q)
    BY <2>1, IsSame
  <2> QED
    BY <1>1, <2>1, <2>2
<1>2. CASE ~(2 * x > q)
  <2>1. Centered(x, q) = x /\ x \in Int
    BY <1>2 DEF Centered
  <2> QED
    BY <1>2, <2>1, SameReflexive
<1> QED
  BY <1>1, <1>2

LEMMA AbsTypes ==
    ASSUME NEW x \in Int
    PROVE  Abs(x) \in Nat /\ -Abs(x) <= x /\ x <= Abs(x) /\ (Abs(x) = x \/ Abs(x) = -x)
  BY DEF Abs

-----------------------------------------------------------------------------
(* The moduli for products *)

(* Distinct primes are coprime. *)
LEMMA PrimesCoprime ==
    ASSUME NEW a \in Word, NEW b \in Word, IsPrime(a), IsPrime(b), a # b
    PROVE  Coprime(a, b)
<1>1. a \in Nat /\ b \in Nat /\ B \in Nat
  BY WordTypes DEF Word
<1>2. /\ a >= 2 /\ \A d \in 2 .. a - 1 : d * d > a \/ a % d # 0
      /\ b >= 2 /\ \A d \in 2 .. b - 1 : d * d > b \/ b % d # 0
  BY DEF IsPrime, PrimeTable
<1>3. ASSUME NEW p \in Nat, p >= 2, \A d \in 2 .. p - 1 : d * d > p \/ p % d # 0,
             NEW d \in 2 .. p, p % d = 0
      PROVE  d = p
  <2> SUFFICES ASSUME d # p PROVE FALSE
    OBVIOUS
  <2> DEFINE e == p \div d
  <2>1. d \in Nat \ {0} /\ d \in Int /\ d \in 2 .. p - 1 /\ p \in Int
    BY <1>3
  <2>2. p = e * d /\ e \in Int
    BY <1>3, <2>1, Remainder
  <2> HIDE DEF e
  <2>3. d * d > p
    BY <1>3, <2>1
  <2>4. e >= 1 /\ e \in Nat \ {0}
    <3>1. e * d > 0
      BY <1>3, <2>2
    <3>2. e >= 1
      BY <2>1, <2>2, <3>1, Positive
    <3> QED
      BY <2>2, <3>2
  <2>5. e # 1
    BY <2>1, <2>2
  <2>6. e < d
    <3>1. (d - e) * d > 0
      <4>1. (d - e) * d = d * d - e * d
        BY <2>1, <2>2
      <4>2. d * d \in Int /\ e * d \in Int
        BY <2>1, <2>2
      <4> QED
        BY <2>2, <2>3, <4>1, <4>2
    <3>2. d - e \in Int
      BY <2>1, <2>2
    <3>3. d - e >= 1
      BY <2>1, <3>1, <3>2, Positive
    <3> QED
      BY <2>1, <2>2, <3>3
  <2>7. e \in 2 .. p - 1
    BY <2>1, <2>4, <2>5, <2>6
  <2>8. p % e = 0
    <3>1. p = d * e /\ e \in Nat \ {0}
      BY <2>1, <2>2, <2>4
    <3> QED
      BY <2>1, <3>1, MultipleRemainder
  <2>9. e * e <= p
    <3>1. (d - e) * e >= 0
      BY <2>1, <2>4, <2>6
    <3>2. (d - e) * e = e * d - e * e
      BY <2>1, <2>2
    <3>3. d * e = e * d /\ e * e \in Int /\ e * d \in Int
      BY <2>1, <2>2
    <3> QED
      BY <2>2, <3>1, <3>2, <3>3
  <2> QED
    <3>1. e * e > p
      BY <1>3, <2>7, <2>8
    <3>2. e * e \in Int /\ p \in Int
      BY <2>1, <2>2
    <3> QED
      BY <2>9, <3>1, <3>2
<1>4. ASSUME NEW d \in 2 .. a, a % d = 0, b % d = 0 PROVE FALSE
  <2>1. d = a
    BY <1>1, <1>2, <1>3, <1>4
  <2>2. d \in 2 .. b
    <3>1. d <= b
      <4> SUFFICES ASSUME b < d PROVE FALSE
        BY <1>1
      <4>1. b % d = b
        BY <1>1, OwnRemainder
      <4> QED
        BY <1>2, <1>4, <4>1
    <3> QED
      BY <1>1, <3>1
  <2>3. d = b
    BY <1>1, <1>2, <1>3, <1>4, <2>2
  <2> QED
    BY <2>1, <2>3
<1> QED
  BY <1>4 DEF Coprime

(* A prime of the sizes allowed is a modulus.                              *)
LEMMA WantedModulus ==
    ASSUME NEW size, SizeOk(size), NEW m, NEW x, IsWanted(x, size, m)
    PROVE  x \in Word /\ x \in Nat \ {0} /\ NewModulusOk(x) /\ IsPrime(x)
<1>1. size \in Nat \ {0} /\ size <= W - 2 /\ W \in Nat /\ W >= 4
  BY ParametersAssumption, WordsAssumption DEF SizeOk
<1>2. x \in Word /\ IsPrime(x) /\ Bits(x) = size
  BY DEF IsWanted
<1>3. x >= 2
  BY <1>2 DEF IsPrime, PrimeTable
<1>4. x < Pow2[size]
  BY <1>2, BitsTypes
<1>5. Pow2[size] <= Pow2[W - 2] /\ Pow2[size] \in Nat /\ Pow2[W - 2] \in Nat \ {0}
  BY <1>1, PowersGrow
<1>6. B = 4 * Pow2[W - 2]
  <2>1. /\ W - 2 \in 0 .. 4 * W - 1 /\ W - 1 \in 0 .. 4 * W - 1
        /\ (W - 2) + 1 = W - 1 /\ (W - 1) + 1 = W
    BY <1>1
  <2>2. Pow2[W - 1] = 2 * Pow2[W - 2] /\ Pow2[W] = 2 * Pow2[W - 1]
    BY <2>1, PowersDouble
  <2> QED
    BY <1>5, <2>2, WordTypes
<1>7. B \div 4 = Pow2[W - 2]
  BY <1>5, <1>6
<1>8. x \in Nat
  BY <1>2, WordTypes DEF Word
<1> QED
  BY <1>2, <1>3, <1>4, <1>5, <1>7, <1>8 DEF NewModulusOk

(* The primes of the basis for products are as many as asked for, distinct,*)
(* and none of them a modulus.                                             *)
BasisFor(e, M, degree) ==
    /\ e \in Seq(Word) /\ Len(e) = Len(M) + 1
    /\ \A i \in 1 .. Len(e) : /\ IsWanted(e[i], MaxBits, 2 * degree)
                              /\ \A j \in 1 .. Len(M) : e[i] # M[j]
                              /\ \A j \in 1 .. i - 1 : e[i] # e[j]

LEMMA ExtendedBasisIs ==
    ASSUME NEW M \in Seq(Word), NEW degree \in Nat, degree >= 8, BasisOk(M, degree)
    PROVE  BasisFor(ExtendedBasis(M, degree), M, degree) /\ SizeOk(MaxBits)
<1> DEFINE sizes == [i \in 1 .. Len(M) + 1 |-> MaxBits]
           used == {M[i] : i \in DOMAIN M}
           e == ExtendedBasis(M, degree)
<1>1. Len(M) \in Nat /\ DOMAIN M = 1 .. Len(M) /\ MaxBits \in Nat
  BY ParametersAssumption
<1>2. sizes \in Seq(Nat) /\ Len(sizes) = Len(M) + 1 /\ \A i \in 1 .. Len(M) + 1 : sizes[i] = MaxBits
  BY <1>1
<1>3. IsFiniteSet(used)
  <2>1. IsFiniteSet(1 .. Len(M))
    BY <1>1, FS_Interval
  <2>2. used = {M[i] : i \in 1 .. Len(M)}
    BY <1>1
  <2> DEFINE f == [i \in 1 .. Len(M) |-> M[i]]
  <2>3. f \in Surjection(1 .. Len(M), used)
    BY <2>2 DEF Surjection
  <2> QED
    BY <2>1, <2>3, FS_Surjection
<1>4. e = PrimesOf(sizes, degree, used)
  BY DEF ExtendedBasis
<1> HIDE DEF sizes, used, e
<1>5. /\ e \in Seq(Word) /\ Len(e) = Len(M) + 1
      /\ \A i \in 1 .. Len(M) + 1 : e[i] = ModulusFor(MaxBits, degree, TakenBefore(e, i, used))
  <2>1. /\ e \in Seq(Word) /\ Len(e) = Len(sizes)
        /\ \A i \in 1 .. Len(sizes) : e[i] = ModulusFor(sizes[i], degree, TakenBefore(e, i, used))
    BY <1>2, <1>3, <1>4, GeneratedPrimes
  <2> QED
    BY <1>2, <2>1
<1>6. \A i \in 1 .. Len(M) + 1 : e[i] # 0
  BY <1>1 DEF BasisOk, e
<1>7. SizeOk(MaxBits)
  <2>1. 1 \in 1 .. Len(M) + 1
    BY <1>1
  <2> QED
    BY <1>5, <1>6, <2>1 DEF ModulusFor, SizeOk
<1>8. ASSUME NEW i \in 1 .. Len(M) + 1
      PROVE  /\ IsWanted(e[i], MaxBits, 2 * degree)
             /\ \A j \in 1 .. Len(M) : e[i] # M[j]
             /\ \A j \in 1 .. i - 1 : e[i] # e[j]
  <2> DEFINE taken == TakenBefore(e, i, used)
  <2>1. i \in Nat
    BY <1>1
  <2>2. IsFiniteSet(taken) /\ 0 \notin taken
    BY <1>3, <2>1, TakenFinite
  <2>3. e[i] = NextModulus(MaxBits, degree, taken)
    BY <1>5, <1>7 DEF ModulusFor, SizeOk
  <2> HIDE DEF taken
  <2>4. e[i] \notin taken /\ (e[i] = 0 \/ IsWanted(e[i], MaxBits, 2 * degree))
    BY <1>7, <2>2, <2>3, NextModulusFree
  <2>5. e[i] # 0
    BY <1>6
  <2>6. ASSUME NEW j \in 1 .. Len(M) PROVE e[i] # M[j]
    <3>1. M[j] \in used
      BY <1>1 DEF used
    <3> QED
      BY <2>4, <2>5, <3>1 DEF taken, TakenBefore
  <2>7. ASSUME NEW j \in 1 .. i - 1 PROVE e[i] # e[j]
    BY <2>4, <2>5 DEF taken, TakenBefore
  <2> QED
    BY <2>4, <2>5, <2>6, <2>7
<1> QED
  BY <1>5, <1>7, <1>8 DEF BasisFor, e

(* The moduli of a level have at most MaxBits bits each, and the basis has *)
(* enough primes.                                                          *)
LEMMA EnoughPrimes ==
    ASSUME NEW M \in Seq(Word), \A i \in 1 .. Len(M) : NewModulusOk(M[i]), NEW n \in 0 .. Len(M),
           NEW size, size = SumOfSizes(SizesOf(M), n), NEW c, c = ExtensionCount(size),
           MaxBits # 0
    PROVE  /\ size \in Nat /\ c \in 0 .. n + 1
           /\ c * MaxBits >= size + Headroom
<1> DEFINE f == SizesOf(M)
<1>1. Len(M) \in Nat /\ DOMAIN M = 1 .. Len(M) /\ n \in Nat
  OBVIOUS
<1>2. MaxBits \in Nat \ {0} /\ MaxBits = W - 2 /\ Headroom \in Nat /\ Headroom <= MaxBits /\ W \in Nat
  BY ParametersAssumption, WordsAssumption
<1>3. ASSUME NEW i \in 1 .. Len(M) PROVE f[i] = Bits(M[i]) /\ f[i] \in 0 .. MaxBits /\ f[i] \in Int
  <2>3. M[i] \in Word /\ i \in DOMAIN M
    BY <1>1
  <2>4. \A x \in Word : x \in Nat
    BY WordTypes DEF Word
  <2>1. f[i] = Bits(M[i]) /\ M[i] \in Word /\ M[i] \in Nat /\ NewModulusOk(M[i])
    BY <2>3, <2>4 DEF SizesOf
  <2>2. LeadingZeros[M[i]] \in 2 .. W - 1
    BY <2>1, BitsOfModulus
  <2> QED
    BY <1>2, <2>1, <2>2 DEF Bits
<1> HIDE DEF f
<1> DEFINE Bounded(m) == SumOf(f, m) \in Nat /\ SumOf(f, m) <= m * MaxBits
           S == {m \in 0 .. n : Bounded(m)}
<1>4. \A m \in 0 .. n : Bounded(m)
  <2>1. 0 \in S
    BY <1>1, <1>2, SumOfNothing
  <2>2. ASSUME NEW m \in 0 .. n - 1, m \in S PROVE m + 1 \in S
    <3>1. m \in Nat /\ m + 1 \in 1 .. Len(M) /\ \A i \in 1 .. m + 1 : f[i] \in Int
      BY <1>1, <1>3
    <3>2. SumOf(f, m + 1) = SumOf(f, m) + f[m + 1]
      BY <3>1, SumOfNext
    <3>3. (m + 1) * MaxBits = m * MaxBits + MaxBits /\ m * MaxBits \in Int
      BY <1>2, <3>1
    <3>4. f[m + 1] \in 0 .. MaxBits
      BY <1>3, <3>1
    <3> QED
      BY <1>2, <2>2, <3>1, <3>2, <3>3, <3>4
  <2> HIDE DEF S
  <2>3. \A m \in 0 .. n : m \in S
    BY <1>1, <2>1, <2>2, InductionUpTo
  <2> QED
    BY <2>3 DEF S
<1>5. size \in Nat /\ size <= n * MaxBits
  BY <1>1, <1>4 DEF f, SumOfSizes
<1> DEFINE x == size + Headroom + MaxBits - 1
           r == x % MaxBits
<1>6. c = x \div MaxBits /\ x \in Int
  BY <1>2, <1>5 DEF ExtensionCount
<1>12. x = size + Headroom + MaxBits - 1
  OBVIOUS
<1> HIDE DEF x, r
<1>7. x = c * MaxBits + r /\ 0 <= r /\ r < MaxBits /\ r \in Int /\ c \in Int
  BY <1>2, <1>6, Remainder, ZenonT(60) DEF r
<1> DEFINE cm == c * MaxBits
           nm == n * MaxBits
<1>8. cm \in Int /\ nm \in Int /\ x = cm + r /\ size <= nm
  BY <1>1, <1>2, <1>5, <1>7
<1> HIDE DEF cm, nm
<1>13. r \in Int /\ 0 <= r /\ r < MaxBits /\ size \in Int /\ size >= 0
  BY <1>5, <1>7
<1>9. cm >= size + Headroom
  BY ONLY <1>2, <1>8, <1>12, <1>13
<1>10. c >= 0
  <2>1. c * MaxBits >= 0
    BY <1>2, <1>5, <1>8, <1>9 DEF cm
  <2> QED
    BY <1>2, <1>7, <2>1, NotNegative
<1>11. c <= n + 1
  <2>1. (n + 2 - c) * MaxBits = nm + 2 * MaxBits - cm
    BY <1>1, <1>2, <1>7, SMTT(60) DEF nm, cm
  <2>5. nm + 2 * MaxBits - cm > 0
    BY ONLY <1>2, <1>8, <1>12, <1>13
  <2>2. (n + 2 - c) * MaxBits > 0
    BY <2>1, <2>5
  <2>3. n + 2 - c \in Int
    BY <1>1, <1>7
  <2>4. n + 2 - c >= 1
    BY <1>2, <2>2, <2>3, Positive
  <2> QED
    BY <1>1, <1>7, <2>4
<1> QED
  BY <1>1, <1>5, <1>7, <1>9, <1>10, <1>11 DEF cm

LEMMA Concatenated ==
    ASSUME NEW S, NEW a \in Seq(S), NEW b \in Seq(S)
    PROVE  /\ a \o b \in Seq(S) /\ Len(a \o b) = Len(a) + Len(b)
           /\ Len(a) \in Nat /\ Len(b) \in Nat /\ DOMAIN (a \o b) = 1 .. Len(a) + Len(b)
           /\ \A i \in 1 .. Len(a) : (a \o b)[i] = a[i] /\ i \in 1 .. Len(a) + Len(b)
           /\ \A i \in 1 .. Len(b) : (a \o b)[Len(a) + i] = b[i] /\ Len(a) + i \in 1 .. Len(a) + Len(b)
<1> DEFINE c == a \o b
           n == Len(a)
           m == Len(b)
<1>1. n \in Nat /\ m \in Nat
  OBVIOUS
<1>2. /\ c \in Seq(S) /\ Len(c) = n + m
      /\ \A i \in 1 .. n + m : c[i] = IF i <= n THEN a[i] ELSE b[i - n]
  BY ConcatProperties, Zenon
<1>3. DOMAIN c = 1 .. n + m
  <2> HIDE DEF c, n, m
  <2> QED
    BY <1>2
<1> HIDE DEF c, n, m
<1>4. \A i \in 1 .. n : i \in 1 .. n + m /\ i <= n
  BY <1>1
<1>5. \A i \in 1 .. m : n + i \in 1 .. n + m /\ ~(n + i <= n) /\ (n + i) - n = i
  BY <1>1
<1>6. \A i \in 1 .. n : c[i] = a[i]
  BY <1>2, <1>4, Zenon
<1>7. ASSUME NEW i \in 1 .. m PROVE c[n + i] = b[i]
  <2>1. c[n + i] = b[(n + i) - n]
    BY <1>2, <1>5, Zenon
  <2> QED
    BY <1>5, <2>1, Zenon
<1> QED
  BY <1>1, <1>2, <1>3, <1>4, <1>5, <1>6, <1>7, Zenon DEF c, n, m

(* A sequence is what it has in common with another of its length.         *)
LEMMA SplitSequence ==
    ASSUME NEW S, NEW a \in Seq(S), NEW b \in Seq(S)
    PROVE  /\ SubSeq(a \o b, 1, Len(a)) = a
           /\ SubSeq(a \o b, Len(a) + 1, Len(a \o b)) = b
<1> DEFINE c == a \o b
           n == Len(a)
           m == Len(b)
           p == SubSeq(c, 1, n)
           s == SubSeq(c, n + 1, n + m)
<1>1. /\ c \in Seq(S) /\ Len(c) = n + m /\ n \in Nat /\ m \in Nat
      /\ \A i \in 1 .. n : c[i] = a[i] /\ i \in 1 .. n + m
      /\ \A i \in 1 .. m : c[n + i] = b[i] /\ n + i \in 1 .. n + m
  BY Concatenated, Zenon
<1>2. (\A i \in 1 .. n : a[i] \in S) /\ (\A i \in 1 .. m : b[i] \in S)
  BY ElementOfSeq, Zenon
<1> HIDE DEF c, n, m
<1>3. 1 \in Int /\ n \in Int /\ n + 1 \in Int /\ n + m \in Int
  BY <1>1
<1>4. p \in Seq(S) /\ Len(p) = n /\ \A i \in 1 .. n : p[i] = c[i]
  <2>1. \A i \in 1 .. n : c[i] \in S
    BY <1>1, <1>2, Zenon
  <2>2. /\ p \in Seq(S) /\ Len(p) = IF 1 <= n THEN n - 1 + 1 ELSE 0
        /\ \A i \in 1 .. n - 1 + 1 : p[i] = c[1 + i - 1]
    BY <1>3, <2>1, SubSeqProperties
  <2>3. n - 1 + 1 = n /\ (IF 1 <= n THEN n - 1 + 1 ELSE 0) = n /\ \A i \in 1 .. n : 1 + i - 1 = i
    BY <1>1
  <2> HIDE DEF p
  <2> QED
    BY <2>2, <2>3, Zenon
<1>5. s \in Seq(S) /\ Len(s) = m /\ \A i \in 1 .. m : s[i] = c[n + i]
  <2>1. \A i \in n + 1 .. n + m : c[i] \in S
    <3> TAKE i \in n + 1 .. n + m
    <3>1. i - n \in 1 .. m /\ n + (i - n) = i
      BY <1>1
    <3> QED
      BY <1>1, <1>2, <3>1, Zenon
  <2> DEFINE g == n + 1
             h == n + m
             l == h - g + 1
  <2>2. g \in Int /\ h \in Int /\ \A i \in g .. h : c[i] \in S
    BY <1>3, <2>1
  <2>3. l = m /\ g <= h + 1 /\ (~(g <= h) => m = 0) /\ \A i \in 1 .. m : g + i - 1 = n + i
    BY <1>1
  <2>4. s = SubSeq(c, g, h)
    OBVIOUS
  <2> HIDE DEF g, h, s
  <2>5. /\ SubSeq(c, g, h) \in Seq(S) /\ Len(SubSeq(c, g, h)) = IF g <= h THEN h - g + 1 ELSE 0
        /\ \A i \in 1 .. h - g + 1 : SubSeq(c, g, h)[i] = c[g + i - 1]
    BY ONLY <2>2, SubSeqProperties
  <2> QED
    BY <2>3, <2>4, <2>5
<1>6. p = a
  <2>1. Len(p) = Len(a) /\ \A i \in 1 .. Len(p) : p[i] = a[i]
    BY <1>1, <1>4, Zenon DEF n
  <2> QED
    BY <1>4, <2>1, SeqEqual, Zenon
<1>7. s = b
  <2>1. Len(s) = Len(b) /\ \A i \in 1 .. Len(s) : s[i] = b[i]
    BY <1>1, <1>5, Zenon DEF m
  <2> QED
    BY <1>5, <2>1, SeqEqual, Zenon
<1> QED
  BY <1>1, <1>6, <1>7, Zenon DEF c, n, m

LEMMA ProductOfConcat ==
    ASSUME NEW a \in Seq(Nat \ {0}), NEW b \in Seq(Nat \ {0})
    PROVE  ProductOf(a \o b) = ProductOf(a) * ProductOf(b)
<1> DEFINE c == a \o b
           n == Len(a)
           m == Len(b)
<1>1. /\ c \in Seq(Nat \ {0}) /\ Len(c) = n + m /\ n \in Nat /\ m \in Nat
      /\ \A i \in 1 .. n : c[i] = a[i] /\ i \in 1 .. n + m
      /\ \A i \in 1 .. m : c[n + i] = b[i] /\ n + i \in 1 .. n + m
  BY Concatenated
<1>9. \A i \in 1 .. m : b[i] \in Nat \ {0}
  BY ElementOfSeq, Zenon
<1> HIDE DEF c
<1>2. PICK g \in [0 .. Len(c) -> Nat \ {0}] : RunningProducts(g, c)
  BY <1>1, RunningProductsExist
<1>3. PICK h \in [0 .. Len(b) -> Nat \ {0}] : RunningProducts(h, b)
  BY RunningProductsExist
<1>4. ProductOf(c) = g[n + m] /\ ProductOf(b) = h[m] /\ ProductOf(a) = g[n]
  <2>1. ProductOf(c) = g[n + m] /\ ProductOf(b) = h[m]
    BY <1>1, <1>2, <1>3, ProductOfAll
  <2>2. Len(a) <= Len(c) /\ \A i \in 1 .. Len(a) : a[i] = c[i]
    BY <1>1
  <2>3. ProductOf(a) = g[Len(a)]
    BY <1>1, <1>2, <2>2, ProductOfPrefix, ZenonT(60)
  <2> QED
    BY <2>1, <2>3
<1> HIDE DEF n, m
<1>10. /\ g \in [0 .. n + m -> Nat \ {0}] /\ h \in [0 .. m -> Nat \ {0}]
       /\ g[0] = 1 /\ \A k \in 1 .. n + m : g[k] = c[k] * g[k - 1]
       /\ h[0] = 1 /\ \A k \in 1 .. m : h[k] = b[k] * h[k - 1]
  BY <1>1, <1>2, <1>3 DEF RunningProducts, n, m
<1> DEFINE S == {j \in 0 .. m : g[n + j] = g[n] * h[j]}
<1>11. g[n] \in Nat \ {0}
  BY ONLY <1>1, <1>10
<1>5. 0 \in S
  <2>1. n + 0 = n /\ 0 \in 0 .. m
    BY <1>1
  <2>2. g[n] = g[n] * h[0]
    BY ONLY <1>10, <1>11
  <2> QED
    BY <2>1, <2>2
<1>6. ASSUME NEW j \in 0 .. m - 1, j \in S PROVE j + 1 \in S
  <2>1. /\ j \in Nat /\ j + 1 \in 1 .. m /\ n + (j + 1) \in 1 .. n + m
        /\ (n + (j + 1)) - 1 = n + j /\ (j + 1) - 1 = j /\ j \in 0 .. m /\ j + 1 \in 0 .. m
    BY <1>1
  <2>2. c[n + (j + 1)] = b[j + 1] /\ b[j + 1] \in Nat \ {0}
    BY <1>1, <1>9, <2>1, Zenon
  <2>3. g[n + (j + 1)] = b[j + 1] * g[n + j]
    BY <1>10, <2>1, <2>2, Zenon
  <2>4. h[j + 1] = b[j + 1] * h[j]
    BY <1>10, <2>1, Zenon
  <2>5. g[n + j] = g[n] * h[j]
    BY <1>6
  <2>8. g[n] \in Int /\ h[j] \in Int /\ b[j + 1] \in Int
    <3>1. h \in [0 .. m -> Nat \ {0}]
      BY <1>10, Zenon
    <3>2. h[j] \in Nat \ {0}
      BY <2>1, <3>1, Zenon
    <3> QED
      BY ONLY <1>11, <2>2, <3>2
  <2>9. b[j + 1] * (g[n] * h[j]) = g[n] * (b[j + 1] * h[j])
    BY ONLY <2>8, SMTT(60)
  <2>10. g[n + (j + 1)] = g[n] * h[j + 1]
    BY ONLY <2>3, <2>4, <2>5, <2>9
  <2> QED
    BY <2>1, <2>10
<1>7. \A j \in 0 .. m : j \in S
  <2> HIDE DEF S
  <2> QED
    BY <1>1, <1>5, <1>6, InductionUpTo
<1>8. g[n + m] = g[n] * h[m]
  <2>1. m \in 0 .. m
    BY <1>1
  <2> QED
    BY <1>7, <2>1
<1> QED
  BY <1>4, <1>8 DEF c

(* Moduli of a context, followed by distinct primes that are not among them.*)
PrimesApart(n, c, m) ==
    /\ \A i \in 1 .. n : m[i] \in Word /\ NewModulusOk(m[i]) /\ IsPrime(m[i])
    /\ \A i \in 1 .. c : m[n + i] \in Word /\ NewModulusOk(m[n + i]) /\ IsPrime(m[n + i])
    /\ \A i, j \in 1 .. n : i # j => m[i] # m[j]
    /\ \A i \in 1 .. c, j \in 1 .. n : m[n + i] # m[j]
    /\ \A i \in 1 .. c : \A j \in 1 .. i - 1 : m[n + i] # m[n + j]

LEMMA DistinctPrimes ==
    ASSUME NEW n \in Nat, NEW c \in Nat, NEW m, PrimesApart(n, c, m)
    PROVE  /\ \A i \in 1 .. n + c : m[i] \in Word /\ NewModulusOk(m[i]) /\ IsPrime(m[i])
           /\ \A i, j \in 1 .. n + c : i # j => m[i] # m[j]
<1> USE DEF PrimesApart
<1>1. \A i \in 1 .. n + c : i \in 1 .. n \/ \E j \in 1 .. c : i = n + j
  <2> TAKE i \in 1 .. n + c
  <2>1. i \in 1 .. n \/ (i - n \in 1 .. c /\ i = n + (i - n))
    OBVIOUS
  <2> QED
    BY <2>1
<1>2. ASSUME NEW i \in 1 .. n + c PROVE m[i] \in Word /\ NewModulusOk(m[i]) /\ IsPrime(m[i])
  BY <1>1, Zenon
<1>3. ASSUME NEW i \in 1 .. n + c, NEW j \in 1 .. n + c, i # j PROVE m[i] # m[j]
  <2>1. CASE i \in 1 .. n /\ j \in 1 .. n
    BY <1>3, <2>1, Zenon
  <2>2. CASE i \in 1 .. n /\ \E k \in 1 .. c : j = n + k
    BY <2>2, Zenon
  <2>3. CASE j \in 1 .. n /\ \E k \in 1 .. c : i = n + k
    BY <2>3, Zenon
  <2>4. ASSUME NEW k \in 1 .. c, i = n + k, NEW l \in 1 .. c, j = n + l PROVE m[i] # m[j]
    <3>1. k \in 1 .. l - 1 \/ l \in 1 .. k - 1
      BY <1>3, <2>4
    <3> QED
      BY <2>4, <3>1, Zenon
  <2> QED
    BY <1>1, <2>1, <2>2, <2>3, <2>4, Zenon
<1> QED
  BY <1>2, <1>3

(* The moduli for products: those of the level, and more of the largest    *)
(* size.                                                                   *)
ForProducts(m, q, x, M, n) ==
    /\ IsContext(m) /\ SubSeq(m, 1, Len(q)) = q /\ x = SubSeq(m, Len(q) + 1, Len(m))
    /\ x \in Seq(Nat \ {0}) /\ ProductOf(m) = ProductOf(q) * ProductOf(x)
    /\ \A i \in 1 .. Len(x) : x[i] \in Word /\ Bits(x[i]) = MaxBits
    /\ Len(x) \in 0 .. n + 1 /\ SumOf(SizesOf(M), n) \in Nat
    /\ Len(x) * MaxBits >= SumOf(SizesOf(M), n) + Headroom

LEMMA FirstPrimes ==
    ASSUME NEW e, NEW M, NEW degree, BasisFor(e, M, degree), SizeOk(MaxBits),
           NEW c \in 0 .. Len(M) + 1, Len(M) \in Nat
    PROVE  /\ SubSeq(e, 1, c) \in Seq(Word) /\ SubSeq(e, 1, c) \in Seq(Nat \ {0})
           /\ Len(SubSeq(e, 1, c)) = c
           /\ \A i \in 1 .. c : /\ SubSeq(e, 1, c)[i] \in Word
                                /\ NewModulusOk(SubSeq(e, 1, c)[i]) /\ IsPrime(SubSeq(e, 1, c)[i])
                                /\ Bits(SubSeq(e, 1, c)[i]) = MaxBits
                                /\ \A j \in 1 .. Len(M) : SubSeq(e, 1, c)[i] # M[j]
                                /\ \A j \in 1 .. i - 1 : SubSeq(e, 1, c)[i] # SubSeq(e, 1, c)[j]
<1> DEFINE y == SubSeq(e, 1, c)
<1>1. /\ e \in Seq(Word) /\ Len(e) = Len(M) + 1
      /\ \A i \in 1 .. Len(e) : /\ IsWanted(e[i], MaxBits, 2 * degree)
                                /\ \A j \in 1 .. Len(M) : e[i] # M[j]
                                /\ \A j \in 1 .. i - 1 : e[i] # e[j]
  BY DEF BasisFor
<1>2. c \in Nat /\ c \in Int /\ 1 \in Int /\ \A i \in 1 .. c : i \in 1 .. Len(e) /\ \A j \in 1 .. i - 1 : j \in 1 .. c
  BY <1>1
<1>3. \A i \in 1 .. c : e[i] \in Word /\ e[i] \in Nat \ {0} /\ NewModulusOk(e[i]) /\ IsPrime(e[i])
                        /\ Bits(e[i]) = MaxBits
  <2> TAKE i \in 1 .. c
  <2>1. IsWanted(e[i], MaxBits, 2 * degree)
    BY <1>1, <1>2, Zenon
  <2> QED
    BY <2>1, WantedModulus, Zenon DEF IsWanted
<1>4. y \in Seq(Word) /\ y \in Seq(Nat \ {0}) /\ Len(y) = c /\ \A i \in 1 .. c : y[i] = e[i]
  <2>1. /\ y \in Seq(Word) /\ Len(y) = IF 1 <= c THEN c - 1 + 1 ELSE 0
        /\ \A i \in 1 .. c - 1 + 1 : y[i] = e[1 + i - 1]
    BY <1>2, <1>3, SubSeqProperties
  <2>2. y \in Seq(Nat \ {0})
    BY <1>2, <1>3, SubSeqProperties, Zenon
  <2>3. c - 1 + 1 = c /\ (IF 1 <= c THEN c - 1 + 1 ELSE 0) = c /\ \A i \in 1 .. c : 1 + i - 1 = i
    BY <1>2
  <2> HIDE DEF y
  <2> QED
    BY <2>1, <2>2, <2>3, Zenon
<1> HIDE DEF y
<1>5. \A i \in 1 .. c : /\ y[i] \in Word /\ NewModulusOk(y[i]) /\ IsPrime(y[i]) /\ Bits(y[i]) = MaxBits
                        /\ \A j \in 1 .. Len(M) : y[i] # M[j]
                        /\ \A j \in 1 .. i - 1 : y[i] # y[j]
  <2> TAKE i \in 1 .. c
  <2>1. i \in 1 .. Len(e) /\ y[i] = e[i]
    BY <1>2, <1>4, Zenon
  <2>2. \A j \in 1 .. i - 1 : y[j] = e[j]
    BY <1>2, <1>4, Zenon
  <2> QED
    BY <1>1, <1>3, <2>1, <2>2, Zenon
<1> QED
  BY <1>4, <1>5, Zenon DEF y

LEMMA ProductModuli ==
    ASSUME NEW M \in Seq(Word), NEW degree \in Nat, degree >= 8, ContextOk(M, degree),
           NEW e, BasisFor(e, M, degree), SizeOk(MaxBits),
           NEW k \in 0 .. Len(M) - 1
    PROVE  \E x : ForProducts(MultiplicationModuli(M, k, e), FirstModuli(M, k), x, M, Len(M) - k)
<1> DEFINE n == Len(M) - k
           q == FirstModuli(M, k)
           size == SumOfSizes(SizesOf(M), n)
           c == ExtensionCount(size)
           y == SubSeq(e, 1, c)
           m == MultiplicationModuli(M, k, e)
<1>1. Len(M) \in Nat /\ DOMAIN M = 1 .. Len(M) /\ n \in 1 .. Len(M) /\ n \in 0 .. Len(M) /\ n \in Nat
  OBVIOUS
<1>2. /\ IsContext(q) /\ q \in Seq(Word) /\ Len(q) = n
      /\ \A i \in 1 .. Len(q) : q[i] = M[i] /\ NttModulus(q[i], degree)
  BY FirstModuliContext
<1>3. \A i \in 1 .. Len(M) : NewModulusOk(M[i])
  BY <1>1 DEF ContextOk, RnsContextOk
<1>4. size \in Nat /\ c \in 0 .. n + 1 /\ c * MaxBits >= size + Headroom
  <2>1. MaxBits # 0
    BY SizeBounds
  <2> HIDE DEF size, c, n
  <2>2. size = SumOfSizes(SizesOf(M), n) /\ c = ExtensionCount(size)
    BY DEF size, c
  <2> QED
    BY <1>1, <1>3, <2>1, <2>2, EnoughPrimes
<1>5. m = q \o y
  BY DEF MultiplicationModuli
<1>6. c \in 0 .. Len(M) + 1
  BY <1>1, <1>4
<1> HIDE DEF c, m, size, n, q
<1>7. /\ y \in Seq(Word) /\ y \in Seq(Nat \ {0}) /\ Len(y) = c
      /\ \A i \in 1 .. c : /\ y[i] \in Word /\ NewModulusOk(y[i]) /\ IsPrime(y[i])
                           /\ Bits(y[i]) = MaxBits
                           /\ \A j \in 1 .. Len(M) : y[i] # M[j]
                           /\ \A j \in 1 .. i - 1 : y[i] # y[j]
  BY <1>1, <1>6, FirstPrimes, ZenonT(60)
<1> HIDE DEF y
<1>8. /\ m \in Seq(Word) /\ Len(m) = n + c /\ DOMAIN m = 1 .. n + c /\ c \in Nat
      /\ \A i \in 1 .. n : m[i] = q[i]
      /\ \A i \in 1 .. c : m[n + i] = y[i]
      /\ SubSeq(m, 1, n) = q /\ SubSeq(m, n + 1, Len(m)) = y
  <2>1. q \in Seq(Word) /\ y \in Seq(Word) /\ Len(q) = n /\ Len(y) = c
    BY <1>2, <1>7
  <2>2. /\ q \o y \in Seq(Word) /\ Len(q \o y) = n + c /\ DOMAIN (q \o y) = 1 .. n + c /\ c \in Nat
        /\ \A i \in 1 .. n : (q \o y)[i] = q[i]
        /\ \A i \in 1 .. c : (q \o y)[n + i] = y[i]
    <3>1. /\ q \o y \in Seq(Word) /\ Len(q \o y) = Len(q) + Len(y)
          /\ DOMAIN (q \o y) = 1 .. Len(q) + Len(y) /\ Len(y) \in Nat
          /\ \A i \in 1 .. Len(q) : (q \o y)[i] = q[i] /\ i \in 1 .. Len(q) + Len(y)
          /\ \A i \in 1 .. Len(y) : (q \o y)[Len(q) + i] = y[i] /\ Len(q) + i \in 1 .. Len(q) + Len(y)
      BY <2>1, Concatenated, Zenon
    <3> QED
      BY ONLY <2>1, <3>1
  <2>3. SubSeq(q \o y, 1, n) = q /\ SubSeq(q \o y, n + 1, Len(q \o y)) = y
    <3>1. SubSeq(q \o y, 1, Len(q)) = q /\ SubSeq(q \o y, Len(q) + 1, Len(q \o y)) = y
      BY <2>1, SplitSequence, Zenon
    <3> QED
      BY ONLY <2>1, <3>1
  <2> QED
    BY ONLY <1>5, <2>2, <2>3
<1>9. /\ q # << >>
      /\ \A i, j \in 1 .. n : i # j => Coprime(q[i], q[j])
      /\ \A i \in 1 .. n : NewModulusOk(q[i]) /\ IsPrime(q[i]) /\ q[i] \in Word
  <2>1. \A i \in 1 .. n : NttModulus(q[i], degree)
    BY <1>2, Zenon
  <2>2. \A i \in 1 .. n : IsPrime(q[i])
    BY <2>1, Zenon DEF NttModulus
  <2>3. DOMAIN q = 1 .. n /\ \A i \in 1 .. n : q[i] \in Word
    BY <1>2, ElementOfSeq, ContextTypes, Zenon
  <2> QED
    BY <1>2, <2>2, <2>3, Zenon DEF IsContext, RnsContextOk
<1>10. \A i, j \in 1 .. n : i # j => q[i] # q[j]
  <2> SUFFICES ASSUME NEW i \in 1 .. n, NEW j \in 1 .. n, i # j, q[i] = q[j] PROVE FALSE
    OBVIOUS
  <2>1. Coprime(q[i], q[i]) /\ NewModulusOk(q[i])
    BY <1>9, Zenon
  <2>2. q[i] \in Nat
    BY <1>9, WordTypes DEF Word
  <2>3. q[i] % q[i] = 0 /\ q[i] \in 2 .. q[i]
    <3>1. q[i] = 1 * q[i] /\ q[i] \in Int /\ 1 \in Int /\ q[i] \in Nat \ {0} /\ q[i] >= 2
      BY <2>1, <2>2 DEF NewModulusOk
    <3> QED
      BY <3>1, MultipleRemainder
  <2> QED
    BY <2>1, <2>3 DEF Coprime
<1>11. /\ \A i \in 1 .. n + c : m[i] \in Word /\ NewModulusOk(m[i]) /\ IsPrime(m[i])
       /\ \A i, j \in 1 .. n + c : i # j => m[i] # m[j]
  <2>1. \A i \in 1 .. n : m[i] \in Word /\ NewModulusOk(m[i]) /\ IsPrime(m[i])
    BY <1>8, <1>9, Zenon
  <2>2. \A i \in 1 .. c : m[n + i] \in Word /\ NewModulusOk(m[n + i]) /\ IsPrime(m[n + i])
    BY <1>7, <1>8, Zenon
  <2>3. \A i, j \in 1 .. n : i # j => m[i] # m[j]
    BY <1>8, <1>10, ZenonT(60)
  <2>4. \A i \in 1 .. c, j \in 1 .. n : m[n + i] # m[j]
    <3> TAKE i \in 1 .. c, j \in 1 .. n
    <3>1. m[j] = M[j] /\ j \in 1 .. Len(M)
      <4>1. j \in 1 .. Len(M)
        BY <1>1
      <4> QED
        BY <1>2, <1>8, <4>1, Zenon
    <3> QED
      BY <1>7, <1>8, <3>1
  <2>5. \A i \in 1 .. c : \A j \in 1 .. i - 1 : m[n + i] # m[n + j]
    <3> TAKE i \in 1 .. c
    <3> TAKE j \in 1 .. i - 1
    <3>1. j \in 1 .. c
      BY <1>8
    <3> QED
      BY <1>7, <1>8, <3>1
  <2> QED
    <3>1. PrimesApart(n, c, m)
      BY ONLY <2>1, <2>2, <2>3, <2>4, <2>5 DEF PrimesApart
    <3>2. n \in Nat /\ c \in Nat
      BY <1>1, <1>8
    <3> QED
      BY ONLY <3>1, <3>2, DistinctPrimes
<1>12. IsContext(m)
  <2>1. \A i, j \in DOMAIN m : i # j => Coprime(m[i], m[j])
    BY <1>8, <1>11, PrimesCoprime
  <2>2. \A i \in DOMAIN m : NewModulusOk(m[i])
    BY <1>8, <1>11, Zenon
  <2>3. m # << >>
    <3>1. n + c # 0
      BY <1>1, <1>8
    <3> QED
      BY <1>8, <3>1
  <2>4. m \in Seq(Nat)
    <3>1. Word \subseteq Nat
      BY WordTypes DEF Word
    <3> QED
      BY <1>8, <3>1, SeqMonotonic, Zenon
  <2> QED
    BY <2>1, <2>2, <2>3, <2>4, Zenon DEF IsContext, RnsContextOk
<1>13. ProductOf(m) = ProductOf(q) * ProductOf(y)
  <2>1. q \in Seq(Nat \ {0})
    BY <1>2, ContextTypes, Zenon
  <2> QED
    BY <1>5, <1>7, <2>1, ProductOfConcat, Zenon
<1>14. SumOf(SizesOf(M), n) \in Nat /\ c * MaxBits >= SumOf(SizesOf(M), n) + Headroom
  BY <1>4 DEF SumOfSizes, size
<1>15. ForProducts(m, q, y, M, n)
  BY <1>2, <1>4, <1>7, <1>8, <1>12, <1>13, <1>14, Zenon DEF ForProducts
<1> QED
  BY <1>15, Zenon DEF m, q, n

LEMMA PowersOfTwo ==
    ASSUME NEW g, PowersOf(g, 2)
    PROVE  /\ \A i \in 0 .. W : Pow2[i] = g[i]
           /\ \A i \in Nat : g[i] \in Nat \ {0}
           /\ \A i, j \in Nat : i <= j => g[i] <= g[j]
<1>1. g \in [Nat -> Int] /\ g[0] = 1 /\ \A k \in Nat : g[k + 1] = 2 * g[k]
  BY DEF PowersOf
<1>2. W \in Nat
  BY WordsAssumption
<1>3. \A i \in 0 .. W : Pow2[i] = g[i]
  <2> DEFINE S == {i \in 0 .. W : Pow2[i] = g[i]}
  <2>1. 0 \in S
    BY <1>1, <1>2, PowersDouble
  <2>2. ASSUME NEW i \in 0 .. W - 1, i \in S PROVE i + 1 \in S
    <3>1. i \in Nat /\ i \in 0 .. 4 * W - 1 /\ i + 1 \in 0 .. W
      BY <1>2
    <3> QED
      BY <1>1, <2>2, <3>1, PowersDouble
  <2> HIDE DEF S
  <2>3. \A i \in 0 .. W : i \in S
    BY <1>2, <2>1, <2>2, InductionUpTo
  <2> QED
    BY <2>3 DEF S
<1>4. \A i \in Nat : g[i] \in Nat \ {0}
  <2> DEFINE S == {i \in Nat : g[i] \in Nat \ {0}}
  <2>1. 0 \in S
    BY <1>1
  <2>2. ASSUME NEW i \in Nat, i \in S PROVE i + 1 \in S
    <3>1. g[i] \in Nat \ {0} /\ g[i + 1] = 2 * g[i]
      BY <1>1, <2>2
    <3>2. g[i + 1] \in Nat \ {0}
      BY ONLY <3>1
    <3> QED
      BY <3>2
  <2> HIDE DEF S
  <2>3. Nat \subseteq S
    BY <2>1, <2>2, SetInduction
  <2> QED
    BY <2>3 DEF S
<1>5. ASSUME NEW i \in Nat PROVE \A j \in Nat : g[i] <= g[i + j]
  <2> DEFINE S == {j \in Nat : g[i] <= g[i + j]}
  <2>1. 0 \in S
    BY <1>4
  <2>2. ASSUME NEW j \in Nat, j \in S PROVE j + 1 \in S
    <3>1. i + (j + 1) = (i + j) + 1 /\ i + j \in Nat /\ i + (j + 1) \in Nat
      OBVIOUS
    <3>2. g[i + (j + 1)] = 2 * g[i + j]
      BY <1>1, <3>1
    <3>3. g[i] \in Nat /\ g[i + j] \in Nat
      BY <1>4, <3>1
    <3> QED
      BY <2>2, <3>2, <3>3
  <2> HIDE DEF S
  <2>3. Nat \subseteq S
    BY <2>1, <2>2, SetInduction
  <2> QED
    BY <2>3 DEF S
<1>6. \A i, j \in Nat : i <= j => g[i] <= g[j]
  <2> TAKE i, j \in Nat
  <2> HAVE i <= j
  <2>1. j - i \in Nat /\ i + (j - i) = j
    OBVIOUS
  <2> QED
    BY <1>5, <2>1
<1> QED
  BY <1>3, <1>4, <1>6

LEMMA TimesMonotone ==
    ASSUME NEW a \in Nat, NEW b \in Nat, NEW c \in Nat, NEW d \in Nat, a <= c, b <= d
    PROVE  a * b <= c * d
<1>1. a * b <= c * b
  <2>1. (c - a) * b >= 0 /\ (c - a) * b = c * b - a * b
    OBVIOUS
  <2> QED
    BY <2>1
<1>2. c * b <= c * d
  <2>1. c * (d - b) >= 0 /\ c * (d - b) = c * d - c * b
    OBVIOUS
  <2> QED
    BY <2>1
<1> QED
  BY <1>1, <1>2

(* A product is no larger than its factors' bits together say.             *)
LEMMA ProductBelow ==
    ASSUME NEW g, PowersOf(g, 2), NEW M \in Seq(Word), NEW n \in 0 .. Len(M),
           NEW q \in Seq(Nat \ {0}), Len(q) = n, \A i \in 1 .. n : q[i] = M[i],
           NEW f, f = SizesOf(M)
    PROVE  SumOf(f, n) \in Nat /\ ProductOf(q) <= g[SumOf(f, n)]
<1>1. Len(M) \in Nat /\ DOMAIN M = 1 .. Len(M) /\ n \in Nat /\ W \in Nat
  BY WordsAssumption
<1>2. \A i \in 1 .. n : f[i] = Bits(M[i]) /\ q[i] = M[i] /\ M[i] \in Word /\ q[i] \in Nat
  <2> TAKE i \in 1 .. n
  <2>1. i \in DOMAIN M /\ i \in 1 .. Len(M) /\ i \in 1 .. Len(q)
    BY <1>1
  <2>2. f[i] = Bits(M[i])
    BY <2>1, Zenon DEF SizesOf
  <2>3. M[i] \in Word /\ q[i] \in Nat \ {0}
    BY <2>1, ElementOfSeq, Zenon
  <2> QED
    BY <2>2, <2>3
<1>3. \A i \in 1 .. n : f[i] \in Nat /\ f[i] \in Int /\ q[i] <= g[f[i]] /\ g[f[i]] \in Nat
  <2> TAKE i \in 1 .. n
  <2>1. f[i] \in 0 .. W /\ q[i] < Pow2[f[i]]
    BY <1>2, BitsTypes
  <2>2. Pow2[f[i]] = g[f[i]] /\ f[i] \in Nat
    BY <1>1, <2>1, PowersOfTwo
  <2>3. g[f[i]] \in Nat
    BY <2>2, PowersOfTwo
  <2> QED
    BY <1>2, <2>1, <2>2, <2>3
<1>4. PICK h \in [0 .. Len(q) -> Nat \ {0}] : RunningProducts(h, q)
  BY RunningProductsExist
<1>5. /\ h \in [0 .. n -> Nat \ {0}] /\ h[0] = 1 /\ \A k \in 1 .. n : h[k] = q[k] * h[k - 1]
      /\ ProductOf(q) = h[n]
  BY <1>4, ProductOfAll DEF RunningProducts
<1> DEFINE S == {j \in 0 .. n : SumOf(f, j) \in Nat /\ h[j] <= g[SumOf(f, j)]}
<1>6. 0 \in S
  <2>1. g[0] = 1
    BY DEF PowersOf
  <2> QED
    BY <1>1, <1>5, <2>1, SumOfNothing
<1>7. ASSUME NEW j \in 0 .. n - 1, j \in S PROVE j + 1 \in S
  <2> DEFINE s == SumOf(f, j)
             a == f[j + 1]
  <2>1. /\ j \in Nat /\ j + 1 \in 1 .. n /\ (j + 1) - 1 = j /\ j \in 0 .. n /\ j + 1 \in 0 .. n
        /\ \A i \in 1 .. j + 1 : i \in 1 .. n
    BY <1>1
  <2>2. s \in Nat /\ h[j] <= g[s]
    BY <1>7
  <2>3. SumOf(f, j + 1) = s + a
    <3>1. \A i \in 1 .. j + 1 : f[i] \in Int
      BY <1>3, <2>1
    <3> QED
      BY <2>1, <3>1, SumOfNext
  <2>4. a \in Nat /\ q[j + 1] <= g[a] /\ g[a] \in Nat /\ q[j + 1] \in Nat
    BY <1>2, <1>3, <2>1
  <2> HIDE DEF s, a
  <2>5. g[s] \in Nat /\ g[s + a] = g[s] * g[a]
    <3>1. 2 \in Int /\ s \in Nat /\ a \in Nat
      BY <2>2, <2>4
    <3>2. g[s + a] = g[s] * g[a]
      BY <3>1, PowersAdd, Zenon
    <3> QED
      BY <3>1, <3>2, PowersOfTwo
  <2>6. h[j] \in Nat /\ h[j + 1] = q[j + 1] * h[j]
    BY <1>5, <2>1
  <2>7. q[j + 1] * h[j] <= g[a] * g[s]
    BY <2>2, <2>4, <2>5, <2>6, TimesMonotone
  <2>8. g[a] * g[s] = g[s] * g[a]
    BY <2>4, <2>5, SMTT(60)
  <2>9. h[j + 1] <= g[s + a]
    BY <2>5, <2>6, <2>7, <2>8
  <2>10. s + a \in Nat
    BY <2>2, <2>4
  <2> QED
    BY <2>1, <2>3, <2>9, <2>10
<1> HIDE DEF S
<1>8. \A j \in 0 .. n : j \in S
  BY <1>1, <1>6, <1>7, InductionUpTo
<1> QED
  BY <1>1, <1>5, <1>8 DEF S

(* A product of numbers of a number of bits is no smaller than they say.   *)
LEMMA ProductAbove ==
    ASSUME NEW g, PowersOf(g, 2), NEW b \in Nat \ {0},
           NEW x \in Seq(Nat \ {0}), \A i \in 1 .. Len(x) : x[i] \in Word /\ Bits(x[i]) = b
    PROVE  Len(x) * (b - 1) \in Nat /\ g[Len(x) * (b - 1)] <= ProductOf(x)
<1> DEFINE n == Len(x)
           c == b - 1
<1>1. n \in Nat /\ c \in Nat /\ W \in Nat
  BY WordsAssumption
<1>2. \A i \in 1 .. n : x[i] \in Nat /\ g[c] <= x[i] /\ g[c] \in Nat
  <2> TAKE i \in 1 .. n
  <2>1. Bits(x[i]) \in 0 .. W /\ Pow2[Bits(x[i]) - 1] <= x[i] /\ x[i] \in Nat
    <3>1. x[i] \in Nat \ {0}
      BY ElementOfSeq, Zenon
    <3> QED
      BY <3>1, BitsTypes
  <2>2. c \in 0 .. W /\ Bits(x[i]) - 1 = c
    BY <1>1, <2>1
  <2>3. Pow2[c] = g[c] /\ g[c] \in Nat
    BY <1>1, <2>2, PowersOfTwo
  <2> QED
    BY <2>1, <2>2, <2>3
<1>4. PICK h \in [0 .. Len(x) -> Nat \ {0}] : RunningProducts(h, x)
  BY RunningProductsExist
<1>5. /\ h \in [0 .. n -> Nat \ {0}] /\ h[0] = 1 /\ \A k \in 1 .. n : h[k] = x[k] * h[k - 1]
      /\ ProductOf(x) = h[n]
  BY <1>4, ProductOfAll DEF RunningProducts
<1> HIDE DEF n, c
<1> DEFINE S == {j \in 0 .. n : g[j * c] <= h[j]}
<1>6. 0 \in S
  <2>1. g[0] = 1 /\ 0 * c = 0
    BY <1>1 DEF PowersOf
  <2> QED
    BY <1>1, <1>5, <2>1
<1>7. ASSUME NEW j \in 0 .. n - 1, j \in S PROVE j + 1 \in S
  <2> DEFINE s == j * c
  <2>1. j \in Nat /\ j + 1 \in 1 .. n /\ (j + 1) - 1 = j /\ j \in 0 .. n /\ j + 1 \in 0 .. n
    BY <1>1
  <2>2. g[s] <= h[j] /\ s \in Nat /\ (j + 1) * c = s + c
    BY <1>1, <1>7, <2>1
  <2> HIDE DEF s
  <2>4. g[c] <= x[j + 1] /\ g[c] \in Nat /\ x[j + 1] \in Nat
    BY <1>2, <2>1
  <2>5. g[s] \in Nat /\ g[s + c] = g[s] * g[c]
    <3>1. 2 \in Int /\ s \in Nat /\ c \in Nat
      BY <1>1, <2>2
    <3>2. g[s + c] = g[s] * g[c]
      BY <3>1, PowersAdd, Zenon
    <3> QED
      BY <3>1, <3>2, PowersOfTwo
  <2>6. h[j] \in Nat /\ h[j + 1] = x[j + 1] * h[j]
    BY <1>5, <2>1
  <2>7. g[c] * g[s] <= x[j + 1] * h[j]
    BY <2>2, <2>4, <2>5, <2>6, TimesMonotone
  <2>8. g[c] * g[s] = g[s] * g[c]
    BY <2>4, <2>5
  <2>9. g[s + c] <= h[j + 1]
    BY <2>5, <2>6, <2>7, <2>8
  <2> QED
    BY <2>1, <2>2, <2>9
<1> HIDE DEF S
<1>8. \A j \in 0 .. n : j \in S
  BY <1>1, <1>6, <1>7, InductionUpTo
<1>9. g[n * c] <= ProductOf(x)
  BY <1>1, <1>5, <1>8 DEF S
<1> QED
  BY <1>1, <1>9 DEF n, c

(* "we want to extend to a context that is ~60 bits larger": what is added *)
(* is larger by a factor of two at least, for as many moduli.              *)
LEMMA RoomForProducts ==
    ASSUME NEW M \in Seq(Word), NEW n \in 0 .. Len(M), n + 3 <= Headroom,
           NEW q \in Seq(Nat \ {0}), Len(q) = n, \A i \in 1 .. n : q[i] = M[i],
           NEW m, NEW x, ForProducts(m, q, x, M, n), MaxBits # 0
    PROVE  2 * ProductOf(q) < ProductOf(x)
<1> DEFINE f == SizesOf(M)
           s == SumOf(f, n)
           c == Len(x)
           a == c * MaxBits
           d == c * (MaxBits - 1)
<1>1. PICK g : PowersOf(g, 2)
  BY PowersExist
<1>2. MaxBits \in Nat \ {0} /\ Headroom \in Nat /\ n \in Nat
  BY ParametersAssumption
<1>3. /\ x \in Seq(Nat \ {0}) /\ \A i \in 1 .. Len(x) : x[i] \in Word /\ Bits(x[i]) = MaxBits
      /\ c \in 0 .. n + 1 /\ a >= s + Headroom
  BY DEF ForProducts
<1>4. s \in Nat /\ ProductOf(q) <= g[s]
  BY <1>1, ProductBelow
<1>5. d \in Nat /\ g[d] <= ProductOf(x)
  BY <1>1, <1>2, <1>3, ProductAbove
<1>6. d = a - c /\ a \in Int
  BY <1>2, <1>3
<1> HIDE DEF a, c, d, s
<1>7. s + 2 <= d
  BY <1>2, <1>3, <1>4, <1>6
<1>8. g[s + 2] <= g[d] /\ g[s] \in Nat \ {0} /\ g[s + 2] = 4 * g[s] /\ g[d] \in Nat
  <2>1. s + 1 \in Nat /\ s + 2 \in Nat /\ s + 2 = (s + 1) + 1
    BY <1>4
  <2>2. g[s + 2] = 2 * g[s + 1] /\ g[s + 1] = 2 * g[s]
    BY <1>1, <1>4, <2>1 DEF PowersOf
  <2>3. g[s + 2] <= g[d] /\ g[s] \in Nat \ {0} /\ g[d] \in Nat
    BY <1>1, <1>4, <1>5, <1>7, <2>1, PowersOfTwo
  <2> QED
    BY <2>2, <2>3
<1>9. ProductOf(q) \in Nat /\ ProductOf(x) \in Nat
  BY <1>3, ProductOfPositive
<1> QED
  BY <1>4, <1>5, <1>8, <1>9, SMTT(60)

FewModuli == par # NoParameters => Len(par.moduli) + 3 <= Headroom

LEMMA LevelForProducts ==
    ASSUME IsBuilt, NEW k \in Levels
    PROVE  /\ SizeOk(MaxBits)
           /\ \E x : ForProducts(par.mul[k], ModuliAt(k), x, par.moduli, Len(par.moduli) - k)
<1>1. PICK b : Accepted(b) /\ par = Built(b)
  BY DEF IsBuilt
<1> DEFINE M == ModuliOf(b)
           e == ExtendedBasis(M, b.degree)
<1>2. /\ M \in Seq(Word) /\ Len(M) \in Nat \ {0} /\ DOMAIN M = 1 .. Len(M)
      /\ ContextOk(M, b.degree) /\ BasisOk(M, b.degree)
      /\ b.degree \in Nat /\ b.degree >= 8
  BY <1>1, AcceptedFacts
<1>3. /\ par.moduli = M
      /\ par.mul = [j \in 0 .. Len(M) - 1 |-> MultiplicationModuli(M, j, e)]
  BY <1>1 DEF Built
<1> HIDE DEF M
<1>4. k \in 0 .. Len(M) - 1
  BY <1>3 DEF Levels
<1>5. BasisFor(e, M, b.degree) /\ SizeOk(MaxBits)
  BY <1>2, ExtendedBasisIs
<1>6. par.mul[k] = MultiplicationModuli(M, k, e)
  BY <1>3, <1>4
<1> HIDE DEF e
<1>7. \E x : ForProducts(MultiplicationModuli(M, k, e), FirstModuli(M, k), x, M, Len(M) - k)
  BY <1>2, <1>4, <1>5, ProductModuli
<1> QED
  BY <1>3, <1>5, <1>6, <1>7 DEF ModuliAt

LEMMA RoomAtLevel ==
    ASSUME IsBuilt, Len(par.moduli) + 3 <= Headroom, NEW k \in Levels, NEW x,
           ForProducts(par.mul[k], ModuliAt(k), x, par.moduli, Len(par.moduli) - k)
    PROVE  2 * Q(k) < ProductOf(x)
<1> DEFINE M == par.moduli
           q == ModuliAt(k)
           n == Len(M) - k
<1>1. M \in Seq(Word) /\ Len(M) \in Nat \ {0} /\ Headroom \in Nat
  BY BuiltTypes, ParametersAssumption
<1>2. IsContext(q) /\ Len(q) = n /\ k \in Nat /\ \A i \in 1 .. Len(q) : q[i] = M[i]
  BY LevelFacts
<1>3. q \in Seq(Nat \ {0})
  BY <1>2, ContextTypes
<1>4. n \in 0 .. Len(M) /\ n + 3 <= Headroom
  BY <1>1, <1>2 DEF Levels
<1>5. MaxBits # 0
  BY LevelForProducts, SizeBounds
<1> HIDE DEF n, q, M
<1>6. ForProducts(par.mul[k], q, x, M, n)
  BY DEF n, q, M
<1>7. 2 * ProductOf(q) < ProductOf(x)
  BY <1>1, <1>2, <1>3, <1>4, <1>5, <1>6, RoomForProducts
<1> QED
  BY <1>7 DEF q, Q

LEMMA LevelsAreComplete == ASSUME ParametersInv, FewModuli PROVE LevelsComplete
<1> SUFFICES ASSUME par # NoParameters, NEW k \in DOMAIN par.level, NEW q, q = FirstModuli(par.moduli, k)
             PROVE  /\ (par.level[k].delta * par.t + 1) % ProductOf(q) = 0
                    /\ RnsContextOk(par.mul[k]) /\ SubSeq(par.mul[k], 1, Len(q)) = q
                    /\ 2 * ProductOf(q) < ProductOf(SubSeq(par.mul[k], Len(q) + 1, Len(par.mul[k])))
  BY DEF LevelsComplete
<1>1. IsBuilt /\ Len(par.moduli) + 3 <= Headroom
  BY DEF ParametersInv, FewModuli, IsBuilt
<1>2. k \in Levels /\ q = ModuliAt(k) /\ ProductOf(q) = Q(k)
  BY <1>1, BuiltTypes DEF ModuliAt, Q
<1>3. Q(k) \in Nat \ {0} /\ par.level[k].delta \in Nat /\ Same(par.level[k].delta * par.t, -1, Q(k))
  BY <1>1, <1>2, LevelFacts
<1>4. (par.level[k].delta * par.t + 1) % ProductOf(q) = 0
  <2> DEFINE d == par.level[k].delta * par.t
             p == Q(k)
  <2> HIDE DEF d, p
  <2>1. p \in Nat \ {0} /\ Same(d, -1, p)
    BY <1>3 DEF d, p
  <2>2. PICK j \in Int : d = -1 + j * p
    BY <2>1 DEF Same
  <2>3. d + 1 = j * p /\ d + 1 \in Int
    BY <2>1, <2>2
  <2>4. (d + 1) % p = 0
    BY <2>1, <2>3, MultipleRemainder
  <2> QED
    BY <1>2, <2>4 DEF d, p
<1>5. PICK x : ForProducts(par.mul[k], ModuliAt(k), x, par.moduli, Len(par.moduli) - k)
  BY <1>1, <1>2, LevelForProducts
<1>6. 2 * Q(k) < ProductOf(x)
  BY <1>1, <1>2, <1>5, RoomAtLevel
<1> QED
  BY <1>2, <1>4, <1>5, <1>6 DEF ForProducts, IsContext

(* Everything precomputed for a level is what it should be, for parameters *)
(* of at most as many moduli as there is room for: with 60 bits reserved,  *)
(* 57 (build, "For the first multiplication").                             *)
THEOREM LevelsAreSound == Spec /\ []FewModuli => []LevelsComplete
<1>1. ParametersInv /\ FewModuli => LevelsComplete
  BY LevelsAreComplete
<1> QED
  BY <1>1, ParametersHold, PTL

-----------------------------------------------------------------------------
(* Powers of the key, and ciphertexts evaluated at it *)

LEMMA PoweredIs ==
    ASSUME NEW x \in Int, NEW g, PowersOf(g, x), NEW n \in Nat
    PROVE  Powered(x, n) = g[n]
<1> DEFINE E(h) == h = [k \in 0 .. n |-> IF k = 0 THEN 1 ELSE h[k - 1] * x]
           w == CHOOSE h : E(h)
           h0 == [k \in 0 .. n |-> g[k]]
<1>1. Powered(x, n) = w[n]
  BY DEF Powered
<1>2. g \in [Nat -> Int] /\ g[0] = 1 /\ \A k \in Nat : g[k + 1] = x * g[k]
  BY DEF PowersOf
<1>3. E(h0)
  <2>1. ASSUME NEW k \in 0 .. n PROVE h0[k] = IF k = 0 THEN 1 ELSE h0[k - 1] * x
    <3>1. CASE k = 0
      BY <1>2, <3>1
    <3>2. CASE k # 0
      <4>1. k - 1 \in 0 .. n /\ k - 1 \in Nat /\ (k - 1) + 1 = k
        BY <3>2
      <4>2. g[k] = x * g[k - 1] /\ g[k - 1] \in Int
        BY <1>2, <4>1
      <4>3. x * g[k - 1] = g[k - 1] * x
        BY <4>2
      <4> QED
        BY <3>2, <4>1, <4>2, <4>3
    <3> QED
      BY <3>1, <3>2
  <2> HIDE DEF h0
  <2>2. h0 = [k \in 0 .. n |-> h0[k]]
    BY DEF h0
  <2> QED
    BY <2>1, <2>2
<1>4. h0[n] = g[n]
  OBVIOUS
<1> HIDE DEF h0
<1>5. E(w)
  BY <1>3
<1> HIDE DEF w
<1> DEFINE S == {k \in 0 .. n : w[k] = h0[k]}
<1>6. \A k \in 0 .. n : /\ w[k] = IF k = 0 THEN 1 ELSE w[k - 1] * x
                        /\ h0[k] = IF k = 0 THEN 1 ELSE h0[k - 1] * x
  BY <1>3, <1>5
<1>7. 0 \in S
  BY <1>6
<1>8. ASSUME NEW k \in 0 .. n - 1, k \in S PROVE k + 1 \in S
  <2>1. k + 1 \in 0 .. n /\ k + 1 # 0 /\ (k + 1) - 1 = k
    OBVIOUS
  <2> QED
    BY <1>6, <1>8, <2>1
<1> HIDE DEF S
<1>9. \A k \in 0 .. n : k \in S
  BY <1>7, <1>8, InductionUpTo
<1>10. w[n] = h0[n]
  BY <1>9 DEF S
<1> QED
  BY <1>1, <1>4, <1>10

LEMMA PoweredNext ==
    ASSUME NEW x \in Int
    PROVE  /\ Powered(x, 0) = 1
           /\ \A n \in Nat : Powered(x, n) \in Int /\ Powered(x, n + 1) = x * Powered(x, n)
<1>1. PICK g : PowersOf(g, x)
  BY PowersExist
<1>2. \A n \in Nat : Powered(x, n) = g[n]
  BY <1>1, PoweredIs
<1> QED
  BY <1>1, <1>2 DEF PowersOf

(* The size of a power is the power of the size.                           *)
LEMMA PoweredAbs ==
    ASSUME NEW x \in Int, NEW n \in Nat
    PROVE  Powered(Abs(x), n) \in Nat /\ Abs(Powered(x, n)) = Powered(Abs(x), n)
<1>1. Abs(x) \in Nat /\ Abs(x) \in Int
  BY AbsTypes
<1> DEFINE S == {k \in Nat : Powered(Abs(x), k) \in Nat /\ Abs(Powered(x, k)) = Powered(Abs(x), k)}
<1>2. 0 \in S
  <2>1. Powered(x, 0) = 1
    BY PoweredNext
  <2>2. Powered(Abs(x), 0) = 1
    BY <1>1, PoweredNext
  <2>3. Abs(1) = 1 /\ 1 \in Nat
    BY DEF Abs
  <2> QED
    BY <2>1, <2>2, <2>3
<1>3. ASSUME NEW k \in Nat, k \in S PROVE k + 1 \in S
  <2> DEFINE a == Abs(x)
             p == Powered(x, k)
             r == Powered(a, k)
  <2>1. p \in Int /\ Powered(x, k + 1) = x * p /\ Powered(a, k + 1) = a * r
    BY <1>1, PoweredNext
  <2>2. r \in Nat /\ Abs(p) = r
    BY <1>3
  <2>3. a \in Nat /\ (a = x \/ a = -x) /\ (r = p \/ r = -p)
    BY <1>1, <2>1, <2>2, AbsTypes
  <2>4. a = Abs(x)
    OBVIOUS
  <2> HIDE DEF a, p, r
  <2>5. a * r \in Nat /\ (a * r = x * p \/ a * r = -(x * p)) /\ x * p \in Int
    BY ONLY x \in Int, <2>1, <2>2, <2>3
  <2>6. Abs(x * p) = a * r
    <3> DEFINE y == x * p
               z == a * r
    <3>1. z \in Nat /\ (z = y \/ z = -y) /\ y \in Int
      BY <2>5
    <3> HIDE DEF y, z
    <3>2. Abs(y) = z
      BY <3>1 DEF Abs
    <3> QED
      BY <3>2 DEF y, z
  <2> QED
    BY <2>1, <2>4, <2>5, <2>6 DEF S
<1> HIDE DEF S
<1>4. Nat \subseteq S
  BY <1>2, <1>3, SetInduction
<1> QED
  BY <1>4 DEF S

(* Numbers c[1], ..., c[n] as a polynomial in s. *)
EvalTerm(c, n, s) == [i \in 1 .. n |-> c[i] * Powered(s, i - 1)]

Eval(c, n, s) == SumOf(EvalTerm(c, n, s), n)

Ints(c, n) == \A i \in 1 .. n : c[i] \in Int

LEMMA EvalTermIs ==
    ASSUME NEW s \in Int, NEW n \in Nat, NEW c, Ints(c, n)
    PROVE  \A i \in 1 .. n : /\ c[i] \in Int /\ Powered(s, i - 1) \in Int
                             /\ EvalTerm(c, n, s)[i] = c[i] * Powered(s, i - 1)
                             /\ EvalTerm(c, n, s)[i] \in Int
<1> TAKE i \in 1 .. n
<1>1. i - 1 \in Nat
  OBVIOUS
<1>2. c[i] \in Int /\ Powered(s, i - 1) \in Int
  BY <1>1, PoweredNext DEF Ints
<1>3. EvalTerm(c, n, s)[i] = c[i] * Powered(s, i - 1)
  BY DEF EvalTerm
<1>4. c[i] * Powered(s, i - 1) \in Int
  BY <1>2
<1> QED
  BY <1>2, <1>3, <1>4

LEMMA EvalSum ==
    ASSUME NEW s \in Int, NEW n \in Nat, NEW c, Ints(c, n), NEW f, f = EvalTerm(c, n, s)
    PROVE  /\ Terms(f, 1 .. n) /\ Eval(c, n, s) = SumFunctionOnSet(f, 1 .. n)
           /\ Eval(c, n, s) \in Int
<1>1. \A k \in 1 .. n : f[k] \in Int
  BY EvalTermIs, Zenon
<1>2. Terms(f, 1 .. n) /\ SumOf(f, n) = SumFunctionOnSet(f, 1 .. n)
  BY <1>1, SumOfIsSum
<1>3. SumOf(f, n) \in Int
  BY <1>1, SumOfInt
<1> QED
  BY <1>2, <1>3 DEF Eval

LEMMA EvalCongruent ==
    ASSUME NEW s \in Int, NEW n \in Nat, NEW c, NEW d, Ints(c, n), Ints(d, n), NEW q \in Int,
           \A i \in 1 .. n : Same(c[i], d[i], q)
    PROVE  Same(Eval(c, n, s), Eval(d, n, s), q)
<1> DEFINE f == EvalTerm(c, n, s)
           g == EvalTerm(d, n, s)
<1>1. \A i \in 1 .. n : Same(f[i], g[i], q)
  <2> TAKE i \in 1 .. n
  <2> DEFINE p == Powered(s, i - 1)
  <2>1. p \in Int /\ f[i] = c[i] * p /\ g[i] = d[i] * p /\ c[i] \in Int /\ d[i] \in Int
    BY EvalTermIs
  <2> HIDE DEF p, f, g
  <2>2. Same(p * c[i], p * d[i], q)
    BY <2>1, SameScaled
  <2>3. p * c[i] = c[i] * p /\ p * d[i] = d[i] * p
    BY ONLY <2>1
  <2> QED
    BY <2>1, <2>2, <2>3
<1> HIDE DEF f, g
<1>2. Terms(f, 1 .. n) /\ Terms(g, 1 .. n)
      /\ Eval(c, n, s) = SumFunctionOnSet(f, 1 .. n) /\ Eval(d, n, s) = SumFunctionOnSet(g, 1 .. n)
  BY EvalSum DEF f, g
<1>3. Same(SumFunctionOnSet(f, 1 .. n), SumFunctionOnSet(g, 1 .. n), q)
  BY <1>1, <1>2, SumCongruent
<1> QED
  BY <1>2, <1>3

LEMMA EvalPlus ==
    ASSUME NEW s \in Int, NEW n \in Nat, NEW c, NEW d, NEW h, Ints(c, n), Ints(d, n),
           \A i \in 1 .. n : h[i] = c[i] + d[i]
    PROVE  Eval(h, n, s) = Eval(c, n, s) + Eval(d, n, s)
<1> DEFINE f == EvalTerm(c, n, s)
           g == EvalTerm(d, n, s)
           k == EvalTerm(h, n, s)
<1>1. Ints(h, n)
  BY DEF Ints
<1>2. \A i \in 1 .. n : k[i] = f[i] + g[i]
  <2> TAKE i \in 1 .. n
  <2> DEFINE p == Powered(s, i - 1)
  <2>1. p \in Int /\ f[i] = c[i] * p /\ g[i] = d[i] * p /\ c[i] \in Int /\ d[i] \in Int
        /\ k[i] = h[i] * p /\ h[i] = c[i] + d[i]
    BY <1>1, EvalTermIs, Zenon
  <2> HIDE DEF p, f, g, k
  <2>2. (c[i] + d[i]) * p = c[i] * p + d[i] * p
    BY ONLY <2>1
  <2> QED
    BY <2>1, <2>2, Zenon
<1> HIDE DEF f, g, k
<1>3. /\ Terms(f, 1 .. n) /\ Terms(g, 1 .. n)
      /\ Eval(c, n, s) = SumFunctionOnSet(f, 1 .. n) /\ Eval(d, n, s) = SumFunctionOnSet(g, 1 .. n)
      /\ Eval(h, n, s) = SumFunctionOnSet(k, 1 .. n)
  BY <1>1, EvalSum DEF f, g, k
<1>4. SumFunctionOnSet(k, 1 .. n) = SumFunctionOnSet(f, 1 .. n) + SumFunctionOnSet(g, 1 .. n)
  BY <1>2, <1>3, SumPlus
<1> QED
  BY <1>3, <1>4

LEMMA EvalScaled ==
    ASSUME NEW s \in Int, NEW n \in Nat, NEW c, NEW h, Ints(c, n), NEW a \in Int,
           \A i \in 1 .. n : h[i] = a * c[i]
    PROVE  Eval(h, n, s) = a * Eval(c, n, s)
<1> DEFINE f == EvalTerm(c, n, s)
           k == EvalTerm(h, n, s)
<1>1. Ints(h, n)
  BY DEF Ints
<1>2. \A i \in 1 .. n : k[i] = a * f[i]
  <2> TAKE i \in 1 .. n
  <2> DEFINE p == Powered(s, i - 1)
  <2>1. p \in Int /\ f[i] = c[i] * p /\ c[i] \in Int /\ k[i] = h[i] * p /\ h[i] = a * c[i]
    BY <1>1, EvalTermIs, ZenonT(60)
  <2> HIDE DEF p, f, k
  <2>2. (a * c[i]) * p = a * (c[i] * p)
    BY ONLY <2>1, a \in Int
  <2> QED
    BY <2>1, <2>2, Zenon
<1> HIDE DEF f, k
<1>3. /\ Terms(f, 1 .. n) /\ Eval(c, n, s) = SumFunctionOnSet(f, 1 .. n)
      /\ Eval(h, n, s) = SumFunctionOnSet(k, 1 .. n)
  BY <1>1, EvalSum DEF f, k
<1>4. SumFunctionOnSet(k, 1 .. n) = a * SumFunctionOnSet(f, 1 .. n)
  BY <1>2, <1>3, SumScaled
<1> QED
  BY <1>3, <1>4

LEMMA EvalNext ==
    ASSUME NEW s \in Int, NEW n \in Nat, NEW c, Ints(c, n + 1)
    PROVE  /\ Eval(c, 0, s) = 0 /\ Eval(c, n, s) \in Int
           /\ Eval(c, n + 1, s) = Eval(c, n, s) + c[n + 1] * Powered(s, n)
<1> DEFINE f == EvalTerm(c, n, s)
           k == EvalTerm(c, n + 1, s)
<1>1. Ints(c, n) /\ n + 1 \in Nat /\ (n + 1) - 1 = n /\ n + 1 \in 1 .. n + 1
      /\ \A i \in 1 .. n : i \in 1 .. n + 1
  BY DEF Ints
<1>2. \A i \in 1 .. n + 1 : k[i] = c[i] * Powered(s, i - 1) /\ k[i] \in Int
  BY <1>1, EvalTermIs, Zenon
<1>3. \A i \in 1 .. n : f[i] = c[i] * Powered(s, i - 1) /\ f[i] \in Int
  BY <1>1, EvalTermIs, ZenonT(60)
<1>4. Eval(c, 0, s) = 0
  BY SumOfNothing DEF Eval
<1>5. Eval(c, n + 1, s) = SumOf(k, n + 1) /\ Eval(c, n, s) = SumOf(f, n)
  BY DEF Eval
<1>6. k[n + 1] = c[n + 1] * Powered(s, n)
  BY <1>1, <1>2, Zenon
<1> HIDE DEF f, k
<1>7. SumOf(k, n + 1) = SumOf(k, n) + k[n + 1]
  BY <1>2, SumOfNext
<1>8. SumOf(k, n) = SumOf(f, n) /\ SumOf(f, n) \in Int
  <2>1. \A i \in 1 .. n : f[i] = k[i] /\ k[i] \in Int /\ f[i] \in Int
    BY <1>1, <1>2, <1>3, Zenon
  <2>2. /\ Terms(f, 1 .. n) /\ SumOf(f, n) = SumFunctionOnSet(f, 1 .. n)
        /\ SumOf(k, n) = SumFunctionOnSet(k, 1 .. n)
    BY <2>1, SumOfIsSum
  <2>3. SumFunctionOnSet(f, 1 .. n) = SumFunctionOnSet(k, 1 .. n)
    BY <2>1, <2>2, SumEqual
  <2>4. SumOf(f, n) \in Int
    BY <2>1, SumOfInt
  <2> QED
    BY <2>2, <2>3, <2>4
<1> QED
  BY <1>4, <1>5, <1>6, <1>7, <1>8

LEMMA EvalTwo ==
    ASSUME NEW s \in Int, NEW c, c[1] \in Int, c[2] \in Int
    PROVE  Eval(c, 2, s) = c[1] + c[2] * s
<1>1. Ints(c, 0 + 1) /\ Ints(c, 1 + 1) /\ 0 \in Nat /\ 1 \in Nat
  BY DEF Ints
<1>2. Eval(c, 0, s) = 0 /\ Eval(c, 0 + 1, s) = Eval(c, 0, s) + c[0 + 1] * Powered(s, 0)
  BY <1>1, EvalNext
<1>3. Eval(c, 1 + 1, s) = Eval(c, 1, s) + c[1 + 1] * Powered(s, 1)
  BY <1>1, EvalNext
<1>4. Powered(s, 0) = 1 /\ Powered(s, 0 + 1) = s * 1
  BY PoweredNext, ZenonT(60)
<1>5. 0 + 1 = 1 /\ 1 + 1 = 2 /\ s * 1 = s /\ 0 + c[1] * 1 = c[1]
  OBVIOUS
<1> QED
  BY <1>2, <1>3, <1>4, <1>5

(* 1 + |s| + ... bounds a polynomial in s with small coefficients.         *)
WeightOf(n, s) == SumOf([i \in 1 .. n |-> Powered(Abs(s), i - 1)], n)

LEMMA EvalBound ==
    ASSUME NEW s \in Int, NEW n \in Nat, NEW c, Ints(c, n), NEW b \in Nat,
           \A i \in 1 .. n : -b <= 2 * c[i] /\ 2 * c[i] <= b
    PROVE  /\ WeightOf(n, s) \in Nat /\ b * WeightOf(n, s) \in Nat /\ (n >= 1 => WeightOf(n, s) >= 1)
           /\ -(b * WeightOf(n, s)) <= 2 * Eval(c, n, s) /\ 2 * Eval(c, n, s) <= b * WeightOf(n, s)
<1> DEFINE f == [i \in 1 .. n |-> Powered(Abs(s), i - 1)]
           w(k) == SumOf(f, k)
<1>1. \A i \in 1 .. n : f[i] = Powered(Abs(s), i - 1) /\ f[i] \in Nat /\ f[i] \in Int
  <2> TAKE i \in 1 .. n
  <2>1. i - 1 \in Nat
    OBVIOUS
  <2>2. Powered(Abs(s), i - 1) \in Nat
    BY <2>1, PoweredAbs
  <2> QED
    BY <2>2
<1>11. WeightOf(n, s) = w(n)
  BY DEF WeightOf
<1> HIDE DEF f
<1>2. \A k \in 0 .. n - 1 : /\ w(k) \in Int /\ w(k + 1) = w(k) + f[k + 1]
                            /\ k + 1 \in 1 .. n /\ k \in Nat
                            /\ Eval(c, k, s) \in Int
                            /\ Eval(c, k + 1, s) = Eval(c, k, s) + c[k + 1] * Powered(s, k)
  <2> TAKE k \in 0 .. n - 1
  <2>1. k \in Nat /\ k + 1 \in 1 .. n /\ \A i \in 1 .. k + 1 : i \in 1 .. n
    OBVIOUS
  <2>2. \A i \in 1 .. k + 1 : f[i] \in Int
    BY <1>1, <2>1, Zenon
  <2>3. w(k) \in Int /\ w(k + 1) = w(k) + f[k + 1]
    BY <2>1, <2>2, SumOfNext
  <2>4. Ints(c, k + 1)
    BY <2>1, Zenon DEF Ints
  <2> QED
    BY <2>1, <2>3, <2>4, EvalNext
<1>3. w(0) = 0 /\ Eval(c, 0, s) = 0
  <2>1. Eval(c, 0, s) = 0
    BY SumOfNothing DEF Eval
  <2> QED
    BY <2>1, SumOfNothing
<1> HIDE DEF w
<1> DEFINE Bounded(k) == /\ w(k) \in Nat /\ (k >= 1 => w(k) >= 1)
                         /\ -(b * w(k)) <= 2 * Eval(c, k, s) /\ 2 * Eval(c, k, s) <= b * w(k)
           S == {k \in 0 .. n : Bounded(k)}
<1>4. 0 \in S
  <2>1. b * 0 = 0
    OBVIOUS
  <2> QED
    BY <1>3, <2>1
<1>5. ASSUME NEW k \in 0 .. n - 1, k \in S PROVE k + 1 \in S
  <2> DEFINE p == Powered(s, k)
             a == Powered(Abs(s), k)
             e == c[k + 1]
             E == Eval(c, k, s)
             v == w(k)
  <2>1. k \in Nat /\ k + 1 \in 1 .. n /\ (k + 1) - 1 = k /\ k + 1 \in 0 .. n /\ k \in 0 .. n
    OBVIOUS
  <2>2. /\ e \in Int /\ -b <= 2 * e /\ 2 * e <= b /\ E \in Int
        /\ Eval(c, k + 1, s) = E + e * p /\ w(k + 1) = v + a
    BY <1>1, <1>2, <2>1 DEF Ints
  <2>3. v \in Nat /\ -(b * v) <= 2 * E /\ 2 * E <= b * v /\ (k >= 1 => v >= 1)
    BY <1>5
  <2>4. p \in Int /\ a \in Nat /\ (a = p \/ a = -p)
    <3>1. p \in Int
      BY <2>1, PoweredNext
    <3>2. a \in Nat /\ Abs(p) = a
      BY <2>1, PoweredAbs
    <3> QED
      BY <3>1, <3>2, AbsTypes
  <2>5. k = 0 => a = 1
    <3>1. Abs(s) \in Int
      BY AbsTypes
    <3> QED
      BY <3>1, PoweredNext
  <2> HIDE DEF p, a, e, E, v
  <2>6. -(b * a) <= 2 * (e * p) /\ 2 * (e * p) <= b * a /\ e * p \in Int /\ b * a \in Int
    <3>1. (b - 2 * e) * a >= 0 /\ (b + 2 * e) * a >= 0
      BY ONLY b \in Nat, <2>2, <2>4
    <3>2. (b - 2 * e) * a = b * a - 2 * (e * a) /\ (b + 2 * e) * a = b * a + 2 * (e * a)
          /\ e * a \in Int /\ b * a \in Int /\ e * p \in Int
      BY ONLY b \in Nat, <2>2, <2>4
    <3>3. e * a = e * p \/ e * a = -(e * p)
      BY ONLY <2>2, <2>4
    <3> QED
      BY ONLY <3>1, <3>2, <3>3
  <2>7. b * (v + a) = b * v + b * a /\ b * v \in Int
    BY ONLY b \in Nat, <2>3, <2>4
  <2>8. -(b * (v + a)) <= 2 * (E + e * p) /\ 2 * (E + e * p) <= b * (v + a)
    <3> DEFINE x == b * v
               y == b * a
               z == e * p
    <3> HIDE DEF x, y, z
    <3>1. b * (v + a) = x + y /\ x \in Int /\ y \in Int /\ z \in Int
          /\ -y <= 2 * z /\ 2 * z <= y /\ -x <= 2 * E /\ 2 * E <= x /\ E \in Int
      BY <2>2, <2>3, <2>6, <2>7 DEF x, y, z
    <3>2. -(x + y) <= 2 * (E + z) /\ 2 * (E + z) <= x + y
      BY ONLY <3>1
    <3> QED
      BY <3>1, <3>2 DEF z
  <2>9. v + a \in Nat /\ v + a >= 1
    BY ONLY <2>1, <2>3, <2>4, <2>5
  <2> QED
    BY <2>1, <2>2, <2>8, <2>9
<1> HIDE DEF S
<1>6. \A k \in 0 .. n : k \in S
  BY <1>4, <1>5, InductionUpTo
<1>7. Bounded(n)
  BY <1>6 DEF S
<1>8. b * w(n) \in Nat
  BY <1>7
<1> QED
  BY <1>7, <1>8, <1>11

-----------------------------------------------------------------------------
(* Ciphertexts *)

(* n numbers below q. *)
Parts(c, n, q) ==
    c \in Seq(Nat) /\ Len(c) = n /\ n \in Nat \ {0} /\ DOMAIN c = 1 .. n
    /\ \A i \in 1 .. n : c[i] \in 0 .. q - 1

CipherRecords == [c : Seq(Nat), level : Nat, want : Nat, bound : Nat]

CipherTypes(ct) ==
    /\ ct \in CipherRecords
    /\ ct.level \in Levels /\ ct.want \in 0 .. par.t - 1 /\ ct.bound \in Nat
    /\ Parts(ct.c, Len(ct.c), Q(ct.level))

LEMMA MadeParts ==
    ASSUME NEW n \in Nat \ {0}, NEW q \in Nat, NEW f, f \in [1 .. n -> 0 .. q - 1]
    PROVE  Parts(f, n, q)
<1>1. 0 .. q - 1 \subseteq Nat
  OBVIOUS
<1>2. f \in [1 .. n -> Nat] /\ n \in Nat /\ DOMAIN f = 1 .. n
  BY <1>1
<1>3. f \in Seq(Nat)
  BY <1>2, SeqDef
<1>4. Len(f) = n
  BY <1>2, <1>3, LenProperties
<1> QED
  BY <1>2, <1>3, <1>4 DEF Parts

LEMMA TwoParts ==
    ASSUME NEW q \in Nat, NEW a \in 0 .. q - 1, NEW b \in 0 .. q - 1
    PROVE  Parts(<< a, b >>, 2, q)
<1>1. a \in Nat /\ b \in Nat /\ 2 \in Nat \ {0}
  OBVIOUS
<1>2. << a, b >> \in Seq(Nat) /\ Len(<< a, b >>) = 2 /\ DOMAIN << a, b >> = 1 .. 2
      /\ << a, b >>[1] = a /\ << a, b >>[2] = b
  BY <1>1
<1>3. \A i \in 1 .. 2 : i = 1 \/ i = 2
  OBVIOUS
<1> QED
  BY <1>1, <1>2, <1>3 DEF Parts

LEMMA PartsInts ==
    ASSUME NEW c, NEW n, NEW q \in Nat, Parts(c, n, q)
    PROVE  Ints(c, n) /\ n \in Nat /\ n >= 1
  BY DEF Parts, Ints

(* What Ciphertext returns; a bound below half of Q is the bound given.    *)
LEMMA CiphertextIs ==
    ASSUME NEW k \in Levels, Q(k) \in Nat \ {0}, NEW c, NEW n, Parts(c, n, Q(k)),
           NEW w \in 0 .. par.t - 1, NEW b \in Nat,
           NEW ct, ct = Ciphertext(c, k, w, b)
    PROVE  /\ CipherTypes(ct) /\ ct.c = c /\ ct.level = k /\ ct.want = w /\ Len(ct.c) = n
           /\ 2 * ct.bound < Q(k) => ct.bound = b
<1> DEFINE S == {b, Q(k)}
<1>1. ct.c = c /\ ct.level = k /\ ct.want = w /\ ct.bound = Least(S)
  BY DEF Ciphertext
<1>2. S \in SUBSET Nat /\ S # {}
  OBVIOUS
<1>3. Least(S) \in S
  BY <1>2, LeastIs
<1>4. Least(S) \in Nat /\ (2 * Least(S) < Q(k) => Least(S) = b)
  BY <1>3
<1>5. Len(c) = n /\ c \in Seq(Nat)
  BY DEF Parts
<1>6. k \in Nat /\ w \in Nat
  <2>1. k \in Nat
    BY DEF Levels
  <2>2. w \in Nat
    OBVIOUS
  <2> QED
    BY <2>1, <2>2
<1>7. ct \in CipherRecords
  BY <1>4, <1>5, <1>6 DEF CipherRecords, Ciphertext
<1> QED
  BY <1>1, <1>4, <1>5, <1>7 DEF CipherTypes

(* ToPoly is a message times Q / t, rounded down. *)
LEMMA ToPolyIs ==
    ASSUME IsBuilt, NEW k \in Levels, NEW m \in 0 .. par.t - 1
    PROVE  /\ ToPoly(m, k) \in 0 .. Q(k) - 1 /\ ToPoly(m, k) \in Int
           /\ \E r \in 0 .. par.t - 1 : par.t * ToPoly(m, k) = m * Q(k) - r
<1> DEFINE q == Q(k)
           t == par.t
           d == par.level[k].delta
           r == (m * (q % t)) % t
           T == (d * r) % q
<1>1. q \in Nat \ {0} /\ d \in Nat /\ Same(d * t, -1, q) /\ par.level[k].qModT = q % t
  BY LevelFacts
<1>2. t \in Nat \ {0} /\ m \in 0 .. t - 1
  BY BuiltTypes
<1>3. ToPoly(m, k) = T
  BY <1>1 DEF ToPoly
<1>4. r = (m * (q % t)) % t /\ T = (d * r) % q
  OBVIOUS
<1> HIDE DEF q, t, d, r, T
<1>5. T \in 0 .. q - 1 /\ r \in 0 .. t - 1 /\ t * T = m * q - r
  <2>1. FloorValues(q, t, d, m, r, T)
    BY ONLY <1>1, <1>2, <1>4 DEF FloorValues
  <2> QED
    BY ONLY <2>1, FloorByInverse
<1>6. T \in Int
  BY <1>1, <1>5
<1> QED
  BY <1>3, <1>5, <1>6 DEF q, t

(* The phase is the ciphertext evaluated at the key, modulo Q. *)
LEMMA PhaseIs ==
    ASSUME IsBuilt, sk \in Int, NEW ct, CipherTypes(ct), NEW F, F = Eval(ct.c, Len(ct.c), sk)
    PROVE  /\ Q(ct.level) \in Nat \ {0} /\ Phase(ct) \in 0 .. Q(ct.level) - 1 /\ Phase(ct) \in Int
           /\ F \in Int /\ Same(Phase(ct), F, Q(ct.level))
<1> DEFINE q == Q(ct.level)
           n == Len(ct.c)
           c == ct.c
           f == EvalTerm(c, n, sk)
           h == [i \in DOMAIN c |-> (c[i] * Powered(sk, i - 1)) % q]
<1>1. q \in Nat \ {0} /\ Parts(c, n, q)
  BY LevelFacts DEF CipherTypes
<1>2. Ints(c, n) /\ n \in Nat /\ DOMAIN c = 1 .. n
  BY <1>1, PartsInts DEF Parts
<1>3. Phase(ct) = SumOf(h, n) % q
  BY DEF Phase
<1>4. \A i \in 1 .. n : f[i] = c[i] * Powered(sk, i - 1) /\ f[i] \in Int
  BY <1>2, EvalTermIs, ZenonT(60)
<1>5. \A i \in 1 .. n : h[i] = f[i] % q
  BY <1>2, <1>4
<1> HIDE DEF q, n, c, f, h
<1>6. \A i \in 1 .. n : h[i] \in Int /\ Same(h[i], f[i], q)
  BY <1>1, <1>4, <1>5, SameMod, ZenonT(60) DEF Same
<1>7. Terms(h, 1 .. n) /\ SumOf(h, n) = SumFunctionOnSet(h, 1 .. n) /\ SumOf(h, n) \in Int
  BY <1>2, <1>6, SumOfIsSum, SumOfInt
<1>8. Terms(f, 1 .. n) /\ F = SumFunctionOnSet(f, 1 .. n) /\ F \in Int
  BY <1>2, EvalSum DEF f, c, n
<1>9. q \in Int
  BY <1>1
<1>10. Same(SumOf(h, n), F, q)
  BY <1>6, <1>7, <1>8, <1>9, SumCongruent
<1>11. Same(SumOf(h, n) % q, SumOf(h, n), q)
  BY <1>1, <1>7, SameMod
<1>12. Same(Phase(ct), F, q)
  BY <1>3, <1>9, <1>10, <1>11, SameTransitive
<1>13. Phase(ct) \in 0 .. q - 1 /\ Phase(ct) \in Int
  <2> DEFINE x == SumOf(h, n)
  <2>1. x \in Int
    BY <1>7
  <2> HIDE DEF x
  <2>2. x % q \in 0 .. q - 1 /\ x % q \in Int
    BY <1>1, <2>1, Remainder
  <2> QED
    BY <1>3, <2>2 DEF x
<1> QED
  BY <1>1, <1>8, <1>12, <1>13 DEF q

(* The distance of the phase from a message, centred. *)
Error(ct, m) == Centered((Phase(ct) - ToPoly(m, ct.level)) % Q(ct.level), Q(ct.level))

LEMMA ErrorIs ==
    ASSUME IsBuilt, sk \in Int, NEW ct, CipherTypes(ct), NEW m \in 0 .. par.t - 1,
           NEW q, q = Q(ct.level), NEW T, T = ToPoly(m, ct.level), NEW e, e = Error(ct, m)
    PROVE  /\ q \in Nat \ {0} /\ T \in Int /\ Phase(ct) \in Int /\ e \in Int
           /\ -q < 2 * e /\ 2 * e <= q /\ Same(e, Phase(ct) - T, q)
<1> DEFINE P == Phase(ct)
           x == (P - T) % q
<1>1. ct.level \in Levels
  BY DEF CipherTypes
<1>2. q \in Nat \ {0} /\ P \in Int
  BY PhaseIs
<1>3. T \in Int
  BY <1>1, ToPolyIs
<1>4. e = Centered(x, q)
  BY DEF Error
<1> HIDE DEF P
<1> DEFINE y == P - T
<1>5. y \in Int /\ x = y % q
  BY <1>2, <1>3
<1> HIDE DEF x, y
<1>6. x \in 0 .. q - 1 /\ Same(x, y, q)
  <2>1. y % q \in Int /\ 0 <= y % q /\ y % q < q
    BY ONLY <1>2, <1>5, Remainder
  <2>2. Same(y % q, y, q)
    BY <1>2, <1>5, SameMod
  <2> QED
    BY <1>2, <1>5, <2>1, <2>2
<1>7. e \in Int /\ Same(e, x, q) /\ -q < 2 * e /\ 2 * e <= q
  BY <1>2, <1>4, <1>6, CenteredSame
<1>8. Same(e, y, q)
  <2>1. q \in Int
    BY <1>2
  <2> QED
    BY <1>6, <1>7, <2>1, SameTransitive
<1> QED
  BY <1>2, <1>3, <1>7, <1>8 DEF P, y

LEMMA NoiseIs ==
    ASSUME IsBuilt, sk \in Int, NEW ct, CipherTypes(ct)
    PROVE  Noise(ct) = Abs(Error(ct, ct.want)) /\ Noise(ct) \in Nat
<1>1. Noise(ct) = Abs(Error(ct, ct.want))
  BY DEF Noise, Error
<1>2. Error(ct, ct.want) \in Int
  BY ErrorIs DEF CipherTypes
<1> QED
  BY <1>1, <1>2, AbsTypes

(* Within the budget, decryption returns the message wanted. *)
LEMMA Decrypts ==
    ASSUME IsBuilt, sk \in Int, NEW ct, CipherTypes(ct), Readable, WithinBudget(ct)
    PROVE  Decrypted(ct) = ct.want
<1> DEFINE q == Q(ct.level)
           t == par.t
           w == ct.want
           P == Phase(ct)
           C == Centered(P, q)
           T == ToPoly(w, ct.level)
           e == Error(ct, w)
           N == Noise(ct)
           S == Scaled(ct)
           M == ReadModulus
<1>1. t \in Nat \ {0} /\ M \in Nat \ {0} /\ w \in 0 .. t - 1 /\ ct.level \in Levels
  BY BuiltTypes DEF CipherTypes
<1>2. 3 * t < 2 * M /\ 2 * t * (N + 1) < q
  BY DEF Readable, WithinBudget
<1>3. PICK r \in 0 .. t - 1 : t * T = w * q - r
  BY <1>1, ToPolyIs
<1>4. q \in Nat \ {0} /\ P \in 0 .. q - 1 /\ P \in Int
  BY PhaseIs
<1>5. T \in Int /\ e \in Int /\ Same(e, P - T, q)
  BY <1>1, ErrorIs
<1>6. N \in Nat /\ -N <= e /\ e <= N
  BY <1>5, NoiseIs, AbsTypes
<1>7. S = Rounded(C, t, q)
  BY DEF Scaled
<1>8. Decrypted(ct) = (((S % M) + t) % M) % t
  BY DEF Decrypted
<1> HIDE DEF q, t, P, C, T, e, N, S, M
<1>9. C \in Int /\ Same(C, P, q) /\ -q < 2 * C /\ 2 * C <= q
  BY <1>4, CenteredSame DEF C
<1> HIDE DEF w
<1>10. \E l \in Int : C = T + e + l * q
  <2>1. PICK i \in Int : C = P + i * q
    BY <1>9 DEF Same
  <2>2. PICK j \in Int : e = P - T + j * q
    BY <1>5 DEF Same
  <2>3. (i - j) * q = i * q - j * q /\ i - j \in Int /\ i * q \in Int /\ j * q \in Int
    BY ONLY <1>4, i \in Int, j \in Int
  <2>4. C = T + e + (i - j) * q
    BY ONLY <1>4, <1>5, <2>1, <2>2, <2>3, <1>9
  <2> QED
    BY <2>3, <2>4
<1>11. PICK l \in Int : C = T + e + l * q
  BY <1>10
<1>12. S = w + t * l /\ -t <= 2 * S /\ 2 * S <= t
  <2>1. ScaledValues(q, t, C, T, r, w, e, l, N, S)
    BY ONLY r \in 0 .. t - 1, l \in Int, <1>1, <1>2, <1>3, <1>4, <1>5, <1>6, <1>7, <1>9, <1>11 DEF ScaledValues
  <2> QED
    BY ONLY <2>1, ScaledMessage
<1>13. S \in Int /\ w \in Int
  <2>1. w \in Int /\ t * l \in Int
    BY <1>1
  <2> QED
    BY <1>12, <2>1
<1>14. (((S % M) + t) % M) % t = w % t
  BY ONLY <1>1, <1>2, <1>12, <1>13, l \in Int, ReadBack
<1>15. w % t = w
  <2>1. w \in Int /\ 0 <= w /\ w < t
    BY <1>1
  <2> QED
    BY <1>1, <2>1, OwnRemainder
<1> QED
  BY <1>8, <1>14, <1>15 DEF w

-----------------------------------------------------------------------------
(* What operations return: at level k, n parts which are v modulo Q, the   *)
(* message w, and when it says something, the bound b.                     *)
IsResult(z, k, n, v, w, b) ==
    /\ CipherTypes(z) /\ z.level = k /\ z.want = w /\ Len(z.c) = n
    /\ n \in Nat \ {0} /\ k \in Levels /\ b \in Nat
    /\ 2 * z.bound < Q(k) => z.bound = b
    /\ \A i \in 1 .. n : v[i] \in Int /\ Same(z.c[i], v[i], Q(k))

LEMMA ReducedParts ==
    ASSUME NEW n \in Nat \ {0}, NEW q \in Nat \ {0}, NEW v, \A i \in 1 .. n : v[i] \in Int,
           NEW c, c = [i \in 1 .. n |-> v[i] % q]
    PROVE  Parts(c, n, q) /\ \A i \in 1 .. n : Same(c[i], v[i], q)
<1>1. ASSUME NEW i \in 1 .. n PROVE c[i] = v[i] % q /\ v[i] % q \in 0 .. q - 1 /\ Same(v[i] % q, v[i], q)
  <2> DEFINE x == v[i]
  <2>1. x \in Int /\ c[i] = x % q
    OBVIOUS
  <2> HIDE DEF x
  <2>2. x % q \in Int /\ 0 <= x % q /\ x % q < q
    BY ONLY <2>1, q \in Nat \ {0}, Remainder
  <2>3. x % q \in 0 .. q - 1
    BY <2>2
  <2>4. Same(x % q, x, q)
    BY <2>1, SameMod
  <2> QED
    BY <2>1, <2>3, <2>4 DEF x
<1>2. c \in [1 .. n -> 0 .. q - 1] /\ q \in Nat
  BY <1>1
<1> QED
  BY <1>1, <1>2, MadeParts

LEMMA ResultIs ==
    ASSUME IsBuilt, NEW k \in Levels, NEW n \in Nat \ {0}, NEW v, \A i \in 1 .. n : v[i] \in Int,
           NEW c, c = [i \in 1 .. n |-> v[i] % Q(k)], NEW w \in Int, NEW b \in Nat,
           NEW z, z = Ciphertext(c, k, w % par.t, b)
    PROVE  IsResult(z, k, n, v, w % par.t, b)
<1>1. Q(k) \in Nat \ {0}
  BY LevelFacts
<1>2. Parts(c, n, Q(k)) /\ \A i \in 1 .. n : Same(c[i], v[i], Q(k))
  BY <1>1, ReducedParts
<1>3. w % par.t \in 0 .. par.t - 1
  <2> DEFINE t == par.t
  <2>1. t \in Nat \ {0}
    BY BuiltTypes
  <2> HIDE DEF t
  <2>2. w % t \in Int /\ 0 <= w % t /\ w % t < t
    BY ONLY <2>1, w \in Int, Remainder
  <2>3. w % t \in 0 .. t - 1
    BY <2>1, <2>2
  <2> QED
    BY <2>3 DEF t
<1>4. /\ CipherTypes(z) /\ z.c = c /\ z.level = k /\ z.want = w % par.t /\ Len(z.c) = n
      /\ 2 * z.bound < Q(k) => z.bound = b
  BY <1>1, <1>2, <1>3, CiphertextIs
<1> QED
  BY <1>2, <1>4 DEF IsResult

(* The types of a ciphertext, unfolded. *)
LEMMA CipherFacts ==
    ASSUME IsBuilt, NEW x, CipherTypes(x)
    PROVE  /\ x.level \in Levels /\ x.want \in Int /\ x.want \in 0 .. par.t - 1 /\ x.bound \in Nat
           /\ Len(x.c) \in Nat \ {0} /\ Len(x.c) \in Nat /\ DOMAIN x.c = 1 .. Len(x.c)
           /\ Q(x.level) \in Nat \ {0} /\ Q(x.level) \in Int
           /\ \A i \in 1 .. Len(x.c) : x.c[i] \in Int /\ x.c[i] \in 0 .. Q(x.level) - 1
           /\ Ints(x.c, Len(x.c))
<1>1. x.level \in Levels /\ x.want \in 0 .. par.t - 1 /\ x.bound \in Nat /\ Parts(x.c, Len(x.c), Q(x.level))
  BY DEF CipherTypes
<1>2. Q(x.level) \in Nat \ {0}
  BY <1>1, LevelFacts
<1>3. par.t \in Nat \ {0}
  BY BuiltTypes
<1> QED
  BY <1>1, <1>2, <1>3, SMTT(60) DEF Parts, Ints

SumParts(x, y) == [i \in 1 .. Len(x.c) |-> x.c[i] + y.c[i]]

DifferenceParts(x, y) == [i \in 1 .. Len(x.c) |-> x.c[i] - y.c[i]]

MultipleParts(x, m) == [i \in 1 .. Len(x.c) |-> m * x.c[i]]

AddedParts(x, T) == [i \in 1 .. Len(x.c) |-> IF i = 1 THEN x.c[1] + T ELSE x.c[i]]

LEMMA AddedIs ==
    ASSUME IsBuilt, NEW x, CipherTypes(x), NEW y, CipherTypes(y), x.level = y.level,
           Len(x.c) = Len(y.c), NEW z, z = Added(x, y)
    PROVE  IsResult(z, x.level, Len(x.c), SumParts(x, y), (x.want + y.want) % par.t,
                    x.bound + y.bound + 1)
<1> DEFINE v == SumParts(x, y)
           n == Len(x.c)
           k == x.level
           b == x.bound + y.bound + 1
           w == x.want + y.want
           c == [i \in 1 .. n |-> v[i] % Q(k)]
<1>1. k \in Levels /\ n \in Nat \ {0} /\ b \in Nat /\ w \in Int
  BY CipherFacts
<1>2. \A i \in 1 .. n : v[i] = x.c[i] + y.c[i] /\ v[i] \in Int
  BY CipherFacts DEF SumParts
<1>3. z = Ciphertext(c, k, w % par.t, b)
  BY <1>2 DEF Added
<1> HIDE DEF v, n, k, b, w
<1> QED
  BY <1>1, <1>2, <1>3, ResultIs DEF v, n, k, b, w

LEMMA SubtractedIs ==
    ASSUME IsBuilt, NEW x, CipherTypes(x), NEW y, CipherTypes(y), x.level = y.level,
           Len(x.c) = Len(y.c), NEW z, z = Subtracted(x, y)
    PROVE  IsResult(z, x.level, Len(x.c), DifferenceParts(x, y), (x.want - y.want) % par.t,
                    x.bound + y.bound + 1)
<1> DEFINE v == DifferenceParts(x, y)
           n == Len(x.c)
           k == x.level
           b == x.bound + y.bound + 1
           w == x.want - y.want
           c == [i \in 1 .. n |-> v[i] % Q(k)]
<1>1. k \in Levels /\ n \in Nat \ {0} /\ b \in Nat /\ w \in Int
  BY CipherFacts
<1>2. \A i \in 1 .. n : v[i] = x.c[i] - y.c[i] /\ v[i] \in Int
  BY CipherFacts DEF DifferenceParts
<1>3. z = Ciphertext(c, k, w % par.t, b)
  BY <1>2 DEF Subtracted
<1> HIDE DEF v, n, k, b, w
<1> QED
  BY <1>1, <1>2, <1>3, ResultIs DEF v, n, k, b, w

LEMMA NegatedIs ==
    ASSUME IsBuilt, NEW x, CipherTypes(x), NEW z, z = Negated(x)
    PROVE  IsResult(z, x.level, Len(x.c), MultipleParts(x, -1), (0 - x.want) % par.t, x.bound + 1)
<1> DEFINE v == MultipleParts(x, -1)
           n == Len(x.c)
           k == x.level
           b == x.bound + 1
           w == 0 - x.want
           c == [i \in 1 .. n |-> v[i] % Q(k)]
<1>1. k \in Levels /\ n \in Nat \ {0} /\ b \in Nat /\ w \in Int
  BY CipherFacts
<1>2. \A i \in 1 .. n : v[i] = 0 - x.c[i] /\ v[i] \in Int
  <2> TAKE i \in 1 .. n
  <2>1. v[i] = (-1) * x.c[i] /\ x.c[i] \in Int
    BY CipherFacts DEF MultipleParts
  <2> QED
    BY <2>1
<1>3. DOMAIN x.c = 1 .. n
  BY CipherFacts
<1>4. z = Ciphertext(c, k, w % par.t, b)
  BY <1>2, <1>3 DEF Negated
<1> HIDE DEF v, n, k, b, w
<1> QED
  BY <1>1, <1>2, <1>4, ResultIs DEF v, n, k, b, w

LEMMA PlainMultipliedIs ==
    ASSUME IsBuilt, NEW x, CipherTypes(x), NEW m \in Nat, NEW z, z = PlainMultiplied(x, m)
    PROVE  IsResult(z, x.level, Len(x.c), MultipleParts(x, m), (x.want * m) % par.t,
                    m * (x.bound + 1) + 1)
<1> DEFINE v == MultipleParts(x, m)
           n == Len(x.c)
           k == x.level
           b == m * (x.bound + 1) + 1
           w == x.want * m
           c == [i \in 1 .. n |-> v[i] % Q(k)]
<1>1. k \in Levels /\ n \in Nat \ {0} /\ b \in Nat /\ w \in Int
  BY CipherFacts, SMTT(60)
<1>2. \A i \in 1 .. n : v[i] = x.c[i] * m /\ v[i] \in Int
  <2> TAKE i \in 1 .. n
  <2>1. v[i] = m * x.c[i] /\ x.c[i] \in Int
    BY CipherFacts DEF MultipleParts
  <2> QED
    BY <2>1
<1>3. DOMAIN x.c = 1 .. n
  BY CipherFacts
<1>4. z = Ciphertext(c, k, w % par.t, b)
  BY <1>2, <1>3 DEF PlainMultiplied
<1> HIDE DEF v, n, k, b, w
<1> QED
  BY <1>1, <1>2, <1>4, ResultIs DEF v, n, k, b, w

LEMMA PlainAddedIs ==
    ASSUME IsBuilt, NEW x, CipherTypes(x), NEW m \in 0 .. par.t - 1, NEW z, z = PlainAdded(x, m)
    PROVE  IsResult(z, x.level, Len(x.c), AddedParts(x, ToPoly(m, x.level)),
                    (x.want + m) % par.t, x.bound + 1)
<1> DEFINE T == ToPoly(m, x.level)
           v == AddedParts(x, T)
           n == Len(x.c)
           k == x.level
           b == x.bound + 1
           w == x.want + m
           c == [i \in 1 .. n |-> v[i] % Q(k)]
           d == [x.c EXCEPT ![1] = (@ + T) % Q(k)]
<1>1. k \in Levels /\ n \in Nat \ {0} /\ b \in Nat /\ w \in Int /\ DOMAIN x.c = 1 .. n
      /\ Q(k) \in Nat \ {0} /\ x.c \in Seq(Nat)
  BY CipherFacts, SMTT(60) DEF CipherTypes, Parts
<1>2. T \in Int
  BY <1>1, ToPolyIs
<1>3. \A i \in 1 .. n : x.c[i] \in Int /\ x.c[i] \in 0 .. Q(k) - 1
  BY CipherFacts
<1>4. z = Ciphertext(d, k, w % par.t, b)
  BY DEF PlainAdded
<1> HIDE DEF T
<1>5. \A i \in 1 .. n : /\ v[i] = IF i = 1 THEN x.c[1] + T ELSE x.c[i]
                        /\ v[i] \in Int
  BY <1>1, <1>2, <1>3, SMTT(60) DEF AddedParts
<1> HIDE DEF v, n, k, b, w
<1>6. ASSUME NEW i \in 1 .. n PROVE d[i] = v[i] % Q(k)
  <2>1. CASE i = 1
    BY <1>1, <1>5, <2>1
  <2>2. CASE i # 1
    <3> DEFINE q == Q(k)
               y == x.c[i]
    <3>1. d[i] = y /\ v[i] = y
      BY <1>1, <1>5, <2>2
    <3>2. q \in Nat \ {0} /\ y \in Int /\ 0 <= y /\ y < q
      BY <1>1, <1>3
    <3> HIDE DEF q, y
    <3>3. y % q = y
      BY <3>2, OwnRemainder
    <3> QED
      BY <3>1, <3>3 DEF q
  <2> QED
    BY <2>1, <2>2
<1>7. d = [i \in 1 .. n |-> d[i]]
  BY <1>1
<1>8. d = c
  BY <1>6, <1>7
<1> QED
  BY <1>1, <1>4, <1>5, <1>8, ResultIs DEF v, n, k, b, w, T

LEMMA MessageReduced ==
    ASSUME IsBuilt, NEW m \in 0 .. par.t - 1
    PROVE  m % par.t = m /\ m \in Int
<1> DEFINE t == par.t
<1>1. t \in Nat \ {0} /\ m \in 0 .. t - 1
  BY BuiltTypes
<1> HIDE DEF t
<1>2. m \in Int /\ 0 <= m /\ m < t
  BY <1>1
<1>3. m % t = m
  BY <1>1, <1>2, OwnRemainder
<1> QED
  BY <1>2, <1>3 DEF t

LEMMA WeightIs ==
    ASSUME sk \in Int, NEW n \in Nat
    PROVE  Weight(n) = WeightOf(n, sk) /\ Weight(n) \in Nat /\ (n >= 1 => Weight(n) >= 1)
<1> DEFINE c == [i \in 1 .. n |-> 0]
<1>1. Ints(c, n) /\ 0 \in Nat
  BY DEF Ints
<1>2. \A i \in 1 .. n : -0 <= 2 * c[i] /\ 2 * c[i] <= 0
  OBVIOUS
<1> HIDE DEF c
<1>3. WeightOf(n, sk) \in Nat /\ (n >= 1 => WeightOf(n, sk) >= 1)
  BY <1>1, <1>2, EvalBound
<1>4. Weight(n) = WeightOf(n, sk)
  BY DEF Weight, WeightOf
<1> QED
  BY <1>3, <1>4

SwitchedParts(x, p) == [i \in 1 .. Len(x.c) |-> SwitchedPart(x.c[i], p)]

LastModulus(k) == par.moduli[Len(par.moduli) - k]

LEMMA SwitchedDownIs ==
    ASSUME IsBuilt, sk \in Int, NEW x, CipherTypes(x), x.level + 1 < Len(par.moduli),
           NEW p, p = LastModulus(x.level), NEW z, z = SwitchedDown(x)
    PROVE  /\ p \in Nat \ {0} /\ Q(x.level) = p * Q(x.level + 1) /\ x.level + 1 \in Levels
           /\ IsResult(z, x.level + 1, Len(x.c), SwitchedParts(x, p), x.want,
                       (x.bound \div p) + Weight(Len(x.c)) + 2)
<1> DEFINE v == SwitchedParts(x, p)
           n == Len(x.c)
           k == x.level + 1
           b == (x.bound \div p) + Weight(n) + 2
           w == x.want
           c == [i \in 1 .. n |-> v[i] % Q(k)]
<1>1. /\ x.level \in Levels /\ n \in Nat \ {0} /\ n \in Nat /\ w \in 0 .. par.t - 1
      /\ DOMAIN x.c = 1 .. n /\ x.bound \in Nat
  BY CipherFacts
<1>2. p \in Nat \ {0} /\ Q(x.level) = p * Q(x.level + 1) /\ k \in Levels
  BY <1>1, NextLevel DEF LastModulus
<1>3. Weight(n) \in Nat
  BY <1>1, WeightIs
<1>4. b \in Nat
  <2>1. x.bound \div p \in Nat
    BY <1>1, <1>2
  <2> QED
    BY <1>3, <2>1
<1>5. \A i \in 1 .. n : v[i] = SwitchedPart(x.c[i], p) /\ v[i] \in Int
  <2> TAKE i \in 1 .. n
  <2>1. v[i] = SwitchedPart(x.c[i], p) /\ x.c[i] \in Int
    BY CipherFacts DEF SwitchedParts
  <2>2. SwitchedPart(x.c[i], p) \in Int
    BY <1>2, <2>1 DEF SwitchedPart
  <2> QED
    BY <2>1, <2>2
<1>6. w % par.t = w /\ w \in Int
  BY <1>1, MessageReduced
<1>7. z = Ciphertext(c, k, w, b)
  <2>1. z = Ciphertext([i \in DOMAIN x.c |-> SwitchedPart(x.c[i], p) % Q(k)], k, w, b)
    BY DEF SwitchedDown, LastModulus
  <2>2. c = [i \in DOMAIN x.c |-> SwitchedPart(x.c[i], p) % Q(k)]
    BY <1>1, <1>5
  <2> QED
    BY <2>1, <2>2
<1> HIDE DEF v, n, k, b, w, c
<1>8. z = Ciphertext(c, k, w % par.t, b)
  BY <1>6, <1>7
<1>9. IsResult(z, k, n, v, w % par.t, b)
  BY <1>1, <1>2, <1>4, <1>5, <1>6, <1>8, ResultIs DEF c
<1> QED
  BY <1>2, <1>6, <1>9 DEF v, n, k, b, w

LEMMA ResultOfTwo ==
    ASSUME IsBuilt, NEW k \in Levels, NEW a \in Int, NEW d \in Int, NEW m \in 0 .. par.t - 1,
           NEW b \in Nat, NEW z, z = Ciphertext(<< a % Q(k), d % Q(k) >>, k, m, b)
    PROVE  IsResult(z, k, 2, << a, d >>, m, b)
<1> DEFINE v == << a, d >>
           c == [i \in 1 .. 2 |-> v[i] % Q(k)]
           e == << a % Q(k), d % Q(k) >>
<1>1. v[1] = a /\ v[2] = d /\ DOMAIN v = 1 .. 2
  OBVIOUS
<1>2. \A i \in 1 .. 2 : i = 1 \/ i = 2
  OBVIOUS
<1>3. \A i \in 1 .. 2 : v[i] \in Int
  BY <1>1, <1>2
<1>4. c = e
  <2>1. e = [i \in 1 .. 2 |-> e[i]] /\ e[1] = a % Q(k) /\ e[2] = d % Q(k)
    OBVIOUS
  <2>2. \A i \in 1 .. 2 : e[i] = v[i] % Q(k)
    BY <1>1, <1>2, <2>1
  <2> HIDE DEF e, v
  <2> QED
    BY <2>1, <2>2
<1>5. m % par.t = m /\ m \in Int
  BY MessageReduced
<1> HIDE DEF e, v
<1>6. z = Ciphertext(c, k, m % par.t, b)
  BY <1>4, <1>5 DEF e
<1> HIDE DEF c
<1>7. 2 \in Nat \ {0}
  OBVIOUS
<1>8. IsResult(z, k, 2, v, m % par.t, b)
  BY <1>3, <1>5, <1>6, <1>7, ResultIs DEF c
<1> QED
  BY <1>5, <1>8 DEF v

LEMMA SecretEncryptedIs ==
    ASSUME IsBuilt, sk \in Int, NEW k \in Levels, NEW m \in 0 .. par.t - 1, NEW a \in 0 .. Q(k) - 1,
           NEW e \in Int, NEW z, z = Ciphertext(SecretEncrypted(m, k, a, e), k, m, Abs(e))
    PROVE  IsResult(z, k, 2, << e - a * sk + ToPoly(m, k), a >>, m, Abs(e))
<1> DEFINE T == ToPoly(m, k)
           x == e - a * sk + T
           q == Q(k)
<1>1. T \in Int /\ q \in Nat \ {0}
  BY ToPolyIs, LevelFacts
<1>2. a \in Int /\ a * sk \in Int /\ 0 <= a /\ a < q
  BY <1>1
<1>3. x \in Int
  BY <1>1, <1>2
<1>4. Abs(e) \in Nat
  BY AbsTypes
<1> HIDE DEF q, T
<1>5. a % q = a
  BY <1>1, <1>2, OwnRemainder
<1>6. z = Ciphertext(<< x % q, a % q >>, k, m, Abs(e))
  BY <1>5 DEF SecretEncrypted, T, q
<1> HIDE DEF x
<1>7. IsResult(z, k, 2, << x, a >>, m, Abs(e))
  BY <1>2, <1>3, <1>4, <1>6, ResultOfTwo DEF q
<1> QED
  BY <1>7 DEF x, T

(* A key: an encryption of zero in two parts. *)
KeyTypes(x) == CipherTypes(x) /\ x.want = 0 /\ Len(x.c) = 2

(* The keys at the levels down to k. *)
KeysDown(g, k) ==
    /\ g[0] = pk /\ KeyAt(k) = g[k]
    /\ \A j \in 0 .. k : KeyTypes(g[j]) /\ g[j].level = j
    /\ \A j \in 0 .. k - 1 : g[j + 1] = SwitchedDown(g[j]) /\ j + 1 < Len(par.moduli)

LEMMA KeySwitchedDown ==
    ASSUME IsBuilt, sk \in Int, NEW x, KeyTypes(x), x.level + 1 < Len(par.moduli)
    PROVE  KeyTypes(SwitchedDown(x)) /\ SwitchedDown(x).level = x.level + 1
<1> DEFINE z == SwitchedDown(x)
           p == LastModulus(x.level)
           b == (x.bound \div p) + Weight(Len(x.c)) + 2
<1>1. CipherTypes(x)
  BY DEF KeyTypes
<1>2. z = SwitchedDown(x) /\ p = LastModulus(x.level)
  OBVIOUS
<1> HIDE DEF z
<1>3. IsResult(z, x.level + 1, Len(x.c), SwitchedParts(x, p), x.want, b)
  BY <1>1, <1>2, SwitchedDownIs
<1> HIDE DEF p, b
<1> QED
  BY <1>3 DEF IsResult, KeyTypes, z

LEMMA KeysDownExist ==
    ASSUME IsBuilt, sk \in Int, KeyTypes(pk), pk.level = 0, NEW k \in Levels
    PROVE  \E g : KeysDown(g, k)
<1> DEFINE S == {x \in CipherRecords : KeyTypes(x)}
           Next(x) == IF x.level + 1 < Len(par.moduli) THEN SwitchedDown(x) ELSE x
           step == [y \in (1 .. k) \X S |-> Next(y[2])]
<1>1. k \in Nat /\ Len(par.moduli) \in Nat \ {0} /\ k < Len(par.moduli)
  BY BuiltTypes DEF Levels
<1>2. \A x : KeyTypes(x) => x \in S
  BY DEF KeyTypes, CipherTypes
<1>3. \A x \in S : KeyTypes(x) /\ x.level \in Nat
  BY DEF CipherRecords
<1>4. \A x \in S : Next(x) \in S
  BY <1>2, <1>3, KeySwitchedDown
<1> HIDE DEF S, Next
<1>5. step \in [(1 .. k) \X S -> S]
  BY <1>4
<1>6. \A j \in 1 .. k : \A x \in S : step[<< j, x >>] = Next(x)
  OBVIOUS
<1>7. pk \in S
  BY <1>2
<1> HIDE DEF step
<1>8. PICK g \in [0 .. k -> S] : Steps(g, k, pk, step)
  BY <1>1, <1>5, <1>7, RecursionExists
<1>9. \A j \in 0 .. k : g[j] \in S
  OBVIOUS
<1>10. g[0] = pk /\ \A j \in 1 .. k : g[j] = Next(g[j - 1])
  <2>1. g[0] = pk /\ \A j \in 1 .. k : g[j] = step[<< j, g[j - 1] >>]
    BY <1>8 DEF Steps
  <2>2. \A j \in 1 .. k : j - 1 \in 0 .. k
    BY <1>1
  <2> QED
    BY <1>6, <1>9, <2>1, <2>2
<1> DEFINE I == {j \in 0 .. k : g[j].level = j}
<1>11. \A j \in 0 .. k - 1 : g[j].level = j =>
          g[j + 1] = SwitchedDown(g[j]) /\ j + 1 < Len(par.moduli) /\ g[j + 1].level = j + 1
  <2> SUFFICES ASSUME NEW j \in 0 .. k - 1, g[j].level = j
               PROVE  g[j + 1] = SwitchedDown(g[j]) /\ j + 1 < Len(par.moduli) /\ g[j + 1].level = j + 1
    OBVIOUS
  <2>1. j \in 0 .. k /\ j + 1 \in 1 .. k /\ (j + 1) - 1 = j /\ j + 1 < Len(par.moduli)
    BY <1>1
  <2>2. g[j + 1] = Next(g[j]) /\ KeyTypes(g[j])
    BY <1>3, <1>9, <1>10, <2>1
  <2>3. g[j + 1] = SwitchedDown(g[j])
    BY <2>1, <2>2 DEF Next
  <2>4. SwitchedDown(g[j]).level = g[j].level + 1
    BY <2>1, <2>2, KeySwitchedDown
  <2> QED
    BY <2>1, <2>3, <2>4
<1>12. 0 \in I
  BY <1>1, <1>10
<1>13. \A j \in 0 .. k - 1 : j \in I => j + 1 \in I
  BY <1>1, <1>11
<1> HIDE DEF I
<1>14. \A j \in 0 .. k : j \in I
  BY <1>1, <1>12, <1>13, InductionUpTo
<1>15. \A j \in 0 .. k : g[j].level = j
  BY <1>14 DEF I
<1>16. \A j \in 0 .. k - 1 : g[j + 1] = SwitchedDown(g[j]) /\ j + 1 < Len(par.moduli)
  <2> TAKE j \in 0 .. k - 1
  <2>1. j \in 0 .. k
    BY <1>1
  <2> QED
    BY <1>11, <1>15, <2>1
<1> DEFINE E(h) == h = [j \in 0 .. k |-> IF j = 0 THEN pk ELSE SwitchedDown(h[j - 1])]
           w == CHOOSE h : E(h)
<1>17. KeyAt(k) = w[k]
  BY DEF KeyAt
<1>18. E(g)
  <2>1. ASSUME NEW j \in 0 .. k PROVE g[j] = IF j = 0 THEN pk ELSE SwitchedDown(g[j - 1])
    <3>1. CASE j = 0
      BY <1>10, <3>1
    <3>2. CASE j # 0
      <4>1. j - 1 \in 0 .. k - 1 /\ (j - 1) + 1 = j
        BY <1>1, <3>2
      <4>2. g[(j - 1) + 1] = SwitchedDown(g[j - 1])
        BY <1>16, <4>1
      <4> QED
        BY <3>2, <4>1, <4>2
    <3> QED
      BY <3>1, <3>2
  <2> QED
    BY <2>1
<1>19. E(w)
  BY <1>18
<1> HIDE DEF w
<1>20. \A j \in 0 .. k : /\ w[j] = IF j = 0 THEN pk ELSE SwitchedDown(w[j - 1])
                         /\ g[j] = IF j = 0 THEN pk ELSE SwitchedDown(g[j - 1])
  BY <1>18, <1>19
<1> DEFINE J == {j \in 0 .. k : w[j] = g[j]}
<1>21. 0 \in J
  BY <1>1, <1>20
<1>22. \A j \in 0 .. k - 1 : j \in J => j + 1 \in J
  <2> SUFFICES ASSUME NEW j \in 0 .. k - 1, j \in J PROVE j + 1 \in J
    OBVIOUS
  <2>1. j + 1 \in 0 .. k /\ j + 1 # 0 /\ (j + 1) - 1 = j
    BY <1>1
  <2> QED
    BY <1>20, <2>1
<1> HIDE DEF J
<1>23. \A j \in 0 .. k : j \in J
  BY <1>1, <1>21, <1>22, InductionUpTo
<1>24. KeyAt(k) = g[k]
  BY <1>1, <1>17, <1>23 DEF J
<1>25. \A j \in 0 .. k : KeyTypes(g[j])
  BY <1>3, <1>9
<1>26. KeysDown(g, k)
  BY <1>10, <1>15, <1>16, <1>24, <1>25 DEF KeysDown
<1> QED
  BY <1>26

PublicBound(key, u, e1, e2) == Abs(u) * (key.bound + 1) + Abs(e1) + Abs(e2 * sk)

PublicParts(key, m, u, e1, e2) ==
    << u * key.c[1] + e1 + ToPoly(m, key.level), u * key.c[2] + e2 >>

LEMMA PublicEncryptedIs ==
    ASSUME IsBuilt, sk \in Int, NEW key, KeyTypes(key), NEW k, k = key.level, NEW m \in 0 .. par.t - 1,
           NEW u \in Int, NEW e1 \in Int, NEW e2 \in Int,
           NEW z, z = Ciphertext(<< (u * key.c[1] + e1 + ToPoly(m, k)) % Q(k), (u * key.c[2] + e2) % Q(k) >>,
                                 k, m, PublicBound(key, u, e1, e2))
    PROVE  IsResult(z, k, 2, PublicParts(key, m, u, e1, e2), m, PublicBound(key, u, e1, e2))
<1> DEFINE a == u * key.c[1] + e1 + ToPoly(m, k)
           d == u * key.c[2] + e2
           b == PublicBound(key, u, e1, e2)
<1>1. CipherTypes(key) /\ Len(key.c) = 2
  BY DEF KeyTypes
<1>2. k \in Levels /\ key.bound \in Nat /\ key.c[1] \in Int /\ key.c[2] \in Int
  BY <1>1, CipherFacts
<1>3. ToPoly(m, k) \in Int
  BY <1>2, ToPolyIs
<1>4. a \in Int /\ d \in Int
  <2>1. u * key.c[1] \in Int /\ u * key.c[2] \in Int
    BY <1>2
  <2> QED
    BY <1>3, <2>1
<1>5. b \in Nat
  <2>1. e2 * sk \in Int
    OBVIOUS
  <2>2. Abs(u) \in Nat /\ Abs(e1) \in Nat /\ Abs(e2 * sk) \in Nat
    BY <2>1, AbsTypes
  <2>3. Abs(u) * (key.bound + 1) \in Nat
    BY <1>2, <2>2
  <2> QED
    BY <2>2, <2>3 DEF PublicBound
<1>6. PublicParts(key, m, u, e1, e2) = << a, d >>
  BY DEF PublicParts
<1>7. z = Ciphertext(<< a % Q(k), d % Q(k) >>, k, m, b)
  OBVIOUS
<1> HIDE DEF a, d, b
<1>8. IsResult(z, k, 2, << a, d >>, m, b)
  BY <1>2, <1>4, <1>5, <1>7, ResultOfTwo
<1> QED
  BY <1>6, <1>8 DEF b

(* A number in the centred range is what its residue is centred to. *)
LEMMA CenteredUnique ==
    ASSUME NEW q \in Nat \ {0}, NEW z \in Int, -q < 2 * z, 2 * z <= q
    PROVE  Centered(z % q, q) = z
<1>1. CASE z >= 0
  <2>1. 0 <= z /\ z < q
    BY <1>1
  <2>2. z % q = z
    BY <2>1, OwnRemainder
  <2> QED
    BY <2>2 DEF Centered
<1>2. CASE z < 0
  <2> DEFINE r == z + q
  <2>1. r \in Int /\ 0 <= r /\ r < q /\ z = (-1) * q + r /\ -1 \in Int /\ 2 * r > q /\ r - q = z
    BY <1>2
  <2> HIDE DEF r
  <2>2. z % q = r
    BY ONLY q \in Nat \ {0}, z \in Int, <2>1, RemainderUnique
  <2> QED
    BY <2>1, <2>2 DEF Centered
<1> QED
  BY <1>1, <1>2

(* Products of centred numbers. *)
LEMMA ProductSize ==
    ASSUME NEW a \in Int, NEW b \in Int, NEW q \in Nat, -q <= 2 * a, 2 * a <= q, -q <= 2 * b, 2 * b <= q
    PROVE  -(q * q) <= 4 * (a * b) /\ 4 * (a * b) <= q * q /\ a * b \in Int /\ q * q \in Int
<1>1. q - 2 * a \in Nat /\ q + 2 * a \in Nat /\ q - 2 * b \in Nat /\ q + 2 * b \in Nat
  OBVIOUS
<1>2. /\ (q - 2 * a) * (q + 2 * b) >= 0 /\ (q + 2 * a) * (q - 2 * b) >= 0
      /\ (q - 2 * a) * (q - 2 * b) >= 0 /\ (q + 2 * a) * (q + 2 * b) >= 0
  BY ONLY <1>1
<1>3. /\ (q - 2 * a) * (q + 2 * b) + (q + 2 * a) * (q - 2 * b) = 2 * (q * q) - 8 * (a * b)
      /\ (q - 2 * a) * (q - 2 * b) + (q + 2 * a) * (q + 2 * b) = 2 * (q * q) + 8 * (a * b)
  BY ONLY a \in Int, b \in Int, q \in Nat
<1>4. /\ (q - 2 * a) * (q + 2 * b) \in Int /\ (q + 2 * a) * (q - 2 * b) \in Int
      /\ (q - 2 * a) * (q - 2 * b) \in Int /\ (q + 2 * a) * (q + 2 * b) \in Int
      /\ a * b \in Int /\ q * q \in Int
  BY ONLY a \in Int, b \in Int, q \in Nat
<1> QED
  BY ONLY <1>2, <1>3, <1>4

(* Rounded is the nearest integer. *)
LEMMA RoundedIs ==
    ASSUME NEW x \in Int, NEW t \in Nat, NEW q \in Nat \ {0}, NEW r, r = Rounded(x, t, q)
    PROVE  /\ r \in Int /\ q * r \in Int /\ t * x \in Int
           /\ -q <= 2 * (q * r - t * x) /\ 2 * (q * r - t * x) <= q
<1> DEFINE y == 2 * t * x + q
           p == 2 * q
<1>1. r = y \div p
  BY DEF Rounded
<1>2. y \in Int /\ p \in Nat \ {0} /\ y = 2 * (t * x) + q /\ t * x \in Int
  OBVIOUS
<1> HIDE DEF y
<1>3. y % p \in Int /\ r \in Int /\ 0 <= y % p /\ y % p < p /\ y = r * p + (y % p)
  BY ONLY <1>1, <1>2, Remainder
<1>4. r * p = 2 * (q * r) /\ q * r \in Int
  BY <1>3
<1> QED
  BY <1>2, <1>3, <1>4

-----------------------------------------------------------------------------
(* Products of polynomials of which one has two coefficients *)

LowProducts(X, n, y1) == [j \in 1 .. n + 1 |-> IF j <= n THEN X[j] * y1 ELSE 0]

HighProducts(X, n, y2) == [j \in 1 .. n + 1 |-> IF j >= 2 THEN X[j - 1] * y2 ELSE 0]

Convolved(X, n, y1, y2) ==
    [j \in 1 .. n + 1 |-> LowProducts(X, n, y1)[j] + HighProducts(X, n, y2)[j]]

LEMMA LowTypes ==
    ASSUME NEW n \in Nat, NEW X, Ints(X, n), NEW y1 \in Int
    PROVE  \A j \in 1 .. n + 1 :
              /\ LowProducts(X, n, y1)[j] = IF j <= n THEN X[j] * y1 ELSE 0
              /\ LowProducts(X, n, y1)[j] \in Int
<1> TAKE j \in 1 .. n + 1
<1>1. LowProducts(X, n, y1)[j] = IF j <= n THEN X[j] * y1 ELSE 0
  BY DEF LowProducts
<1>2. CASE j <= n
  <2>1. X[j] \in Int
    BY <1>2 DEF Ints
  <2>2. X[j] * y1 \in Int
    BY <2>1
  <2> QED
    BY <1>1, <1>2, <2>2
<1>3. CASE ~(j <= n)
  BY <1>1, <1>3
<1> QED
  BY <1>2, <1>3

LEMMA HighTypes ==
    ASSUME NEW n \in Nat, NEW X, Ints(X, n), NEW y2 \in Int
    PROVE  \A j \in 1 .. n + 1 :
              /\ HighProducts(X, n, y2)[j] = IF j >= 2 THEN X[j - 1] * y2 ELSE 0
              /\ HighProducts(X, n, y2)[j] \in Int
<1> TAKE j \in 1 .. n + 1
<1>1. HighProducts(X, n, y2)[j] = IF j >= 2 THEN X[j - 1] * y2 ELSE 0
  BY DEF HighProducts
<1>2. CASE j >= 2
  <2>1. j - 1 \in 1 .. n
    BY <1>2
  <2>2. X[j - 1] \in Int
    BY <2>1 DEF Ints
  <2>3. X[j - 1] * y2 \in Int
    BY <2>2
  <2> QED
    BY <1>1, <1>2, <2>3
<1>3. CASE ~(j >= 2)
  BY <1>1, <1>3
<1> QED
  BY <1>2, <1>3

LEMMA ConvolvedTypes ==
    ASSUME NEW n \in Nat, NEW X, Ints(X, n), NEW y1 \in Int, NEW y2 \in Int
    PROVE  \A j \in 1 .. n + 1 :
              /\ LowProducts(X, n, y1)[j] \in Int /\ HighProducts(X, n, y2)[j] \in Int
              /\ Convolved(X, n, y1, y2)[j] = LowProducts(X, n, y1)[j] + HighProducts(X, n, y2)[j]
              /\ Convolved(X, n, y1, y2)[j] \in Int
<1> TAKE j \in 1 .. n + 1
<1>1. LowProducts(X, n, y1)[j] \in Int
  BY LowTypes
<1>2. HighProducts(X, n, y2)[j] \in Int
  BY HighTypes
<1>3. Convolved(X, n, y1, y2)[j] = LowProducts(X, n, y1)[j] + HighProducts(X, n, y2)[j]
  BY DEF Convolved
<1> QED
  BY <1>1, <1>2, <1>3

LEMMA EvalLow ==
    ASSUME NEW s \in Int, NEW n \in Nat, NEW X, Ints(X, n), NEW y1 \in Int
    PROVE  Eval(LowProducts(X, n, y1), n + 1, s) = y1 * Eval(X, n, s)
<1> DEFINE Z == LowProducts(X, n, y1)
<1>1. \A j \in 1 .. n + 1 : Z[j] = (IF j <= n THEN X[j] * y1 ELSE 0) /\ Z[j] \in Int
  BY LowTypes
<1> HIDE DEF Z
<1>2. Ints(Z, n + 1)
  BY <1>1 DEF Ints
<1>3. Eval(Z, n, s) \in Int /\ Eval(Z, n + 1, s) = Eval(Z, n, s) + Z[n + 1] * Powered(s, n)
  BY <1>2, EvalNext
<1>4. Z[n + 1] = 0
  BY <1>1
<1>5. Powered(s, n) \in Int
  BY PoweredNext
<1>6. Eval(Z, n + 1, s) = Eval(Z, n, s)
  <2> DEFINE p == Powered(s, n)
  <2> HIDE DEF p
  <2>1. 0 * p = 0
    BY <1>5 DEF p
  <2> QED
    BY <1>3, <1>4, <2>1 DEF p
<1>7. \A j \in 1 .. n : Z[j] = y1 * X[j]
  <2> TAKE j \in 1 .. n
  <2>1. Z[j] = X[j] * y1 /\ X[j] \in Int
    BY <1>1 DEF Ints
  <2> QED
    BY <2>1
<1>8. Eval(Z, n, s) = y1 * Eval(X, n, s)
  BY <1>7, EvalScaled
<1> QED
  BY <1>6, <1>8 DEF Z

LEMMA EvalHigh ==
    ASSUME NEW s \in Int, NEW n \in Nat, NEW X, Ints(X, n), NEW y2 \in Int
    PROVE  Eval(HighProducts(X, n, y2), n + 1, s) = (s * y2) * Eval(X, n, s)
<1> DEFINE Z == HighProducts(X, n, y2)
           a == s * y2
           S == {m \in 0 .. n : Eval(Z, m + 1, s) = a * Eval(X, m, s)}
<1>1. \A j \in 1 .. n + 1 : Z[j] = (IF j >= 2 THEN X[j - 1] * y2 ELSE 0) /\ Z[j] \in Int
  BY HighTypes
<1>2. a \in Int
  OBVIOUS
<1> HIDE DEF Z
<1>3. \A m \in 0 .. n : Ints(Z, m + 1)
  BY <1>1 DEF Ints
<1>4. 0 \in S
  <2>1. Ints(Z, 0 + 1) /\ 0 \in Nat
    BY <1>3
  <2>2. Eval(Z, 0, s) = 0 /\ Eval(Z, 0 + 1, s) = Eval(Z, 0, s) + Z[0 + 1] * Powered(s, 0)
    BY <2>1, EvalNext
  <2>3. Z[0 + 1] = 0
    <3>1. 0 + 1 \in 1 .. n + 1 /\ ~(0 + 1 >= 2)
      OBVIOUS
    <3> QED
      BY <1>1, <3>1
  <2>6. Powered(s, 0) = 1
    BY PoweredNext
  <2>4. Eval(X, 0, s) = 0
    BY SumOfNothing DEF Eval
  <2>5. 0 + 0 * 1 = 0 /\ a * 0 = 0
    BY <1>2
  <2> QED
    BY <2>2, <2>3, <2>4, <2>5, <2>6
<1>5. ASSUME NEW m \in 0 .. n - 1, m \in S PROVE m + 1 \in S
  <2> DEFINE p == Powered(s, m)
             e == Eval(X, m, s)
             x == X[m + 1]
  <2>1. m + 1 \in 0 .. n /\ m + 1 \in Nat /\ m \in Nat /\ m + 1 \in 1 .. n
        /\ (m + 1) + 1 \in 1 .. n + 1 /\ (m + 1) + 1 >= 2 /\ ((m + 1) + 1) - 1 = m + 1
    OBVIOUS
  <2>2. Eval(Z, (m + 1) + 1, s) = Eval(Z, m + 1, s) + Z[(m + 1) + 1] * Powered(s, m + 1)
    BY <1>3, <2>1, EvalNext
  <2>3. Z[(m + 1) + 1] = x * y2
    BY <1>1, <2>1
  <2>4. Powered(s, m + 1) = s * p /\ p \in Int
    BY <2>1, PoweredNext
  <2>5. Ints(X, m + 1)
    BY <2>1 DEF Ints
  <2>6. Eval(X, m + 1, s) = e + x * p /\ e \in Int
    BY <2>1, <2>5, EvalNext
  <2>7. x \in Int
    BY <2>1 DEF Ints
  <2>8. Eval(Z, m + 1, s) = a * e
    BY <1>5
  <2> HIDE DEF p, e, x
  <2>9. a * e + (x * y2) * (s * p) = a * (e + x * p)
    BY ONLY s \in Int, y2 \in Int, <2>4, <2>6, <2>7 DEF a
  <2> QED
    BY <2>1, <2>2, <2>3, <2>4, <2>6, <2>8, <2>9
<1> HIDE DEF S
<1>6. \A m \in 0 .. n : m \in S
  BY <1>4, <1>5, InductionUpTo
<1> QED
  BY <1>6 DEF S, Z

LEMMA EvalConvolved ==
    ASSUME NEW s \in Int, NEW n \in Nat, NEW X, Ints(X, n), NEW y1 \in Int, NEW y2 \in Int
    PROVE  /\ Ints(Convolved(X, n, y1, y2), n + 1) /\ Eval(X, n, s) \in Int
           /\ Eval(Convolved(X, n, y1, y2), n + 1, s) = Eval(X, n, s) * (y1 + y2 * s)
<1> DEFINE L == LowProducts(X, n, y1)
           H == HighProducts(X, n, y2)
           Z == Convolved(X, n, y1, y2)
           E == Eval(X, n, s)
<1>1. \A j \in 1 .. n + 1 : L[j] \in Int /\ H[j] \in Int /\ Z[j] \in Int /\ Z[j] = L[j] + H[j]
  BY ConvolvedTypes
<1>2. Eval(L, n + 1, s) = y1 * E /\ Eval(H, n + 1, s) = (s * y2) * E
  BY EvalLow, EvalHigh, ZenonT(60)
<1>3. E \in Int
  BY EvalSum
<1> HIDE DEF L, H, Z, E
<1>4. Ints(L, n + 1) /\ Ints(H, n + 1) /\ Ints(Z, n + 1) /\ n + 1 \in Nat
  BY <1>1 DEF Ints
<1>5. Eval(Z, n + 1, s) = Eval(L, n + 1, s) + Eval(H, n + 1, s)
  BY <1>1, <1>4, EvalPlus
<1>6. y1 * E + (s * y2) * E = E * (y1 + y2 * s)
  BY ONLY <1>3, s \in Int, y1 \in Int, y2 \in Int
<1> QED
  BY <1>2, <1>3, <1>4, <1>5, <1>6 DEF Z, E

CenteredParts(x) == [i \in 1 .. Len(x.c) |-> Centered(x.c[i], Q(x.level))]

(* The parts of a product before they are scaled, and after. *)
Products(x, y) == Convolved(CenteredParts(x), Len(x.c), CenteredParts(y)[1], CenteredParts(y)[2])

ProductParts(x, y) == [j \in 1 .. Len(x.c) + 1 |-> Rounded(Products(x, y)[j], par.t, Q(x.level))]

ProductBound(x, y) ==
    par.t * ((x.bound + 1) * (1 + Weight(Len(y.c))) + (y.bound + 1) * (1 + Weight(Len(x.c))))
        + (par.t * (x.bound + 1) * (y.bound + 1)) \div Q(x.level) + Weight(Len(x.c) + 1) + 3

LEMMA CenteredPartsIs ==
    ASSUME IsBuilt, NEW x, CipherTypes(x), NEW q, q = Q(x.level), NEW X, X = CenteredParts(x)
    PROVE  /\ Ints(X, Len(x.c))
           /\ \A i \in 1 .. Len(x.c) : /\ X[i] = Centered(x.c[i], q) /\ X[i] \in Int
                                       /\ Same(X[i], x.c[i], q) /\ -q < 2 * X[i] /\ 2 * X[i] <= q
<1>1. q \in Nat \ {0} /\ \A i \in 1 .. Len(x.c) : x.c[i] \in 0 .. q - 1
  BY CipherFacts
<1>2. ASSUME NEW i \in 1 .. Len(x.c)
      PROVE  /\ X[i] = Centered(x.c[i], q) /\ X[i] \in Int
             /\ Same(X[i], x.c[i], q) /\ -q < 2 * X[i] /\ 2 * X[i] <= q
  <2>1. X[i] = Centered(x.c[i], q)
    BY DEF CenteredParts
  <2>2. x.c[i] \in 0 .. q - 1
    BY <1>1
  <2> QED
    BY <1>1, <2>1, <2>2, CenteredSame
<1> QED
  BY <1>2 DEF Ints

(* The moduli for products of a level have room for sums of two products.  *)
HasRoom(k) == 2 * Q(k) * Q(k) < ProductOf(par.mul[k])

LEMMA ProductModulus ==
    ASSUME IsBuilt, NEW k \in Levels
    PROVE  /\ ProductOf(par.mul[k]) \in Nat \ {0}
           /\ Len(par.moduli) + 3 <= Headroom => HasRoom(k)
<1>1. PICK x : ForProducts(par.mul[k], ModuliAt(k), x, par.moduli, Len(par.moduli) - k)
  BY LevelForProducts
<1>2. /\ IsContext(par.mul[k]) /\ ProductOf(par.mul[k]) = ProductOf(ModuliAt(k)) * ProductOf(x)
      /\ x \in Seq(Nat \ {0})
  BY <1>1 DEF ForProducts
<1>3. ProductOf(par.mul[k]) \in Nat \ {0}
  BY <1>2, ContextTypes
<1>4. ASSUME Len(par.moduli) + 3 <= Headroom PROVE HasRoom(k)
  <2> DEFINE q == Q(k)
             p == ProductOf(x)
  <2>1. 2 * q < p
    BY <1>1, <1>4, RoomAtLevel
  <2>2. q \in Nat \ {0} /\ p \in Nat \ {0}
    BY <1>2, LevelFacts, ProductOfPositive
  <2>3. ProductOf(par.mul[k]) = q * p
    BY <1>2 DEF Q
  <2> HIDE DEF q, p
  <2>4. 2 * q * q < q * p
    <3>1. p - 2 * q \in Nat \ {0}
      BY <2>1, <2>2
    <3>2. q * (p - 2 * q) > 0
      BY ONLY <2>2, <3>1
    <3>3. q * (p - 2 * q) = q * p - 2 * q * q /\ q * p \in Int /\ 2 * q * q \in Int
      BY ONLY <2>2
    <3> QED
      BY ONLY <3>2, <3>3
  <2> QED
    BY <2>3, <2>4 DEF HasRoom, q
<1> QED
  BY <1>3, <1>4

(* A product of two numbers that were extended, modulo a basis with room.  *)
LEMMA ExtendedPart ==
    ASSUME IsBuilt, NEW x, CipherTypes(x), NEW i \in 1 .. Len(x.c), NEW q, q = Q(x.level),
           NEW big \in Nat \ {0}, NEW X, X = CenteredParts(x),
           NEW e, e = Centered(Extended(x.c[i], q, big), big)
    PROVE  e \in Int /\ (q < big => e = X[i])
<1> DEFINE z == X[i]
<1>1. X[i] = Centered(x.c[i], q) /\ z \in Int /\ -q < 2 * z /\ 2 * z <= q /\ q \in Nat \ {0}
  BY CenteredPartsIs, CipherFacts
<1>2. e = Centered(z % big, big)
  BY <1>1 DEF Extended
<1> HIDE DEF z
<1>3. z % big \in 0 .. big - 1
  <2>1. z % big \in Int /\ 0 <= z % big /\ z % big < big
    BY ONLY <1>1, big \in Nat \ {0}, Remainder
  <2> QED
    BY <2>1
<1>4. e \in Int
  BY <1>2, <1>3, CenteredSame
<1>5. ASSUME q < big PROVE e = z
  <2>1. -big < 2 * z /\ 2 * z <= big
    BY <1>1, <1>5
  <2> QED
    BY <1>1, <1>2, <2>1, CenteredUnique
<1> QED
  BY <1>4, <1>5 DEF z

(* The sum of products that is a part, of one operand with n parts and one *)
(* with two.                                                               *)
ConvolutionTerm(f, a, n, y1, y2, j, big) ==
    \A i \in 1 .. n : f[i] = IF i = j THEN (a[i] * y1) % big
                             ELSE IF i = j - 1 THEN (a[i] * y2) % big ELSE 0

LEMMA ConvolutionSum ==
    ASSUME NEW n \in Nat, NEW a, Ints(a, n), NEW y1 \in Int, NEW y2 \in Int, NEW big \in Nat \ {0},
           NEW j \in 1 .. n + 1, NEW f, ConvolutionTerm(f, a, n, y1, y2, j, big)
    PROVE  SumOf(f, n) \in Int /\ Same(SumOf(f, n), Convolved(a, n, y1, y2)[j], big)
<1> DEFINE lo(i) == (a[i] * y1) % big
           hi(i) == (a[i] * y2) % big
           g == [i \in 1 .. n |-> IF i = j THEN lo(i) ELSE 0]
           h == [i \in 1 .. n |-> IF i = j - 1 THEN hi(i) ELSE 0]
           L == LowProducts(a, n, y1)
           H == HighProducts(a, n, y2)
<1>1. ASSUME NEW i \in 1 .. n
      PROVE  lo(i) \in Int /\ hi(i) \in Int /\ Same(lo(i), a[i] * y1, big) /\ Same(hi(i), a[i] * y2, big)
  <2> DEFINE u == a[i] * y1
             v == a[i] * y2
  <2>1. a[i] \in Int
    BY DEF Ints
  <2>2. u \in Int /\ v \in Int
    BY <2>1
  <2> HIDE DEF u, v
  <2>3. Same(u % big, u, big) /\ Same(v % big, v, big) /\ u % big \in Int /\ v % big \in Int
    BY <2>2, SameMod DEF Same
  <2> QED
    BY <2>3 DEF u, v
<1> HIDE DEF lo, hi
<1>2. \A i \in 1 .. n : /\ g[i] = (IF i = j THEN lo(i) ELSE 0) /\ g[i] \in Int
                        /\ h[i] = (IF i = j - 1 THEN hi(i) ELSE 0) /\ h[i] \in Int
  BY <1>1
<1>3. \A i \in 1 .. n : f[i] = g[i] + h[i] /\ f[i] \in Int
  <2> TAKE i \in 1 .. n
  <2>1. f[i] = IF i = j THEN lo(i) ELSE IF i = j - 1 THEN hi(i) ELSE 0
    BY DEF ConvolutionTerm, lo, hi
  <2> QED
    BY <1>1, <1>2, <2>1
<1> HIDE DEF g, h
<1>4. IsFiniteSet(1 .. n) /\ Terms(f, 1 .. n) /\ Terms(g, 1 .. n) /\ Terms(h, 1 .. n)
      /\ SumOf(f, n) = SumFunctionOnSet(f, 1 .. n) /\ SumOf(f, n) \in Int
  <2>1. Terms(f, 1 .. n) /\ SumOf(f, n) = SumFunctionOnSet(f, 1 .. n) /\ SumOf(f, n) \in Int
    BY <1>3, SumOfIsSum, SumOfInt
  <2> QED
    BY <1>2, <2>1 DEF Terms
<1>5. SumOf(f, n) = SumFunctionOnSet(g, 1 .. n) + SumFunctionOnSet(h, 1 .. n)
  BY <1>3, <1>4, SumPlus
<1>6. Same(SumFunctionOnSet(g, 1 .. n), L[j], big)
  <2>1. CASE j <= n
    <3>1. j \in 1 .. n /\ \A i \in 1 .. n : i # j => g[i] = 0
      BY <1>2, <2>1
    <3>2. SumFunctionOnSet(g, 1 .. n) = g[j]
      BY <1>4, <3>1, SumOnly
    <3>3. g[j] = lo(j) /\ L[j] = a[j] * y1
      BY <1>2, <2>1, <3>1, LowTypes
    <3> QED
      BY <1>1, <3>1, <3>2, <3>3
  <2>2. CASE ~(j <= n)
    <3>1. \A i \in 1 .. n : g[i] = 0
      BY <1>2, <2>2
    <3>2. SumFunctionOnSet(g, 1 .. n) = 0
      BY <1>4, <3>1, SumZero
    <3>3. L[j] = 0
      BY <2>2, LowTypes
    <3> QED
      BY <3>2, <3>3, SameReflexive
  <2> QED
    BY <2>1, <2>2
<1>7. Same(SumFunctionOnSet(h, 1 .. n), H[j], big)
  <2>1. CASE j >= 2
    <3>1. j - 1 \in 1 .. n /\ \A i \in 1 .. n : i # j - 1 => h[i] = 0
      BY <1>2, <2>1
    <3>2. SumFunctionOnSet(h, 1 .. n) = h[j - 1]
      BY <1>4, <3>1, SumOnly
    <3>3. h[j - 1] = hi(j - 1) /\ H[j] = a[j - 1] * y2
      BY <1>2, <2>1, <3>1, HighTypes
    <3> QED
      BY <1>1, <3>1, <3>2, <3>3
  <2>2. CASE ~(j >= 2)
    <3>1. \A i \in 1 .. n : h[i] = 0
      BY <1>2, <2>2
    <3>2. SumFunctionOnSet(h, 1 .. n) = 0
      BY <1>4, <3>1, SumZero
    <3>3. H[j] = 0
      BY <2>2, HighTypes
    <3> QED
      BY <3>2, <3>3, SameReflexive
  <2> QED
    BY <2>1, <2>2
<1>8. Convolved(a, n, y1, y2)[j] = L[j] + H[j]
  BY ConvolvedTypes
<1> HIDE DEF L, H
<1> QED
  BY <1>4, <1>5, <1>6, <1>7, <1>8, SameAdd

LEMMA ProductsSmall ==
    ASSUME IsBuilt, NEW x, CipherTypes(x), NEW y, CipherTypes(y), x.level = y.level, Len(y.c) = 2,
           NEW q, q = Q(x.level), NEW j \in 1 .. Len(x.c) + 1, NEW Z, Z = Products(x, y)
    PROVE  Z[j] \in Int /\ -(q * q) <= 2 * Z[j] /\ 2 * Z[j] <= q * q
<1> DEFINE n == Len(x.c)
           X == CenteredParts(x)
           Y == CenteredParts(y)
           L == LowProducts(X, n, Y[1])
           H == HighProducts(X, n, Y[2])
<1>1. n \in Nat /\ q \in Nat /\ 1 \in 1 .. Len(y.c) /\ 2 \in 1 .. Len(y.c)
  BY CipherFacts
<1>2. Ints(X, n) /\ \A i \in 1 .. n : X[i] \in Int /\ -q <= 2 * X[i] /\ 2 * X[i] <= q
  <2>1. Ints(X, n) /\ \A i \in 1 .. n : X[i] \in Int /\ -q < 2 * X[i] /\ 2 * X[i] <= q
    BY CenteredPartsIs
  <2> QED
    BY <1>1, <2>1
<1>3. \A i \in 1 .. 2 : Y[i] \in Int /\ -q <= 2 * Y[i] /\ 2 * Y[i] <= q
  <2>1. \A i \in 1 .. 2 : Y[i] \in Int /\ -q < 2 * Y[i] /\ 2 * Y[i] <= q
    BY CenteredPartsIs
  <2> QED
    BY <1>1, <2>1
<1> HIDE DEF X, Y
<1> DEFINE y1 == Y[1]
           y2 == Y[2]
<1>31. y1 \in Int /\ -q <= 2 * y1 /\ 2 * y1 <= q /\ y2 \in Int /\ -q <= 2 * y2 /\ 2 * y2 <= q
  BY <1>3
<1>32. Z = Convolved(X, n, y1, y2) /\ L = LowProducts(X, n, y1) /\ H = HighProducts(X, n, y2)
  BY DEF Products, X, Y
<1> HIDE DEF y1, y2
<1>4. Z[j] = L[j] + H[j]
  BY <1>1, <1>2, <1>31, <1>32, ConvolvedTypes, SMTT(60)
<1>5. /\ L[j] = IF j <= n THEN X[j] * y1 ELSE 0
      /\ H[j] = IF j >= 2 THEN X[j - 1] * y2 ELSE 0
      /\ L[j] \in Int /\ H[j] \in Int
  <2>1. L[j] \in Int /\ L[j] = IF j <= n THEN X[j] * y1 ELSE 0
    BY <1>1, <1>2, <1>31, <1>32, LowTypes, SMTT(60)
  <2>2. H[j] \in Int /\ H[j] = IF j >= 2 THEN X[j - 1] * y2 ELSE 0
    BY <1>1, <1>2, <1>31, <1>32, HighTypes
  <2> QED
    BY <2>1, <2>2
<1>6. q * q \in Nat
  BY <1>1
<1> HIDE DEF L, H, n
<1>7. -(q * q) <= 4 * L[j] /\ 4 * L[j] <= q * q
  <2>1. CASE j <= n
    <3>1. X[j] \in Int /\ -q <= 2 * X[j] /\ 2 * X[j] <= q
      BY <1>1, <1>2, <2>1
    <3>2. L[j] = X[j] * y1
      BY <1>5, <2>1
    <3>3. -(q * q) <= 4 * (X[j] * y1) /\ 4 * (X[j] * y1) <= q * q
      BY ONLY <1>1, <1>31, <3>1, ProductSize
    <3> QED
      BY <3>2, <3>3
  <2>2. CASE ~(j <= n)
    BY <1>5, <1>6, <2>2
  <2> QED
    BY <2>1, <2>2
<1>8. -(q * q) <= 4 * H[j] /\ 4 * H[j] <= q * q
  <2>1. CASE j >= 2
    <3>1. j - 1 \in 1 .. n
      BY <1>1, <2>1 DEF n
    <3>2. X[j - 1] \in Int /\ -q <= 2 * X[j - 1] /\ 2 * X[j - 1] <= q
      BY <1>2, <3>1
    <3>3. H[j] = X[j - 1] * y2
      BY <1>5, <2>1
    <3>4. -(q * q) <= 4 * (X[j - 1] * y2) /\ 4 * (X[j - 1] * y2) <= q * q
      BY ONLY <1>1, <1>31, <3>2, ProductSize
    <3> QED
      BY <3>3, <3>4
  <2>2. CASE ~(j >= 2)
    BY <1>5, <1>6, <2>2
  <2> QED
    BY <2>1, <2>2
<1>9. ASSUME NEW l \in Int, NEW h \in Int, NEW s \in Nat, -s <= 4 * l, 4 * l <= s, -s <= 4 * h, 4 * h <= s
      PROVE  l + h \in Int /\ -s <= 2 * (l + h) /\ 2 * (l + h) <= s
  BY <1>9
<1> QED
  BY <1>4, <1>5, <1>6, <1>7, <1>8, <1>9

LEMMA MultipliedIs ==
    ASSUME IsBuilt, sk \in Int, NEW x, CipherTypes(x), NEW y, CipherTypes(y), x.level = y.level,
           Len(y.c) = 2, NEW z, z = Multiplied(x, y)
    PROVE  \E v : /\ IsResult(z, x.level, Len(x.c) + 1, v, (x.want * y.want) % par.t, ProductBound(x, y))
                  /\ HasRoom(x.level) => \A j \in 1 .. Len(x.c) + 1 : v[j] = ProductParts(x, y)[j]
<1> DEFINE q == Q(x.level)
           big == ProductOf(par.mul[x.level])
           t == par.t
           k == x.level
           m == Len(x.c)
           n == m + Len(y.c) - 1
           Ext(p) == [i \in DOMAIN p |-> Extended(p[i], q, big)]
           Term(i, j) == IF j - i + 1 \in DOMAIN y.c
                         THEN (Centered(Ext(x.c)[i], big) * Centered(Ext(y.c)[j - i + 1], big)) % big
                         ELSE 0
           Part(j) == SumOf([i \in DOMAIN x.c |-> Term(i, j)], m) % big
           c == [j \in 1 .. n |-> Rounded(Centered(Part(j), big), t, q) % q]
           w == x.want * y.want
           b == t * ((x.bound + 1) * (1 + Weight(Len(y.c))) + (y.bound + 1) * (1 + Weight(m)))
                   + (t * (x.bound + 1) * (y.bound + 1)) \div q + Weight(n) + 3
<1>1. z = Ciphertext(c, k, w % t, b)
  BY DEF Multiplied
<1>2. /\ k \in Levels /\ m \in Nat \ {0} /\ m \in Nat /\ DOMAIN x.c = 1 .. m /\ DOMAIN y.c = 1 .. 2
      /\ q \in Nat \ {0} /\ w \in Int /\ x.bound \in Nat /\ y.bound \in Nat
  BY CipherFacts
<1>3. n = m + 1 /\ n \in Nat \ {0} /\ n \in Nat /\ 2 \in Nat
  BY <1>2
<1>4. t \in Nat \ {0} /\ big \in Nat \ {0}
  BY <1>2, BuiltTypes, ProductModulus
<1>5. b = ProductBound(x, y)
  BY <1>3 DEF ProductBound
<1>6. b \in Nat
  <2>1. Weight(m) \in Nat /\ Weight(2) \in Nat /\ Weight(n) \in Nat
    BY <1>2, <1>3, WeightIs
  <2>2. (t * (x.bound + 1) * (y.bound + 1)) \div q \in Nat
    <3> DEFINE u == t * (x.bound + 1) * (y.bound + 1)
    <3>1. u \in Nat
      <4>1. x.bound + 1 \in Nat /\ y.bound + 1 \in Nat /\ t \in Nat
        BY <1>2, <1>4
      <4>2. t * (x.bound + 1) \in Nat
        BY ONLY <4>1
      <4> QED
        BY ONLY <4>1, <4>2
    <3> HIDE DEF u
    <3>2. u \div q \in Nat
      BY <1>2, <3>1, SMTT(60)
    <3> QED
      BY <3>2 DEF u
  <2>3. (x.bound + 1) * (1 + Weight(2)) \in Nat /\ (y.bound + 1) * (1 + Weight(m)) \in Nat
    <3>1. x.bound + 1 \in Nat /\ y.bound + 1 \in Nat /\ 1 + Weight(2) \in Nat /\ 1 + Weight(m) \in Nat
      BY <1>2, <2>1, SMTT(60)
    <3> QED
      BY ONLY <3>1
  <2>4. t * ((x.bound + 1) * (1 + Weight(2)) + (y.bound + 1) * (1 + Weight(m))) \in Nat
    BY <1>4, <2>3
  <2> QED
    BY <2>1, <2>2, <2>4, SMTT(60)
<1> HIDE DEF w, b
<1> DEFINE a == [i \in 1 .. m |-> Centered(Extended(x.c[i], q, big), big)]
           y1 == Centered(Extended(y.c[1], q, big), big)
           y2 == Centered(Extended(y.c[2], q, big), big)
           X == CenteredParts(x)
           Y == CenteredParts(y)
<1>7. \A i \in 1 .. m : a[i] \in Int /\ (q < big => a[i] = X[i])
  <2> TAKE i \in 1 .. m
  <2>1. a[i] = Centered(Extended(x.c[i], q, big), big)
    OBVIOUS
  <2> HIDE DEF a, q, big, X
  <2> QED
    BY <1>4, <2>1, ExtendedPart DEF q, X
<1>8. y1 \in Int /\ y2 \in Int /\ (q < big => y1 = Y[1] /\ y2 = Y[2])
  <2>1. 1 \in 1 .. Len(y.c) /\ 2 \in 1 .. Len(y.c) /\ q = Q(y.level)
    BY <1>2
  <2>2. y1 = Centered(Extended(y.c[1], q, big), big) /\ y2 = Centered(Extended(y.c[2], q, big), big)
    OBVIOUS
  <2> HIDE DEF q, big, y1, y2
  <2>3. y1 \in Int /\ (q < big => y1 = CenteredParts(y)[1])
    BY <1>4, <2>1, <2>2, ExtendedPart
  <2>4. y2 \in Int /\ (q < big => y2 = CenteredParts(y)[2])
    BY <1>4, <2>1, <2>2, ExtendedPart
  <2> QED
    BY <2>3, <2>4
<1>9. \A i \in 1 .. m, j \in 1 .. n :
         Term(i, j) = IF i = j THEN (a[i] * y1) % big ELSE IF i = j - 1 THEN (a[i] * y2) % big ELSE 0
  <2> TAKE i \in 1 .. m, j \in 1 .. n
  <2>1. Centered(Ext(x.c)[i], big) = a[i]
    BY <1>2
  <2>2. Centered(Ext(y.c)[1], big) = y1 /\ Centered(Ext(y.c)[2], big) = y2
    <3>1. 1 \in DOMAIN y.c /\ 2 \in DOMAIN y.c
      BY <1>2
    <3> QED
      BY <3>1
  <2> HIDE DEF a, y1, y2, Ext, q, big
  <2>3. CASE i = j
    <3>1. j - i + 1 = 1 /\ j - i + 1 \in DOMAIN y.c
      BY <1>2, <1>3, <2>3
    <3> QED
      BY <2>1, <2>2, <2>3, <3>1
  <2>4. CASE i = j - 1
    <3>1. j - i + 1 = 2 /\ j - i + 1 \in DOMAIN y.c /\ i # j
      BY <1>2, <1>3, <2>4
    <3> QED
      BY <2>1, <2>2, <2>4, <3>1
  <2>5. CASE i # j /\ i # j - 1
    <3>1. j - i + 1 \notin DOMAIN y.c
      BY <1>2, <1>3, <2>5
    <3> QED
      BY <2>5, <3>1
  <2> QED
    BY <2>3, <2>4, <2>5
<1> DEFINE f(j) == [i \in DOMAIN x.c |-> Term(i, j)]
           Z == Convolved(a, m, y1, y2)
<1>10. \A j \in 1 .. n : ConvolutionTerm(f(j), a, m, y1, y2, j, big)
  <2> TAKE j \in 1 .. n
  <2>1. \A i \in 1 .. m : f(j)[i] = Term(i, j)
    BY <1>2
  <2> HIDE DEF f, Term, a, y1, y2
  <2> QED
    BY <1>9, <2>1, SMTT(60) DEF ConvolutionTerm
<1>11. \A j \in 1 .. n : Part(j) = SumOf(f(j), m) % big
  OBVIOUS
<1> HIDE DEF f, Term, a, y1, y2, Part
<1>12. Ints(a, m)
  BY <1>7 DEF Ints
<1> HIDE DEF q, big, t
<1>13. \A j \in 1 .. n : /\ Z[j] \in Int /\ Part(j) = Z[j] % big /\ Part(j) \in 0 .. big - 1
  <2> TAKE j \in 1 .. n
  <2>1. j \in 1 .. m + 1
    BY <1>3
  <2>2. SumOf(f(j), m) \in Int /\ Same(SumOf(f(j), m), Z[j], big)
    BY <1>2, <1>4, <1>8, <1>10, <1>12, <2>1, ConvolutionSum
  <2>3. Z[j] \in Int
    BY <2>2 DEF Same
  <2>4. SumOf(f(j), m) % big = Z[j] % big
    BY <1>4, <2>2, SameEqual
  <2> DEFINE u == Z[j]
  <2> HIDE DEF u
  <2>5. u % big \in Int /\ 0 <= u % big /\ u % big < big
    BY ONLY <1>4, <2>3, Remainder DEF u
  <2>6. u % big \in 0 .. big - 1
    BY <1>4, <2>5
  <2> QED
    BY <1>11, <2>3, <2>4, <2>6 DEF u
<1> DEFINE v == [j \in 1 .. n |-> Rounded(Centered(Part(j), big), t, q)]
<1>14. \A j \in 1 .. n : v[j] = Rounded(Centered(Part(j), big), t, q) /\ v[j] \in Int
  <2> TAKE j \in 1 .. n
  <2>1. Centered(Part(j), big) \in Int
    BY <1>4, <1>13, CenteredSame
  <2>2. t \in Nat
    BY <1>4
  <2>3. Rounded(Centered(Part(j), big), t, q) \in Int
    BY <1>2, <2>1, <2>2, RoundedIs
  <2> QED
    BY <2>3
<1>15. c = [j \in 1 .. n |-> v[j] % q]
  OBVIOUS
<1> HIDE DEF v, c
<1>16. IsResult(z, k, n, v, w % t, b)
  BY <1>1, <1>2, <1>3, <1>6, <1>14, <1>15, ResultIs DEF q, t
<1>17. ASSUME HasRoom(k) PROVE \A j \in 1 .. m + 1 : v[j] = ProductParts(x, y)[j]
  <2>1. 2 * q * q < big
    BY <1>17 DEF HasRoom, q, big
  <2>2. q * q \in Nat /\ q <= q * q /\ 2 * q * q = 2 * (q * q)
    BY ONLY <1>2
  <2>3. q < big /\ q * q < big
    BY ONLY <1>2, <1>4, <2>1, <2>2
  <2>4. y1 = Y[1] /\ y2 = Y[2] /\ \A i \in 1 .. m : a[i] = X[i]
    BY <1>7, <1>8, <2>3
  <2>5. a = X
    BY <2>4 DEF a, CenteredParts
  <2>6. Z = Products(x, y)
    BY <2>4, <2>5 DEF Products
  <2> HIDE DEF Z
  <2> TAKE j \in 1 .. m + 1
  <2>7. j \in 1 .. n
    BY <1>3
  <2>8. Z[j] \in Int /\ -(q * q) <= 2 * Z[j] /\ 2 * Z[j] <= q * q
    BY <2>6, ProductsSmall DEF q
  <2>9. -big < 2 * Z[j] /\ 2 * Z[j] <= big
    BY ONLY <1>4, <2>2, <2>3, <2>8
  <2>10. Centered(Part(j), big) = Z[j]
    BY <1>4, <1>13, <2>7, <2>8, <2>9, CenteredUnique
  <2>11. ProductParts(x, y)[j] = Rounded(Products(x, y)[j], t, q)
    BY DEF ProductParts, t, q
  <2> QED
    BY <1>14, <2>6, <2>7, <2>10, <2>11
<1> QED
  BY <1>3, <1>5, <1>16, <1>17, SMTT(60) DEF w, t

-----------------------------------------------------------------------------
(* The types of the keys and ciphertexts, as every step keeps them *)

OneCipher(x) == cts = << x >> /\ CipherTypes(x)

TwoCiphers(x, y) == cts = << x, y >> /\ CipherTypes(x) /\ CipherTypes(y) /\ Len(y.c) = 2

SchemeTypes ==
    /\ sk = NoParameters => pk = NoParameters /\ cts = << >>
    /\ sk # NoParameters => par # NoParameters /\ sk \in Int /\ par.variance >= 1
    /\ pk # NoParameters => KeyTypes(pk) /\ pk.level = 0
    /\ (cts = << >>) \/ (\E x : OneCipher(x)) \/ (\E x, y : TwoCiphers(x, y))

SchemeInv == ParametersInv /\ SchemeTypes

(* An encryption, and the result of an operation on the ciphertexts.       *)
SecretFresh(z, m, k, a, e) == z = Ciphertext(SecretEncrypted(m, k, a, e), k, m, Abs(e))

PublicFresh(z, m, k, u, e1, e2) ==
    /\ pk # NoParameters
    /\ z = Ciphertext(<< (u * KeyAt(k).c[1] + e1 + ToPoly(m, k)) % Q(k), (u * KeyAt(k).c[2] + e2) % Q(k) >>,
                      k, m, PublicBound(KeyAt(k), u, e1, e2))

Fresh(z) ==
    \E m \in 0 .. par.t - 1, k \in Levels :
        \/ \E a \in 0 .. Q(k) - 1, e \in Int : SecretFresh(z, m, k, a, e)
        \/ \E u \in Int \ {0}, e1 \in Int, e2 \in Int : PublicFresh(z, m, k, u, e1, e2)

ComputedOne(z, x) ==
    \/ x.level + 1 < Len(par.moduli) /\ z = SwitchedDown(x)
    \/ z = Negated(x)
    \/ \E m \in 1 .. par.t - 1 : z = PlainAdded(x, m) \/ z = PlainMultiplied(x, m)

ComputedTwo(z, x, y) ==
    /\ x.level = y.level
    /\ (Len(x.c) = Len(y.c) /\ (z = Added(x, y) \/ z = Subtracted(x, y))) \/ z = Multiplied(x, y)

ReadyInv == SchemeInv /\ sk # NoParameters

LEMMA ReadyFacts ==
    ASSUME ReadyInv
    PROVE  IsBuilt /\ sk \in Int /\ par.variance \in Nat \ {0} /\ par.t \in Nat /\ par.t >= 2 /\ 0 \in Levels
<1>1. sk \in Int /\ par # NoParameters /\ par.variance >= 1
  BY DEF ReadyInv, SchemeInv, SchemeTypes
<1>2. IsBuilt
  BY <1>1 DEF ReadyInv, SchemeInv, ParametersInv, IsBuilt
<1>3. par.variance \in Nat /\ par.t \in Nat \ {0} /\ par.t >= 2 /\ Len(par.moduli) \in Nat \ {0}
  BY <1>2, BuiltTypes
<1> QED
  BY <1>1, <1>2, <1>3 DEF Levels

LEMMA FreshTypes ==
    ASSUME ReadyInv, NEW z, Fresh(z)
    PROVE  CipherTypes(z) /\ Len(z.c) = 2
<1>1. IsBuilt /\ sk \in Int
  BY ReadyFacts
<1>2. PICK m \in 0 .. par.t - 1, k \in Levels :
          \/ \E a \in 0 .. Q(k) - 1, e \in Int : SecretFresh(z, m, k, a, e)
          \/ \E u \in Int \ {0}, e1 \in Int, e2 \in Int : PublicFresh(z, m, k, u, e1, e2)
  BY DEF Fresh
<1>3. ASSUME NEW a \in 0 .. Q(k) - 1, NEW e \in Int, SecretFresh(z, m, k, a, e)
      PROVE  CipherTypes(z) /\ Len(z.c) = 2
  <2>1. IsResult(z, k, 2, << e - a * sk + ToPoly(m, k), a >>, m, Abs(e))
    BY <1>1, <1>3, SecretEncryptedIs DEF SecretFresh
  <2> QED
    BY <2>1 DEF IsResult
<1>4. ASSUME NEW u \in Int \ {0}, NEW e1 \in Int, NEW e2 \in Int, PublicFresh(z, m, k, u, e1, e2)
      PROVE  CipherTypes(z) /\ Len(z.c) = 2
  <2>1. KeyTypes(pk) /\ pk.level = 0
    BY <1>4 DEF PublicFresh, ReadyInv, SchemeInv, SchemeTypes
  <2>2. PICK g : KeysDown(g, k)
    BY <1>1, <2>1, KeysDownExist
  <2> DEFINE key == KeyAt(k)
  <2>3. KeyTypes(key) /\ key.level = k
    <3>1. k \in 0 .. k
      BY DEF Levels
    <3> QED
      BY <2>2, <3>1 DEF KeysDown
  <2>4. z = Ciphertext(<< (u * key.c[1] + e1 + ToPoly(m, k)) % Q(k), (u * key.c[2] + e2) % Q(k) >>,
                       k, m, PublicBound(key, u, e1, e2))
    BY <1>4 DEF PublicFresh
  <2> HIDE DEF key
  <2>5. IsResult(z, k, 2, PublicParts(key, m, u, e1, e2), m, PublicBound(key, u, e1, e2))
    BY <1>1, <2>3, <2>4, PublicEncryptedIs
  <2> QED
    BY <2>5 DEF IsResult
<1> QED
  BY <1>2, <1>3, <1>4

LEMMA ComputedOneTypes ==
    ASSUME ReadyInv, NEW x, CipherTypes(x), NEW z, ComputedOne(z, x)
    PROVE  CipherTypes(z)
<1>1. IsBuilt /\ sk \in Int
  BY ReadyFacts
<1>2. CASE x.level + 1 < Len(par.moduli) /\ z = SwitchedDown(x)
  <2> DEFINE p == LastModulus(x.level)
             b == (x.bound \div p) + Weight(Len(x.c)) + 2
  <2>1. p = LastModulus(x.level)
    OBVIOUS
  <2>2. IsResult(z, x.level + 1, Len(x.c), SwitchedParts(x, p), x.want, b)
    BY <1>1, <1>2, <2>1, SwitchedDownIs
  <2> QED
    BY <2>2 DEF IsResult
<1>3. CASE z = Negated(x)
  <2>1. IsResult(z, x.level, Len(x.c), MultipleParts(x, -1), (0 - x.want) % par.t, x.bound + 1)
    BY <1>1, <1>3, NegatedIs
  <2> QED
    BY <2>1 DEF IsResult
<1>4. ASSUME NEW m \in 1 .. par.t - 1, z = PlainAdded(x, m) \/ z = PlainMultiplied(x, m)
      PROVE  CipherTypes(z)
  <2>1. m \in 0 .. par.t - 1 /\ m \in Nat
    OBVIOUS
  <2>2. CASE z = PlainAdded(x, m)
    <3>1. IsResult(z, x.level, Len(x.c), AddedParts(x, ToPoly(m, x.level)), (x.want + m) % par.t, x.bound + 1)
      BY <1>1, <2>1, <2>2, PlainAddedIs
    <3> QED
      BY <3>1 DEF IsResult
  <2>3. CASE z = PlainMultiplied(x, m)
    <3>1. IsResult(z, x.level, Len(x.c), MultipleParts(x, m), (x.want * m) % par.t, m * (x.bound + 1) + 1)
      BY <1>1, <2>1, <2>3, PlainMultipliedIs
    <3> QED
      BY <3>1 DEF IsResult
  <2> QED
    BY <1>4, <2>2, <2>3
<1> QED
  BY <1>2, <1>3, <1>4 DEF ComputedOne

LEMMA ComputedTwoTypes ==
    ASSUME ReadyInv, NEW x, CipherTypes(x), NEW y, CipherTypes(y), Len(y.c) = 2,
           NEW z, ComputedTwo(z, x, y)
    PROVE  CipherTypes(z)
<1>1. IsBuilt /\ sk \in Int /\ x.level = y.level
  BY ReadyFacts DEF ComputedTwo
<1>2. CASE Len(x.c) = Len(y.c) /\ z = Added(x, y)
  <2>1. IsResult(z, x.level, Len(x.c), SumParts(x, y), (x.want + y.want) % par.t, x.bound + y.bound + 1)
    BY <1>1, <1>2, AddedIs
  <2> QED
    BY <2>1 DEF IsResult
<1>3. CASE Len(x.c) = Len(y.c) /\ z = Subtracted(x, y)
  <2>1. IsResult(z, x.level, Len(x.c), DifferenceParts(x, y), (x.want - y.want) % par.t, x.bound + y.bound + 1)
    BY <1>1, <1>3, SubtractedIs
  <2> QED
    BY <2>1 DEF IsResult
<1>4. CASE z = Multiplied(x, y)
  <2>1. PICK v : IsResult(z, x.level, Len(x.c) + 1, v, (x.want * y.want) % par.t, ProductBound(x, y))
    BY <1>1, <1>4, MultipliedIs
  <2> QED
    BY <2>1 DEF IsResult
<1> QED
  BY <1>2, <1>3, <1>4 DEF ComputedTwo

(* A first public key. *)
FirstKey(z) == \E a \in 0 .. Q(0) - 1, e \in Int : SecretFresh(z, 0, 0, a, e)

LEMMA FirstKeyTypes ==
    ASSUME ReadyInv, NEW z, FirstKey(z)
    PROVE  KeyTypes(z) /\ z.level = 0
<1>1. IsBuilt /\ sk \in Int /\ 0 \in Levels /\ 0 \in 0 .. par.t - 1
  BY ReadyFacts
<1>2. PICK a \in 0 .. Q(0) - 1, e \in Int : SecretFresh(z, 0, 0, a, e)
  BY DEF FirstKey
<1>3. IsResult(z, 0, 2, << e - a * sk + ToPoly(0, 0), a >>, 0, Abs(e))
  BY <1>1, <1>2, SecretEncryptedIs DEF SecretFresh
<1> QED
  BY <1>3 DEF IsResult, KeyTypes

(* The steps, by what they do to the keys and ciphertexts. *)
IdleStep == UNCHANGED << par, sk, pk, cts >>

ParametersOnly == sk = NoParameters /\ UNCHANGED << sk, pk, cts >>

KeyStep ==
    /\ sk = NoParameters /\ par # NoParameters /\ par.variance >= 1
    /\ sk' \in Int /\ UNCHANGED << par, pk, cts >>

PublicStep == sk # NoParameters /\ UNCHANGED << par, sk, cts >> /\ FirstKey(pk')

EncryptStep ==
    /\ sk # NoParameters /\ UNCHANGED << par, sk, pk >>
    /\ Len(cts) < 2 /\ \E z : Fresh(z) /\ cts' = Append(cts, z)

OneStep ==
    /\ sk # NoParameters /\ UNCHANGED << par, sk, pk >>
    /\ \E x, z : OneCipher(x) /\ ComputedOne(z, x) /\ cts' = << z >>

TwoStep ==
    /\ sk # NoParameters /\ UNCHANGED << par, sk, pk >>
    /\ \E x, y, z : TwoCiphers(x, y) /\ ComputedTwo(z, x, y) /\ cts' = << z >>

LEMMA OneOperand ==
    ASSUME SchemeInv, Len(cts) = 1
    PROVE  ReadyInv /\ OneCipher(cts[1])
<1>1. cts # << >>
  OBVIOUS
<1>2. \A x, y : ~(cts = << x, y >>)
  OBVIOUS
<1>3. PICK x : OneCipher(x)
  BY <1>1, <1>2 DEF SchemeInv, SchemeTypes, TwoCiphers
<1>4. cts[1] = x
  BY <1>3 DEF OneCipher
<1>5. sk # NoParameters
  BY <1>1 DEF SchemeInv, SchemeTypes
<1> QED
  BY <1>3, <1>4, <1>5 DEF ReadyInv

LEMMA TwoOperand ==
    ASSUME SchemeInv, Len(cts) = 2
    PROVE  ReadyInv /\ TwoCiphers(cts[1], cts[2])
<1>1. cts # << >>
  OBVIOUS
<1>2. \A x : ~(cts = << x >>)
  OBVIOUS
<1>3. PICK x, y : TwoCiphers(x, y)
  BY <1>1, <1>2 DEF SchemeInv, SchemeTypes, OneCipher
<1>4. cts[1] = x /\ cts[2] = y
  BY <1>3 DEF TwoCiphers
<1>5. sk # NoParameters
  BY <1>1 DEF SchemeInv, SchemeTypes
<1> QED
  BY <1>3, <1>4, <1>5 DEF ReadyInv

LEMMA PutOne ==
    ASSUME SchemeInv, par' = par, Len(cts) = 1, NEW z, Put(z), ComputedOne(z, cts[1])
    PROVE  OneStep
  BY OneOperand DEF Put, Call, OneStep, ReadyInv

LEMMA PutTwo ==
    ASSUME SchemeInv, par' = par, Len(cts) = 2, NEW z, Put(z), ComputedTwo(z, cts[1], cts[2])
    PROVE  TwoStep
  BY TwoOperand DEF Put, Call, TwoStep, ReadyInv

LEMMA SchemeSteps ==
    ASSUME SchemeInv, [SchemeNext]_specVars
    PROVE  IdleStep \/ ParametersOnly \/ KeyStep \/ PublicStep \/ EncryptStep \/ OneStep \/ TwoStep
<1>1. CASE UNCHANGED specVars
  BY <1>1 DEF specVars, IdleStep
<1>2. CASE sk = NoParameters /\ ParametersNext /\ UNCHANGED schemeVars
  BY <1>2 DEF schemeVars, ParametersOnly
<1>3. CASE par # NoParameters /\ Compute /\ UNCHANGED << builder, par, reloaded >>
  <2>1. IsBuilt /\ par' = par
    BY <1>3 DEF SchemeInv, ParametersInv, IsBuilt
  <2>2. par.t \in Nat \ {0} /\ par.t >= 2 /\ par.variance \in Nat /\ DOMAIN par.level = Levels
    BY <2>1, BuiltTypes
  <2>3. ASSUME NEW s \in {1, -(2 * par.variance)}, GenerateSecretKey(s) PROVE KeyStep
    <3>1. s \in Int
      BY <2>2
    <3>2. par.variance >= 1
      BY <2>2, <2>3 DEF GenerateSecretKey, CanSample
    <3> QED
      BY <1>3, <2>1, <2>3, <3>1, <3>2 DEF GenerateSecretKey, KeyStep
  <2>4. ASSUME sk # NoParameters
        PROVE  /\ \A e \in Smalls : e \in Int \ {0}
               /\ \A m \in Messages : m \in 1 .. par.t - 1 /\ m \in 0 .. par.t - 1
               /\ \A k \in Levels : \A a \in Masks(Q(k)) : a \in 0 .. Q(k) - 1
               /\ 2 * par.variance \in Int
    <3>1. par.variance >= 1
      BY <2>4 DEF SchemeInv, SchemeTypes
    <3>2. \A e \in Smalls : e \in Int \ {0}
      BY <2>2, <3>1 DEF Smalls
    <3>3. \A m \in Messages : m \in 1 .. par.t - 1 /\ m \in 0 .. par.t - 1
      BY <2>2 DEF Messages
    <3>4. \A k \in Levels : \A a \in Masks(Q(k)) : a \in 0 .. Q(k) - 1
      <4> TAKE k \in Levels
      <4>1. Q(k) \in Nat \ {0}
        BY <2>1, LevelFacts
      <4> DEFINE q == Q(k)
      <4> HIDE DEF q
      <4>2. q \div 3 \in 0 .. q - 1
        BY <4>1 DEF q
      <4> QED
        BY <4>2 DEF Masks, q
    <3> QED
      BY <2>2, <3>2, <3>3, <3>4
  <2>5. ASSUME NEW a \in Masks(Q(0)), NEW e \in Smalls, GeneratePublicKey(a, e) PROVE PublicStep
    <3>1. sk # NoParameters /\ sk' = sk /\ cts' = cts
      BY <2>5 DEF GeneratePublicKey
    <3>2. 0 \in Levels
      BY <2>1, BuiltTypes DEF Levels
    <3>3. a \in 0 .. Q(0) - 1 /\ e \in Int
      BY <2>4, <2>5, <3>1, <3>2
    <3>4. SecretFresh(pk', 0, 0, a, e)
      BY <2>5 DEF GeneratePublicKey, SecretFresh
    <3> QED
      BY <2>1, <3>1, <3>3, <3>4 DEF PublicStep, FirstKey
  <2>6. ASSUME NEW z, Fresh(z), Encrypt(z) PROVE EncryptStep
    BY <2>1, <2>6 DEF Encrypt, Call, EncryptStep
  <2>7. ASSUME NEW m \in Messages, NEW k \in Levels, NEW e \in Smalls, NEW a \in Masks(Q(k)),
               SecretEncrypt(m, k, a, e)
        PROVE  EncryptStep
    <3> DEFINE z == Ciphertext(SecretEncrypted(m, k, a, e), k, m, Abs(e))
    <3>1. Encrypt(z) /\ sk # NoParameters
      BY <2>7 DEF SecretEncrypt, Encrypt
    <3>2. SecretFresh(z, m, k, a, e)
      BY DEF SecretFresh
    <3>3. m \in 0 .. par.t - 1 /\ a \in 0 .. Q(k) - 1 /\ e \in Int
      BY <2>4, <3>1
    <3> HIDE DEF z
    <3>4. Fresh(z)
      BY <3>2, <3>3 DEF Fresh
    <3> QED
      BY <2>6, <3>1, <3>4
  <2>8. ASSUME NEW m \in Messages, NEW k \in Levels, pk # NoParameters, NEW u \in Smalls,
               PublicEncrypt(m, k, u, 2 * par.variance, u)
        PROVE  EncryptStep
    <3> DEFINE f == 2 * par.variance
               z == Ciphertext(<< (u * KeyAt(k).c[1] + f + ToPoly(m, k)) % Q(k), (u * KeyAt(k).c[2] + u) % Q(k) >>,
                               k, m, PublicBound(KeyAt(k), u, f, u))
    <3>1. Encrypt(z) /\ sk # NoParameters
      BY <2>8 DEF PublicEncrypt, Encrypt, PublicBound
    <3>2. PublicFresh(z, m, k, u, f, u)
      BY <2>8 DEF PublicFresh
    <3>3. m \in 0 .. par.t - 1 /\ u \in Int \ {0} /\ u \in Int /\ f \in Int
      BY <2>4, <3>1
    <3> HIDE DEF z, f
    <3>4. Fresh(z)
      BY <3>2, <3>3 DEF Fresh
    <3> QED
      BY <2>6, <3>1, <3>4
  <2>9. CASE SwitchDown
    <3>1. Len(cts) = 1 /\ ComputedOne(SwitchedDown(cts[1]), cts[1]) /\ Put(SwitchedDown(cts[1]))
      BY <2>9 DEF SwitchDown, ComputedOne
    <3> QED
      BY <2>1, <3>1, PutOne
  <2>10. CASE Negate
    <3>1. Len(cts) = 1 /\ ComputedOne(Negated(cts[1]), cts[1]) /\ Put(Negated(cts[1]))
      BY <2>10 DEF Negate, ComputedOne
    <3> QED
      BY <2>1, <3>1, PutOne
  <2>11. ASSUME NEW m \in Messages, AddPlain(m) \/ MultiplyPlain(m) PROVE OneStep
    <3>1. Len(cts) = 1 /\ (Put(PlainAdded(cts[1], m)) \/ Put(PlainMultiplied(cts[1], m)))
      BY <2>11 DEF AddPlain, MultiplyPlain
    <3>2. m \in 1 .. par.t - 1
      BY <2>4, <3>1, OneOperand DEF ReadyInv
    <3>3. ComputedOne(PlainAdded(cts[1], m), cts[1]) /\ ComputedOne(PlainMultiplied(cts[1], m), cts[1])
      BY <3>2 DEF ComputedOne
    <3> QED
      BY <2>1, <3>1, <3>3, PutOne
  <2>12. CASE AddCiphertexts
    <3>1. /\ Len(cts) = 2 /\ Put(Added(cts[1], cts[2]))
          /\ ComputedTwo(Added(cts[1], cts[2]), cts[1], cts[2])
      BY <2>12 DEF AddCiphertexts, Alike, TwoOperands, ComputedTwo
    <3> QED
      BY <2>1, <3>1, PutTwo
  <2>13. CASE SubtractCiphertexts
    <3>1. /\ Len(cts) = 2 /\ Put(Subtracted(cts[1], cts[2]))
          /\ ComputedTwo(Subtracted(cts[1], cts[2]), cts[1], cts[2])
      BY <2>13 DEF SubtractCiphertexts, Alike, TwoOperands, ComputedTwo
    <3> QED
      BY <2>1, <3>1, PutTwo
  <2>14. CASE Multiply
    <3>1. /\ Len(cts) = 2 /\ Put(Multiplied(cts[1], cts[2]))
          /\ ComputedTwo(Multiplied(cts[1], cts[2]), cts[1], cts[2])
      BY <2>14 DEF Multiply, TwoOperands, ComputedTwo
    <3> QED
      BY <2>1, <3>1, PutTwo
  <2> QED
    BY <1>3, <2>2, <2>3, <2>5, <2>7, <2>8, <2>9, <2>10, <2>11, <2>12, <2>13, <2>14 DEF Compute
<1> QED
  BY <1>1, <1>2, <1>3 DEF SchemeNext

LEMMA AppendedOne == ASSUME NEW x, NEW z PROVE Append(<< x >>, z) = << x, z >>
<1> DEFINE S == {x, z}
           s == Append(<< x >>, z)
           t == << x, z >>
<1>1. s \in Seq(S) /\ t \in Seq(S) /\ Len(s) = 2 /\ Len(t) = 2
  OBVIOUS
<1>2. s[1] = x /\ s[2] = z /\ t[1] = x /\ t[2] = z
  OBVIOUS
<1>3. \A i \in 1 .. 2 : i = 1 \/ i = 2
  OBVIOUS
<1> HIDE DEF s, t
<1>4. \A i \in 1 .. Len(s) : s[i] = t[i]
  BY <1>1, <1>2, <1>3
<1> QED
  BY <1>1, <1>4, SeqEqual DEF s, t

LEMMA TypesKept ==
    ASSUME par' = par, NEW x, CipherTypes(x)
    PROVE  CipherTypes(x)'
  BY DEF CipherTypes, Levels, Q, ModuliAt

LEMMA KeyTypesKept ==
    ASSUME par' = par, NEW x, KeyTypes(x), x.level = 0, pk' = x
    PROVE  (KeyTypes(pk) /\ pk.level = 0)'
  BY DEF KeyTypes, CipherTypes, Levels, Q, ModuliAt

LEMMA CiphersKept ==
    ASSUME par' = par, cts' = cts,
           (cts = << >>) \/ (\E x : OneCipher(x)) \/ (\E x, y : TwoCiphers(x, y))
    PROVE  ((cts = << >>) \/ (\E x : OneCipher(x)) \/ (\E x, y : TwoCiphers(x, y)))'
<1>1. CASE cts = << >>
  BY <1>1
<1>2. ASSUME NEW x, OneCipher(x) PROVE OneCipher(x)'
  <2>1. CipherTypes(x)'
    BY <1>2, TypesKept DEF OneCipher
  <2> QED
    BY <1>2, <2>1 DEF OneCipher
<1>3. ASSUME NEW x, NEW y, TwoCiphers(x, y) PROVE TwoCiphers(x, y)'
  <2>1. CipherTypes(x)' /\ CipherTypes(y)'
    BY <1>3, TypesKept DEF TwoCiphers
  <2> QED
    BY <1>3, <2>1 DEF TwoCiphers
<1> QED
  BY <1>1, <1>2, <1>3

LEMMA SchemeTypesKept ==
    ASSUME SchemeInv, [SchemeNext]_specVars PROVE SchemeTypes'
<1>1. /\ sk = NoParameters => pk = NoParameters /\ cts = << >>
      /\ sk # NoParameters => par # NoParameters /\ sk \in Int /\ par.variance >= 1
      /\ pk # NoParameters => KeyTypes(pk) /\ pk.level = 0
      /\ (cts = << >>) \/ (\E x : OneCipher(x)) \/ (\E x, y : TwoCiphers(x, y))
  BY DEF SchemeInv, SchemeTypes
<1>2. ASSUME par' = par, pk' = pk PROVE (pk # NoParameters => KeyTypes(pk) /\ pk.level = 0)'
  <2>1. CASE pk # NoParameters
    <3>1. PICK x : x = pk
      OBVIOUS
    <3>2. KeyTypes(x) /\ x.level = 0 /\ pk' = x
      BY <1>1, <1>2, <2>1, <3>1
    <3> QED
      BY <1>2, <3>2, KeyTypesKept
  <2> QED
    BY <1>2, <2>1
<1>3. CASE IdleStep
  BY <1>1, <1>2, <1>3, CiphersKept DEF IdleStep, SchemeTypes
<1>4. CASE ParametersOnly
  BY <1>1, <1>4 DEF ParametersOnly, SchemeTypes
<1>5. CASE KeyStep
  BY <1>1, <1>5 DEF KeyStep, SchemeTypes
<1>6. CASE PublicStep
  <2>1. ReadyInv /\ par' = par /\ cts' = cts /\ sk' = sk /\ sk # NoParameters
    BY <1>6 DEF PublicStep, ReadyInv
  <2>2. PICK z : z = pk'
    OBVIOUS
  <2>3. KeyTypes(z) /\ z.level = 0
    BY <1>6, <2>1, <2>2, FirstKeyTypes DEF PublicStep
  <2>4. (KeyTypes(pk) /\ pk.level = 0)'
    BY <2>1, <2>2, <2>3, KeyTypesKept
  <2> QED
    BY <1>1, <2>1, <2>4, CiphersKept DEF SchemeTypes
<1>7. ASSUME sk # NoParameters, UNCHANGED << par, sk, pk >>,
             ((\E x : OneCipher(x)) \/ (\E x, y : TwoCiphers(x, y)))'
      PROVE  SchemeTypes'
  BY <1>1, <1>2, <1>7 DEF SchemeTypes
<1>8. CASE EncryptStep
  <2>1. PICK z : Fresh(z) /\ cts' = Append(cts, z) /\ Len(cts) < 2
    BY <1>8 DEF EncryptStep
  <2>2. ReadyInv /\ sk # NoParameters /\ UNCHANGED << par, sk, pk >>
    BY <1>8 DEF EncryptStep, ReadyInv
  <2>3. CipherTypes(z) /\ Len(z.c) = 2
    BY <2>1, <2>2, FreshTypes
  <2>4. CipherTypes(z)'
    BY <2>2, <2>3, TypesKept
  <2>5. CASE cts = << >>
    <3>1. cts' = << z >>
      BY <2>1, <2>5
    <3>2. OneCipher(z)'
      BY <2>4, <3>1 DEF OneCipher
    <3> QED
      BY <1>7, <2>2, <3>2
  <2>6. ASSUME NEW x, OneCipher(x) PROVE SchemeTypes'
    <3>1. cts' = << x, z >>
      BY <2>1, <2>6, AppendedOne DEF OneCipher
    <3>2. CipherTypes(x)'
      BY <2>2, <2>6, TypesKept DEF OneCipher
    <3>3. TwoCiphers(x, z)'
      BY <2>3, <2>4, <3>1, <3>2 DEF TwoCiphers
    <3> QED
      BY <1>7, <2>2, <3>3
  <2>7. \A x, y : ~TwoCiphers(x, y)
    <3> SUFFICES ASSUME NEW x, NEW y, cts = << x, y >> PROVE FALSE
      BY DEF TwoCiphers
    <3>1. Len(cts) = 2
      OBVIOUS
    <3> QED
      BY <2>1, <3>1
  <2> QED
    BY <1>1, <2>5, <2>6, <2>7
<1>9. CASE OneStep
  <2>1. PICK x, z : OneCipher(x) /\ ComputedOne(z, x) /\ cts' = << z >>
    BY <1>9 DEF OneStep
  <2>2. ReadyInv /\ sk # NoParameters /\ UNCHANGED << par, sk, pk >>
    BY <1>9 DEF OneStep, ReadyInv
  <2>3. CipherTypes(z)
    BY <2>1, <2>2, ComputedOneTypes DEF OneCipher
  <2>4. CipherTypes(z)'
    BY <2>2, <2>3, TypesKept
  <2>5. OneCipher(z)'
    BY <2>1, <2>4 DEF OneCipher
  <2> QED
    BY <1>7, <2>2, <2>5
<1>10. CASE TwoStep
  <2>1. PICK x, y, z : TwoCiphers(x, y) /\ ComputedTwo(z, x, y) /\ cts' = << z >>
    BY <1>10 DEF TwoStep
  <2>2. ReadyInv /\ sk # NoParameters /\ UNCHANGED << par, sk, pk >>
    BY <1>10 DEF TwoStep, ReadyInv
  <2>3. CipherTypes(z)
    BY <2>1, <2>2, ComputedTwoTypes DEF TwoCiphers
  <2>4. CipherTypes(z)'
    BY <2>2, <2>3, TypesKept
  <2>5. OneCipher(z)'
    BY <2>1, <2>4 DEF OneCipher
  <2> QED
    BY <1>7, <2>2, <2>5
<1> QED
  BY <1>3, <1>4, <1>5, <1>6, <1>8, <1>9, <1>10, SchemeSteps

LEMMA SchemeHolds == Spec => []SchemeInv
<1>1. SchemeInit => SchemeInv
  <2> SUFFICES ASSUME SchemeInit PROVE SchemeInv
    OBVIOUS
  <2>1. sk = NoParameters /\ pk = NoParameters /\ cts = << >>
    BY DEF SchemeInit
  <2> QED
    BY <2>1, ParametersStart DEF SchemeInv, SchemeTypes
<1>2. SchemeInv /\ [SchemeNext]_specVars => SchemeInv'
  BY ParametersKept, SchemeTypesKept DEF SchemeInv
<1> QED
  BY <1>1, <1>2, PTL DEF Spec, specVars

(* Every ciphertext of a state, with its types. *)
LEMMA EveryCipher ==
    ASSUME SchemeInv, NEW i \in DOMAIN cts
    PROVE  ReadyInv /\ CipherTypes(cts[i])
<1>1. CASE cts = << >>
  BY <1>1
<1>2. ASSUME NEW x, OneCipher(x) PROVE CipherTypes(cts[i]) /\ cts # << >>
  <2>1. cts = << x >> /\ CipherTypes(x)
    BY <1>2 DEF OneCipher
  <2>2. cts[i] = x
    BY <2>1
  <2> QED
    BY <2>1, <2>2
<1>3. ASSUME NEW x, NEW y, TwoCiphers(x, y) PROVE CipherTypes(cts[i]) /\ cts # << >>
  <2>1. cts = << x, y >> /\ CipherTypes(x) /\ CipherTypes(y)
    BY <1>3 DEF TwoCiphers
  <2>2. cts[i] = x \/ cts[i] = y
    BY <2>1
  <2> QED
    BY <2>1, <2>2
<1> QED
  BY <1>1, <1>2, <1>3 DEF SchemeInv, SchemeTypes, ReadyInv

(* A ciphertext whose noise is within the budget decrypts to the message   *)
(* wanted (try_decrypt), whatever was computed, when t is below two thirds *)
(* of the moduli that are read.                                            *)
THEOREM DecryptsWhatIsWanted == Spec => []DecryptsWithinBudget
<1>1. SchemeInv => DecryptsWithinBudget
  <2> SUFFICES ASSUME SchemeInv, NEW i \in DOMAIN cts, Readable, WithinBudget(cts[i])
               PROVE  Decrypted(cts[i]) = cts[i].want
    BY DEF DecryptsWithinBudget
  <2>1. CipherTypes(cts[i]) /\ IsBuilt /\ sk \in Int
    BY EveryCipher, ReadyFacts
  <2> QED
    BY <2>1, Decrypts
<1> QED
  BY <1>1, SchemeHolds, PTL

-----------------------------------------------------------------------------
(* Numbers of bits *)

LEMMA PowersPass ==
    ASSUME NEW g, PowersOf(g, 2)
    PROVE  \A n \in Nat : n < g[n]
<1> DEFINE S == {n \in Nat : n < g[n]}
<1>1. g[0] = 1 /\ \A n \in Nat : g[n] \in Int /\ g[n + 1] = 2 * g[n]
  BY DEF PowersOf
<1>2. 0 \in S
  BY <1>1
<1>3. \A n \in Nat : n \in S => n + 1 \in S
  BY <1>1
<1> HIDE DEF S
<1>4. Nat \subseteq S
  BY <1>2, <1>3, SetInduction
<1> QED
  BY <1>4 DEF S

LEMMA BitsOfIs ==
    ASSUME NEW g, PowersOf(g, 2), NEW x \in Nat
    PROVE  /\ BitsOf(x) \in Nat /\ x < g[BitsOf(x)]
           /\ BitsOf(x) = 0 \/ g[BitsOf(x) - 1] <= x
<1> DEFINE T(n) == {k \in Nat : n < g[k]}
           h == [n \in 0 .. x |-> Least(T(n))]
           E(f) == f = [n \in 0 .. x |-> IF n = 0 THEN 0 ELSE 1 + f[n \div 2]]
           w == CHOOSE f : E(f)
<1>1. g[0] = 1 /\ \A n \in Nat : g[n] \in Int /\ g[n + 1] = 2 * g[n]
  BY DEF PowersOf
<1>2. \A n \in Nat : /\ Least(T(n)) \in Nat /\ n < g[Least(T(n))]
                     /\ \A k \in Nat : n < g[k] => Least(T(n)) <= k
  <2> TAKE n \in Nat
  <2>1. T(n) \in SUBSET Nat /\ T(n) # {}
    BY PowersPass
  <2>2. Least(T(n)) \in T(n) /\ \A k \in T(n) : Least(T(n)) <= k
    BY <2>1, LeastIs
  <2> QED
    BY <2>2
<1> DEFINE size(n) == Least(T(n))
<1>3. \A n \in Nat : /\ size(n) \in Nat /\ n < g[size(n)]
                     /\ \A k \in Nat : n < g[k] => size(n) <= k
  BY <1>2
<1>4. \A n \in 0 .. x : h[n] = size(n)
  OBVIOUS
<1>5. h = [n \in 0 .. x |-> h[n]]
  OBVIOUS
<1> HIDE DEF h, T, size
<1>6. size(0) = 0
  <2>1. size(0) \in Nat /\ \A k \in Nat : 0 < g[k] => size(0) <= k
    BY <1>3
  <2>2. 0 \in Nat /\ 0 < g[0]
    BY <1>1
  <2>3. size(0) <= 0
    BY <2>1, <2>2
  <2> QED
    BY <2>1, <2>3
<1>7. ASSUME NEW n \in Nat \ {0} PROVE n \div 2 \in 0 .. n - 1 /\ size(n) = 1 + size(n \div 2)
  <2> DEFINE m == n \div 2
             a == size(n)
             b == size(m)
  <2>1. m \in Nat /\ m \in 0 .. n - 1 /\ 2 * m <= n /\ n <= 2 * m + 1
    OBVIOUS
  <2> HIDE DEF m
  <2>2. a \in Nat /\ n < g[a] /\ b \in Nat /\ m < g[b]
    BY <1>3, <2>1
  <2>3. a # 0
    BY <1>1, <2>2
  <2>4. a - 1 \in Nat /\ (a - 1) + 1 = a
    BY <2>2, <2>3
  <2>5. g[a] = 2 * g[a - 1] /\ g[a - 1] \in Int
    BY <1>1, <2>4
  <2>6. m < g[a - 1]
    BY <2>1, <2>2, <2>5
  <2>7. b <= a - 1
    BY <1>3, <2>1, <2>4, <2>6
  <2>8. n < g[b + 1] /\ b + 1 \in Nat
    BY <1>1, <2>1, <2>2
  <2>9. a <= b + 1
    BY <1>3, <2>8
  <2>10. a = 1 + b
    BY <2>2, <2>7, <2>9
  <2> QED
    BY <2>1, <2>10 DEF m
<1>8. E(h)
  <2>1. ASSUME NEW n \in 0 .. x PROVE h[n] = IF n = 0 THEN 0 ELSE 1 + h[n \div 2]
    <3>1. CASE n = 0
      BY <1>4, <1>6, <3>1
    <3>2. CASE n # 0
      <4>1. n \in Nat \ {0} /\ n \in Nat
        BY <3>2
      <4>2. n \div 2 \in 0 .. n - 1 /\ size(n) = 1 + size(n \div 2)
        BY <1>7, <4>1
      <4>3. n \div 2 \in 0 .. x
        BY <4>1, <4>2
      <4> QED
        BY <1>4, <3>2, <4>2, <4>3
    <3> QED
      BY <3>1, <3>2
  <2> QED
    BY <1>5, <2>1
<1>9. E(w)
  BY <1>8
<1>10. BitsOf(x) = w[x]
  BY DEF BitsOf
<1> HIDE DEF w
<1>11. \A n \in 0 .. x : w[n] = IF n = 0 THEN 0 ELSE 1 + w[n \div 2]
  BY <1>9
<1> DEFINE S == {n \in 0 .. x : \A m \in 0 .. n : w[m] = size(m)}
<1>12. 0 \in S
  <2>1. w[0] = 0
    BY <1>11
  <2> QED
    BY <1>6, <2>1
<1>13. \A n \in 0 .. x - 1 : n \in S => n + 1 \in S
  <2> SUFFICES ASSUME NEW n \in 0 .. x - 1, n \in S PROVE n + 1 \in S
    OBVIOUS
  <2>1. n + 1 \in Nat \ {0} /\ n + 1 \in 0 .. x /\ n + 1 # 0 /\ (n + 1) - 1 = n
    OBVIOUS
  <2>2. (n + 1) \div 2 \in 0 .. n /\ size(n + 1) = 1 + size((n + 1) \div 2)
    BY <1>7, <2>1
  <2>3. w[n + 1] = 1 + w[(n + 1) \div 2]
    BY <1>11, <2>1
  <2>4. w[(n + 1) \div 2] = size((n + 1) \div 2)
    BY <2>2
  <2>5. w[n + 1] = size(n + 1)
    BY <2>2, <2>3, <2>4
  <2>6. \A m \in 0 .. n + 1 : m \in 0 .. n \/ m = n + 1
    BY <2>1
  <2> QED
    BY <2>1, <2>5, <2>6
<1> HIDE DEF S
<1>14. \A n \in 0 .. x : n \in S
  BY <1>12, <1>13, InductionUpTo
<1>15. BitsOf(x) = size(x)
  BY <1>10, <1>14 DEF S
<1> DEFINE b == size(x)
<1>16. b \in Nat /\ x < g[b] /\ \A k \in Nat : x < g[k] => b <= k
  BY <1>3
<1> HIDE DEF b
<1>17. b = 0 \/ g[b - 1] <= x
  <2> SUFFICES ASSUME b # 0, ~(g[b - 1] <= x) PROVE FALSE
    OBVIOUS
  <2>1. b - 1 \in Nat
    BY <1>16
  <2>2. x < g[b - 1]
    BY <1>1, <2>1
  <2> QED
    BY <1>16, <2>1, <2>2
<1> QED
  BY <1>15, <1>16, <1>17 DEF b

LEMMA BitsOfGrow ==
    ASSUME NEW x \in Nat, NEW y \in Nat, x <= y
    PROVE  BitsOf(x) \in Nat /\ BitsOf(y) \in Nat /\ BitsOf(x) <= BitsOf(y)
<1>1. PICK g : PowersOf(g, 2)
  BY PowersExist
<1> DEFINE a == BitsOf(x)
           b == BitsOf(y)
<1>2. a \in Nat /\ (a = 0 \/ g[a - 1] <= x) /\ b \in Nat /\ y < g[b]
  BY <1>1, BitsOfIs
<1>3. \A i, j \in Nat : i <= j => g[i] <= g[j]
  BY <1>1, PowersOfTwo
<1>4. \A i \in Nat : g[i] \in Int
  BY <1>1 DEF PowersOf
<1> HIDE DEF a, b
<1>5. a <= b
  <2> SUFFICES ASSUME ~(a <= b) PROVE FALSE
    OBVIOUS
  <2>1. a - 1 \in Nat /\ b <= a - 1 /\ a # 0
    BY <1>2
  <2>2. g[b] <= g[a - 1] /\ g[a - 1] <= x /\ g[b] \in Int /\ g[a - 1] \in Int
    BY <1>2, <1>3, <1>4, <2>1
  <2> QED
    BY <1>2, <2>2
<1> QED
  BY <1>2, <1>5 DEF a, b

(* Half of the power of two above a number does not exceed it. *)
LEMMA HalfPower ==
    ASSUME NEW x \in Nat, NEW h, h = Powered(2, BitsOf(x)) \div 2
    PROVE  h \in Nat /\ h <= x
<1>1. PICK g : PowersOf(g, 2)
  BY PowersExist
<1> DEFINE b == BitsOf(x)
<1>2. b \in Nat /\ (b = 0 \/ g[b - 1] <= x)
  BY <1>1, BitsOfIs
<1>3. Powered(2, b) = g[b]
  BY <1>1, <1>2, PoweredIs
<1>4. g[0] = 1 /\ \A n \in Nat : g[n] \in Int /\ g[n + 1] = 2 * g[n]
  BY <1>1 DEF PowersOf
<1>5. \A n \in Nat : g[n] \in Nat
  BY <1>1, PowersOfTwo
<1>6. h = g[b] \div 2
  BY <1>3
<1> HIDE DEF b
<1>7. CASE b = 0
  BY <1>4, <1>6, <1>7
<1>8. CASE b # 0
  <2> DEFINE y == g[b - 1]
  <2>1. b - 1 \in Nat /\ (b - 1) + 1 = b
    BY <1>2, <1>8
  <2>2. g[b] = 2 * y /\ y \in Nat /\ y <= x
    BY <1>2, <1>4, <1>5, <1>8, <2>1
  <2> HIDE DEF y
  <2>3. (2 * y) \div 2 = y
    BY <2>2
  <2> QED
    BY <1>6, <2>2, <2>3
<1> QED
  BY <1>7, <1>8

-----------------------------------------------------------------------------
(* Ciphertext moduli are odd *)

Odd(x) == x \in Int /\ \E h \in Int : x = 2 * h + 1

LEMMA OddPrime == ASSUME NEW p \in Nat, NEW d \in Nat \ {0}, p % (2 * d) = 1 PROVE Odd(p)
<1> DEFINE D == 2 * d
           k == p \div D
<1>1. D \in Nat \ {0} /\ p \in Int
  OBVIOUS
<1>2. D = 2 * d /\ p % D = 1
  OBVIOUS
<1> HIDE DEF D
<1>3. k \in Int /\ p = k * D + 1
  <2>1. p \div D \in Int /\ p = (p \div D) * D + (p % D)
    BY ONLY <1>1, Remainder
  <2> QED
    BY ONLY <1>2, <2>1
<1> HIDE DEF k
<1>4. k * d \in Int /\ k * D = 2 * (k * d)
  BY <1>2, <1>3
<1> QED
  BY <1>1, <1>3, <1>4 DEF Odd

LEMMA OddProduct == ASSUME NEW x, NEW y, Odd(x), Odd(y) PROVE Odd(x * y)
<1>1. PICK a \in Int : x = 2 * a + 1
  BY DEF Odd
<1>2. PICK b \in Int : y = 2 * b + 1
  BY DEF Odd
<1>3. a * b \in Int /\ x * y = 2 * (2 * (a * b) + a + b) + 1
  BY <1>1, <1>2
<1>4. 2 * (a * b) + a + b \in Int /\ x * y \in Int
  BY <1>1, <1>2, <1>3
<1> QED
  BY <1>3, <1>4 DEF Odd

LEMMA OddModulus == ASSUME IsBuilt, NEW k \in Levels PROVE Odd(Q(k))
<1> DEFINE q == ModuliAt(k)
           n == Len(q)
<1>1. /\ IsContext(q) /\ par.degree \in Nat /\ par.degree >= 8
      /\ \A i \in 1 .. n : q[i] = par.moduli[i] /\ NttModulus(par.moduli[i], par.degree)
  BY LevelFacts
<1>2. Q(k) = ProductOf(q)
  BY DEF Q
<1> HIDE DEF q
<1>3. q \in Seq(Nat \ {0}) /\ n \in Nat
  BY <1>1, ContextTypes
<1>4. \A i \in 1 .. n : Odd(q[i])
  <2> TAKE i \in 1 .. n
  <2>1. q[i] \in Nat
    BY <1>3
  <2>2. q[i] % (2 * par.degree) = 1
    BY <1>1 DEF NttModulus
  <2>3. par.degree \in Nat \ {0}
    BY <1>1
  <2> QED
    BY <2>1, <2>2, <2>3, OddPrime
<1>5. PICK g \in [0 .. n -> Nat \ {0}] : RunningProducts(g, q)
  BY <1>3, RunningProductsExist
<1>6. g[0] = 1 /\ \A i \in 1 .. n : g[i] = q[i] * g[i - 1]
  BY <1>5 DEF RunningProducts
<1>7. Q(k) = g[n]
  BY <1>2, <1>3, <1>5, ProductOfAll
<1> HIDE DEF n
<1> DEFINE S == {i \in 0 .. n : Odd(g[i])}
<1>8. 0 \in S
  <2>1. 1 = 2 * 0 + 1 /\ 0 \in Int /\ 1 \in Int
    OBVIOUS
  <2>2. Odd(g[0])
    BY <1>6, <2>1 DEF Odd
  <2> QED
    BY <1>3, <2>2
<1>9. \A i \in 0 .. n - 1 : i \in S => i + 1 \in S
  <2> SUFFICES ASSUME NEW i \in 0 .. n - 1, i \in S PROVE i + 1 \in S
    OBVIOUS
  <2>1. i + 1 \in 1 .. n /\ (i + 1) - 1 = i /\ i + 1 \in 0 .. n
    BY <1>3
  <2>2. g[i + 1] = q[i + 1] * g[i]
    BY <1>6, <2>1
  <2>3. Odd(q[i + 1]) /\ Odd(g[i])
    BY <1>4, <2>1
  <2>4. Odd(g[i + 1])
    BY <2>2, <2>3, OddProduct
  <2> QED
    BY <2>1, <2>4
<1> HIDE DEF S
<1>10. \A i \in 0 .. n : i \in S
  BY <1>3, <1>8, <1>9, InductionUpTo
<1>11. n \in S
  BY <1>3, <1>10
<1> QED
  BY <1>7, <1>11 DEF S

-----------------------------------------------------------------------------
(* What decryption returns for any number, and how far the number is from it *)

LEMMA NearestMessage ==
    ASSUME NEW q \in Nat \ {0}, Odd(q), NEW t \in Nat \ {0}, NEW C \in Int, -q < 2 * C, 2 * C <= q,
           NEW S, S = Rounded(C, t, q)
    PROVE  /\ S \in Int /\ q * S \in Int /\ t * C \in Int
           /\ -t <= 2 * S /\ 2 * S <= t
           /\ -q <= 2 * (q * S - t * C) /\ 2 * (q * S - t * C) <= q
<1>1. t \in Nat /\ S \in Int /\ q * S \in Int /\ t * C \in Int
      /\ -q <= 2 * (q * S - t * C) /\ 2 * (q * S - t * C) <= q
  BY RoundedIs
<1>2. 2 * C <= q - 1 /\ 1 - q <= 2 * C
  BY DEF Odd
<1>3. t * q \in Int /\ t * (q - 1 - 2 * C) >= 0 /\ t * (2 * C + q - 1) >= 0
  <2>1. q - 1 - 2 * C \in Nat /\ 2 * C + q - 1 \in Nat
    BY <1>2
  <2> QED
    BY <1>1, <2>1
<1>4. t * (q - 1 - 2 * C) = t * q - t - 2 * (t * C) /\ t * (2 * C + q - 1) = 2 * (t * C) + t * q - t
  BY <1>1
<1>5. 2 * (t * C) <= t * q - t /\ t - t * q <= 2 * (t * C)
  BY <1>1, <1>3, <1>4
<1>6. 2 * S < t + 1
  <2>1. (t + 1 - 2 * S) * q = t * q + q - 2 * (q * S)
    BY <1>1
  <2>2. (t + 1 - 2 * S) * q > 0 /\ t + 1 - 2 * S \in Int
    BY <1>1, <1>3, <1>5, <2>1
  <2>3. t + 1 - 2 * S >= 1
    BY <2>2, Positive
  <2> QED
    BY <1>1, <2>3
<1>7. 2 * S > -(t + 1)
  <2>1. (2 * S + t + 1) * q = 2 * (q * S) + t * q + q
    BY <1>1
  <2>2. (2 * S + t + 1) * q > 0 /\ 2 * S + t + 1 \in Int
    BY <1>1, <1>3, <1>5, <2>1
  <2>3. 2 * S + t + 1 >= 1
    BY <2>2, Positive
  <2> QED
    BY <1>1, <2>3
<1> QED
  BY <1>1, <1>6, <1>7

(* The distance of C from w * q / t rounded down, up to a multiple of q.   *)
LEMMA NearestDistance ==
    ASSUME NEW q \in Nat \ {0}, NEW t \in Nat \ {0}, NEW C \in Int, NEW S \in Int,
           -q <= 2 * (q * S - t * C), 2 * (q * S - t * C) <= q,
           NEW w \in Int, NEW l \in Int, S = w + t * l,
           NEW T \in Int, NEW r \in 0 .. t - 1, t * T = w * q - r,
           NEW d, d = C - T - l * q
    PROVE  d \in Int /\ t * d \in Int /\ -q <= 2 * (t * d) /\ 2 * (t * d) <= q + 2 * t - 2
<1>1. /\ l * q \in Int /\ q * S \in Int /\ t * C \in Int /\ w * q \in Int /\ t * T \in Int
      /\ t * (l * q) \in Int /\ r \in Int
  OBVIOUS
<1>2. d \in Int /\ t * d \in Int
  BY <1>1
<1>3. t * d = t * C - t * T - t * (l * q)
  <2> DEFINE y == l * q
  <2>1. y \in Int /\ d = C - T - y
    BY <1>1
  <2> HIDE DEF y
  <2>2. t * d = t * C - t * T - t * y
    BY ONLY <2>1, t \in Nat \ {0}, C \in Int, T \in Int
  <2> QED
    BY <2>2 DEF y
<1>4. q * S = w * q + t * (l * q)
  BY ONLY q \in Nat \ {0}, t \in Nat \ {0}, w \in Int, l \in Int, S = w + t * l
<1>5. t * d = t * C - q * S + r
  BY ONLY <1>1, <1>2, <1>3, <1>4, t * T = w * q - r
<1> QED
  BY <1>1, <1>2, <1>5

(* The centred number of a class is the least of it in absolute value.     *)
LEMMA CenteredLeast ==
    ASSUME NEW q \in Nat \ {0}, NEW e \in Int, -q < 2 * e, 2 * e <= q, NEW d \in Int, Same(e, d, q)
    PROVE  Abs(e) \in Nat /\ Abs(d) \in Nat /\ Abs(e) <= Abs(d)
<1>1. PICK j \in Int : e = d + j * q
  BY DEF Same
<1>2. Abs(e) \in Nat /\ Abs(d) \in Nat /\ Abs(d) >= d /\ Abs(d) >= -d
  BY DEF Abs
<1>3. CASE j = 0
  <2>1. e = d
    BY <1>1, <1>3
  <2> QED
    BY <1>2, <2>1
<1>4. CASE j >= 1
  <2>1. (j - 1) * q >= 0 /\ (j - 1) * q = j * q - q /\ j * q \in Int
    BY <1>4
  <2>2. -d >= q - e
    BY <1>1, <2>1
  <2>3. q - e >= e /\ q - e >= -e
    OBVIOUS
  <2> QED
    BY <1>2, <2>2, <2>3 DEF Abs
<1>5. CASE j <= -1
  <2> DEFINE i == -1 - j
  <2>1. i \in Nat /\ i * q >= 0 /\ i * q = -q - j * q /\ j * q \in Int
    BY <1>5
  <2>2. d >= e + q
    BY <1>1, <2>1
  <2>3. e + q >= e /\ e + q >= -e
    OBVIOUS
  <2> QED
    BY <1>2, <2>2, <2>3 DEF Abs
<1> QED
  BY <1>3, <1>4, <1>5

LEMMA TimesAbs ==
    ASSUME NEW t \in Nat \ {0}, NEW d \in Int, NEW b \in Int, -b <= 2 * (t * d), 2 * (t * d) <= b
    PROVE  t * Abs(d) \in Int /\ 2 * (t * Abs(d)) <= b
<1>1. t * d \in Int
  OBVIOUS
<1>2. CASE d < 0
  <2>1. Abs(d) = -d /\ t * (-d) = -(t * d)
    BY <1>2 DEF Abs
  <2> QED
    BY <1>1, <2>1
<1>3. CASE d >= 0
  <2>1. Abs(d) = d
    BY <1>3 DEF Abs
  <2> QED
    BY <1>1, <2>1
<1> QED
  BY <1>2, <1>3

(* The message read from a ciphertext, and the distance of its phase from  *)
(* that of the message.                                                    *)
LEMMA DecryptedIs ==
    ASSUME IsBuilt, sk \in Int, NEW ct, CipherTypes(ct), Readable,
           NEW e, e = Error(ct, Decrypted(ct))
    PROVE  /\ Decrypted(ct) \in 0 .. par.t - 1
           /\ Q(ct.level) \in Nat \ {0} /\ e \in Int /\ Abs(e) \in Nat
           /\ par.t \in Nat \ {0} /\ par.t * Abs(e) \in Int
           /\ 2 * (par.t * Abs(e)) <= Q(ct.level) + 2 * par.t - 2
<1> DEFINE q == Q(ct.level)
           t == par.t
           P == Phase(ct)
           C == Centered(P, q)
           S == Scaled(ct)
           M == ReadModulus
           w == S % t
           l == S \div t
           D == Decrypted(ct)
           T == ToPoly(w, ct.level)
           d == C - T - l * q
<1>1. t \in Nat \ {0} /\ M \in Nat \ {0} /\ ct.level \in Levels
  BY BuiltTypes DEF CipherTypes
<1>2. 3 * t < 2 * M
  BY DEF Readable
<1>3. q \in Nat \ {0} /\ P \in 0 .. q - 1 /\ P \in Int
  BY PhaseIs
<1>4. Odd(q)
  BY <1>1, OddModulus
<1>5. S = Rounded(C, t, q)
  BY DEF Scaled
<1>6. D = (((S % M) + t) % M) % t
  BY DEF Decrypted
<1>7. \A m \in 0 .. t - 1 :
         /\ ToPoly(m, ct.level) \in Int
         /\ \E r \in 0 .. t - 1 : t * ToPoly(m, ct.level) = m * q - r
         /\ Error(ct, m) \in Int /\ -q < 2 * Error(ct, m) /\ 2 * Error(ct, m) <= q
         /\ Same(Error(ct, m), P - ToPoly(m, ct.level), q)
  <2> TAKE m \in 0 .. t - 1
  <2>1. \E r \in 0 .. t - 1 : t * ToPoly(m, ct.level) = m * q - r
    BY <1>1, ToPolyIs
  <2>2. /\ ToPoly(m, ct.level) \in Int
        /\ Error(ct, m) \in Int /\ -q < 2 * Error(ct, m) /\ 2 * Error(ct, m) <= q
        /\ Same(Error(ct, m), P - ToPoly(m, ct.level), q)
    BY ErrorIs
  <2> QED
    BY <2>1, <2>2
<1> HIDE DEF q, t, P, C, S, M, D
<1>8. C \in Int /\ Same(C, P, q) /\ -q < 2 * C /\ 2 * C <= q
  BY <1>3, CenteredSame DEF C
<1>9. /\ S \in Int /\ -t <= 2 * S /\ 2 * S <= t
      /\ -q <= 2 * (q * S - t * C) /\ 2 * (q * S - t * C) <= q
  BY ONLY <1>1, <1>3, <1>4, <1>5, <1>8, NearestMessage
<1>10. w \in Int /\ l \in Int /\ 0 <= w /\ w < t /\ S = l * t + w
  BY ONLY <1>1, <1>9, Remainder
<1>11. w \in 0 .. t - 1 /\ S = w + t * l
  BY ONLY <1>1, <1>9, <1>10
<1>12. D = w
  <2>1. w % t = w
    BY ONLY <1>1, <1>10, OwnRemainder
  <2>2. (((S % M) + t) % M) % t = w % t
    BY ONLY <1>1, <1>2, <1>9, <1>10, <1>11, ReadBack
  <2> QED
    BY <1>6, <2>1, <2>2
<1>13. PICK r \in 0 .. t - 1 : t * T = w * q - r
  BY <1>7, <1>11
<1>14. T \in Int
  BY <1>7, <1>11
<1>15. e \in Int /\ -q < 2 * e /\ 2 * e <= q /\ Same(e, P - T, q)
  <2>1. e = Error(ct, w)
    BY <1>12 DEF D
  <2> QED
    BY <1>7, <1>11, <2>1
<1> HIDE DEF w, l, T, d
<1>16. d = C - T - l * q
  BY DEF d
<1>17. d \in Int /\ t * d \in Int /\ -q <= 2 * (t * d) /\ 2 * (t * d) <= q + 2 * t - 2
  BY ONLY <1>1, <1>3, <1>8, <1>9, <1>10, <1>11, <1>13, <1>14, <1>16, NearestDistance, ZenonT(60)
<1>18. Same(e, d, q)
  <2>1. PICK i \in Int : C = P + i * q
    BY <1>8 DEF Same
  <2>2. PICK j \in Int : e = P - T + j * q
    BY <1>15 DEF Same
  <2>3. (j - i + l) * q = j * q - i * q + l * q /\ j - i + l \in Int
        /\ i * q \in Int /\ j * q \in Int /\ l * q \in Int
    BY ONLY <1>3, i \in Int, j \in Int, <1>10
  <2>4. e = d + (j - i + l) * q
    BY ONLY <1>3, <1>8, <1>14, <1>16, <2>1, <2>2, <2>3
  <2> QED
    BY <1>15, <1>17, <2>3, <2>4 DEF Same
<1>19. Abs(e) \in Nat /\ Abs(d) \in Nat /\ Abs(e) <= Abs(d)
  BY ONLY <1>3, <1>15, <1>17, <1>18, CenteredLeast
<1>20. t * Abs(d) \in Int /\ 2 * (t * Abs(d)) <= q + 2 * t - 2
  <2>1. q + 2 * t - 2 \in Int /\ -(q + 2 * t - 2) <= 2 * (t * d)
    BY ONLY <1>1, <1>3, <1>17
  <2> QED
    BY ONLY <1>1, <1>17, <2>1, TimesAbs
<1>21. t * Abs(e) \in Int /\ t * Abs(e) <= t * Abs(d)
  <2> DEFINE a == Abs(e)
             b == Abs(d)
  <2>1. a \in Nat /\ b \in Nat /\ a <= b
    BY <1>19
  <2> HIDE DEF a, b
  <2>2. t * a \in Int /\ t * a <= t * b
    <3>1. b - a \in Nat /\ t * (b - a) >= 0 /\ t * (b - a) = t * b - t * a
      BY <1>1, <2>1
    <3> QED
      BY <1>1, <2>1, <3>1
  <2> QED
    BY <2>2 DEF a, b
<1>22. 2 * (t * Abs(e)) <= q + 2 * t - 2
  BY ONLY <1>1, <1>3, <1>20, <1>21
<1> QED
  BY <1>1, <1>3, <1>11, <1>12, <1>15, <1>19, <1>21, <1>22 DEF q, t, D

(* measure_noise counts the bits of that distance. *)
LEMMA MeasuredIs ==
    ASSUME IsBuilt, sk \in Int, NEW ct, CipherTypes(ct), Readable,
           NEW e, e = Error(ct, Decrypted(ct))
    PROVE  Measured(ct) = BitsOf(Abs(e))
<1> DEFINE q == Q(ct.level)
           c == (Phase(ct) - ToPoly(Decrypted(ct), ct.level)) % q
           S == {BitsOf(c), BitsOf(q - c)}
<1>1. Decrypted(ct) \in 0 .. par.t - 1 /\ ct.level \in Levels
  BY DecryptedIs DEF CipherTypes
<1>2. q \in Nat \ {0} /\ ToPoly(Decrypted(ct), ct.level) \in Int /\ Phase(ct) \in Int
  BY <1>1, ErrorIs
<1>3. e = Centered(c, q)
  BY DEF Error
<1>4. c \in Nat /\ c < q
  <2> DEFINE y == Phase(ct) - ToPoly(Decrypted(ct), ct.level)
  <2>1. y \in Int
    BY <1>2
  <2> HIDE DEF y, q
  <2>2. y % q \in Int /\ 0 <= y % q /\ y % q < q
    BY ONLY <1>2, <2>1, Remainder
  <2> QED
    BY <2>2 DEF y, q
<1>5. Measured(ct) = Least(S)
  BY DEF Measured
<1> HIDE DEF q, c
<1>6. q - c \in Nat
  BY <1>2, <1>4
<1>7. BitsOf(c) \in Nat /\ BitsOf(q - c) \in Nat
  BY <1>4, <1>6, BitsOfGrow
<1>8. S \in SUBSET Nat /\ S # {}
  BY <1>7
<1>9. Least(S) \in S /\ \A y \in S : Least(S) <= y
  BY <1>8, LeastIs
<1>10. Least(S) \in Nat
  BY <1>8, <1>9
<1>11. CASE 2 * c > q
  <2>1. Abs(e) = q - c /\ q - c <= c
    BY <1>2, <1>3, <1>4, <1>11 DEF Centered, Abs
  <2>2. BitsOf(q - c) <= BitsOf(c)
    BY <1>4, <1>6, <2>1, BitsOfGrow
  <2>3. Least(S) = BitsOf(q - c)
    BY <1>7, <1>9, <1>10, <2>2
  <2> QED
    BY <1>5, <2>1, <2>3
<1>12. CASE ~(2 * c > q)
  <2>1. Abs(e) = c /\ c <= q - c
    BY <1>2, <1>3, <1>4, <1>12 DEF Centered, Abs
  <2>2. BitsOf(c) <= BitsOf(q - c)
    BY <1>4, <1>6, <2>1, BitsOfGrow
  <2>3. Least(S) = BitsOf(c)
    BY <1>7, <1>9, <1>10, <2>2
  <2> QED
    BY <1>5, <2>1, <2>3
<1> QED
  BY <1>11, <1>12

(* measure_noise returns the bits of the noise while the ciphertext is     *)
(* within its budget, and in every case at most the bits of the budget.    *)
THEOREM MeasuresNoise == Spec => []NoiseMeasured
<1>1. SchemeInv => NoiseMeasured
  <2> SUFFICES ASSUME SchemeInv, NEW i \in DOMAIN cts, Readable
               PROVE  /\ WithinBudget(cts[i]) => Measured(cts[i]) = BitsOf(Noise(cts[i]))
                      /\ 2 * par.t * (Powered(2, Measured(cts[i])) \div 2 - 1) < Q(cts[i].level)
    BY DEF NoiseMeasured
  <2> DEFINE ct == cts[i]
             e == Error(ct, Decrypted(ct))
             a == Abs(e)
             h == Powered(2, Measured(ct)) \div 2
             q == Q(ct.level)
             t == par.t
  <2>1. CipherTypes(ct) /\ IsBuilt /\ sk \in Int
    BY EveryCipher, ReadyFacts
  <2> HIDE DEF ct
  <2>2. Measured(ct) = BitsOf(Abs(e))
    BY <2>1, MeasuredIs
  <2>3. q \in Nat \ {0} /\ a \in Nat /\ t \in Nat \ {0} /\ t * a \in Int /\ 2 * (t * a) <= q + 2 * t - 2
    BY <2>1, DecryptedIs
  <2>4. WithinBudget(ct) => Measured(ct) = BitsOf(Noise(ct))
    <3> SUFFICES ASSUME WithinBudget(ct) PROVE Measured(ct) = BitsOf(Noise(ct))
      OBVIOUS
    <3>1. Decrypted(ct) = ct.want
      BY <2>1, Decrypts
    <3>2. Noise(ct) = Abs(Error(ct, ct.want))
      BY <2>1, NoiseIs
    <3> QED
      BY <2>2, <3>1, <3>2
  <2>5. h \in Nat /\ h <= a
    <3>1. h = Powered(2, BitsOf(a)) \div 2
      BY <2>2
    <3> HIDE DEF h, a
    <3> QED
      BY <2>3, <3>1, HalfPower
  <2> HIDE DEF h, a, q, t
  <2>6. 2 * t * (h - 1) < q
    <3>1. t * (a - h) >= 0 /\ t * (a - h) = t * a - t * h /\ t * h \in Int
      <4>1. a - h \in Nat
        BY <2>3, <2>5
      <4> QED
        BY <2>3, <2>5, <4>1
    <3>2. 2 * t * (h - 1) = 2 * (t * h) - 2 * t
      BY <2>3, <2>5
    <3> QED
      BY <2>3, <3>1, <3>2
  <2> QED
    BY <2>4, <2>6 DEF h, q, t, ct
<1> QED
  BY <1>1, SchemeHolds, PTL

-----------------------------------------------------------------------------
(* What a phase carries.  t times the phase F is q times a number that is  *)
(* the message w modulo t, and the rest a; the rest is within b when it is *)
(* what a noise of at most b and the rounding of to_poly leave.            *)

Carries(F, w, a, q, t) ==
    F \in Int /\ w \in Int /\ a \in Int /\ \E K \in Int : Same(K, w, t) /\ t * F = K * q + a

Within(a, b, t) == a \in Int /\ -(t * (b + 1)) < a /\ a <= t * b

LEMMA CarriesPlus ==
    ASSUME NEW q \in Nat \ {0}, NEW t \in Nat \ {0}, NEW F, NEW w, NEW a, NEW G, NEW v, NEW b,
           Carries(F, w, a, q, t), Carries(G, v, b, q, t)
    PROVE  Carries(F + G, w + v, a + b, q, t)
<1>1. PICK K \in Int : Same(K, w, t) /\ t * F = K * q + a
  BY DEF Carries
<1>2. PICK L \in Int : Same(L, v, t) /\ t * G = L * q + b
  BY DEF Carries
<1>3. F \in Int /\ w \in Int /\ a \in Int /\ G \in Int /\ v \in Int /\ b \in Int /\ t \in Int
  BY DEF Carries
<1>4. Same(K + L, w + v, t)
  BY <1>1, <1>2, <1>3, SameAdd
<1>5. t * (F + G) = t * F + t * G /\ (K + L) * q = K * q + L * q
      /\ K * q \in Int /\ L * q \in Int
  BY ONLY q \in Nat \ {0}, K \in Int, L \in Int, <1>3
<1>6. t * (F + G) = (K + L) * q + (a + b)
  BY ONLY <1>1, <1>2, <1>3, <1>5
<1>7. F + G \in Int /\ w + v \in Int /\ a + b \in Int /\ K + L \in Int
  BY <1>3
<1> QED
  BY <1>4, <1>6, <1>7 DEF Carries

LEMMA CarriesScaled ==
    ASSUME NEW q \in Nat \ {0}, NEW t \in Nat \ {0}, NEW F, NEW w, NEW a, NEW c \in Int,
           Carries(F, w, a, q, t)
    PROVE  Carries(c * F, c * w, c * a, q, t)
<1>1. PICK K \in Int : Same(K, w, t) /\ t * F = K * q + a
  BY DEF Carries
<1>2. F \in Int /\ w \in Int /\ a \in Int /\ t \in Int
  BY DEF Carries
<1>3. Same(c * K, c * w, t)
  BY <1>1, <1>2, SameScaled
<1>4. t * (c * F) = c * (t * F)
  BY ONLY <1>2, c \in Int
<1>5. c * (K * q + a) = (c * K) * q + c * a
  BY ONLY <1>2, c \in Int, K \in Int, q \in Nat \ {0}
<1>6. t * (c * F) = (c * K) * q + c * a
  BY ONLY <1>1, <1>4, <1>5
<1>7. c * F \in Int /\ c * w \in Int /\ c * a \in Int /\ c * K \in Int
  BY ONLY <1>2, c \in Int, K \in Int
<1> QED
  BY <1>3, <1>6, <1>7 DEF Carries

(* It does not depend on multiples of q, nor on multiples of t in w.       *)
LEMMA CarriesSame ==
    ASSUME NEW q \in Nat \ {0}, NEW t \in Nat \ {0}, NEW F, NEW w, NEW a, NEW G, NEW v,
           Carries(F, w, a, q, t), Same(G, F, q), Same(w, v, t)
    PROVE  Carries(G, v, a, q, t)
<1>1. PICK K \in Int : Same(K, w, t) /\ t * F = K * q + a
  BY DEF Carries
<1>2. PICK j \in Int : G = F + j * q
  BY DEF Same
<1>3. F \in Int /\ w \in Int /\ a \in Int /\ t \in Int /\ G \in Int /\ v \in Int /\ q \in Int
  BY DEF Carries, Same
<1>4. Same(K + t * j, w, t)
  <2>1. PICK l \in Int : K = w + l * t
    BY <1>1 DEF Same
  <2>2. (l + j) * t = l * t + t * j /\ l + j \in Int /\ t * j \in Int /\ l * t \in Int
    BY ONLY <1>3, l \in Int, j \in Int
  <2>3. K + t * j = w + (l + j) * t /\ K + t * j \in Int
    BY ONLY <1>3, <2>1, <2>2
  <2> QED
    BY <1>3, <2>2, <2>3 DEF Same
<1>5. Same(K + t * j, v, t)
  BY <1>3, <1>4, SameTransitive
<1>6. t * G = (K + t * j) * q + a
  <2> DEFINE y == j * q
  <2>1. y \in Int /\ G = F + y
    BY <1>2, <1>3
  <2>2. (K + t * j) * q = K * q + t * y /\ K * q \in Int
    BY ONLY <1>3, j \in Int, K \in Int
  <2> HIDE DEF y
  <2>3. t * G = t * F + t * y
    BY ONLY <1>3, <2>1
  <2> QED
    BY ONLY <1>1, <1>3, <2>1, <2>2, <2>3
<1>7. K + t * j \in Int
  BY <1>3
<1> QED
  BY <1>3, <1>5, <1>6, <1>7 DEF Carries

(* Noise carries the message 0. *)
LEMMA CarriesError ==
    ASSUME NEW q \in Nat \ {0}, NEW t \in Nat \ {0}, NEW e \in Int
    PROVE  Carries(e, 0, t * e, q, t)
<1>1. t \in Int /\ q \in Int /\ t * e \in Int /\ t * e = 0 * q + t * e /\ 0 \in Int
  OBVIOUS
<1>2. Same(0, 0, t)
  BY <1>1, SameReflexive
<1> QED
  BY <1>1, <1>2 DEF Carries

LEMMA CarriesMessage ==
    ASSUME IsBuilt, NEW k \in Levels, NEW m \in 0 .. par.t - 1
    PROVE  \E a : Carries(ToPoly(m, k), m, a, Q(k), par.t) /\ Within(a, 0, par.t)
<1> DEFINE T == ToPoly(m, k)
           t == par.t
           q == Q(k)
<1>1. q \in Nat \ {0} /\ t \in Nat \ {0}
  BY LevelFacts, BuiltTypes
<1>2. T \in Int /\ \E r \in 0 .. t - 1 : t * T = m * q - r
  BY ToPolyIs
<1>3. PICK r \in 0 .. t - 1 : t * T = m * q - r
  BY <1>2
<1> HIDE DEF T, t, q
<1>4. m \in Int /\ r \in Int /\ -r \in Int /\ t \in Int
  BY <1>1 DEF t
<1>5. m * q \in Int /\ t * T = m * q + (-r)
  BY <1>1, <1>3, <1>4
<1>6. Same(m, m, t)
  BY <1>4, SameReflexive
<1>7. Carries(T, m, -r, q, t)
  BY <1>2, <1>4, <1>5, <1>6 DEF Carries
<1>8. Within(-r, 0, t)
  BY <1>1, <1>4 DEF Within
<1> QED
  BY <1>7, <1>8 DEF T, t, q

(* A rest that is within b leaves a noise of at most b. *)
LEMMA CarriesOut ==
    ASSUME IsBuilt, NEW k \in Levels, NEW m \in 0 .. par.t - 1, NEW F, NEW a, NEW b \in Nat,
           Carries(F, m, a, Q(k), par.t), Within(a, b, par.t)
    PROVE  \E e \in Int : -b <= e /\ e <= b /\ Same(F, ToPoly(m, k) + e, Q(k))
<1> DEFINE T == ToPoly(m, k)
           t == par.t
           q == Q(k)
<1>1. q \in Nat \ {0} /\ t \in Nat \ {0}
  BY LevelFacts, BuiltTypes
<1>2. T \in Int /\ \E r \in 0 .. t - 1 : t * T = m * q - r
  BY ToPolyIs
<1>3. PICK r \in 0 .. t - 1 : t * T = m * q - r
  BY <1>2
<1>4. PICK K \in Int : Same(K, m, t) /\ t * F = K * q + a
  BY DEF Carries
<1>5. PICK j \in Int : K = m + j * t
  BY <1>4 DEF Same
<1>6. F \in Int /\ m \in Int /\ a \in Int
  BY DEF Carries
<1>7. -(t * (b + 1)) < a /\ a <= t * b
  BY DEF Within
<1> HIDE DEF T, t, q
<1> DEFINE y == j * q
           e == F - T - y
<1>8. y \in Int /\ e \in Int /\ e = F - T - y
  BY <1>1, <1>2, <1>6
<1>9. K * q = m * q + t * y /\ m * q \in Int
  BY ONLY <1>1, <1>5, <1>6, j \in Int
<1> HIDE DEF y, e
<1>10. t * e = t * F - t * T - t * y
  BY ONLY <1>1, <1>2, <1>6, <1>8
<1>11. t * e = a + r
  BY ONLY <1>1, <1>2, <1>3, <1>4, <1>6, <1>8, <1>9, <1>10
<1>12. t * (b + 1) = t * b + t /\ t * b \in Int
  BY ONLY <1>1, b \in Nat
<1>13. e <= b
  <2>1. t * (b + 1 - e) = t * b + t - t * e /\ b + 1 - e \in Int
    BY ONLY <1>1, <1>8, b \in Nat
  <2>2. t * (b + 1 - e) > 0
    BY ONLY <1>1, <1>6, <1>7, <1>11, <1>12, <2>1
  <2>3. b + 1 - e >= 1
    <3>1. (b + 1 - e) * t > 0
      BY ONLY <1>1, <2>1, <2>2
    <3> QED
      BY ONLY <1>1, <2>1, <3>1, Positive
  <2> QED
    BY <1>8, <2>3
<1>14. -b <= e
  <2>1. t * (b + 1 + e) = t * b + t + t * e /\ b + 1 + e \in Int
    BY ONLY <1>1, <1>8, b \in Nat
  <2>2. t * (b + 1 + e) > 0
    BY ONLY <1>1, <1>6, <1>7, <1>11, <1>12, <2>1
  <2>3. b + 1 + e >= 1
    <3>1. (b + 1 + e) * t > 0
      BY ONLY <1>1, <2>1, <2>2
    <3> QED
      BY ONLY <1>1, <2>1, <3>1, Positive
  <2> QED
    BY <1>8, <2>3
<1>15. Same(F, T + e, q)
  <2>1. F = (T + e) + j * q /\ T + e \in Int
    BY <1>2, <1>6, <1>8 DEF y
  <2> QED
    BY <1>6, <2>1 DEF Same
<1> QED
  BY <1>8, <1>13, <1>14, <1>15 DEF T, q

(* Rests of sums, differences and multiples. *)
LEMMA WithinPlus ==
    ASSUME NEW t \in Nat \ {0}, NEW a, NEW x \in Nat, NEW b, NEW y \in Nat, Within(a, x, t), Within(b, y, t)
    PROVE  Within(a + b, x + y + 1, t) /\ Within(a - b, x + y + 1, t)
<1>1. a \in Int /\ b \in Int /\ t * x \in Int /\ t * y \in Int
  BY DEF Within
<1>2. t * (x + 1) = t * x + t /\ t * (y + 1) = t * y + t /\ t * (x + y + 1) = t * x + t * y + t
      /\ t * (x + y + 1 + 1) = t * x + t * y + 2 * t
  BY <1>1
<1> QED
  BY <1>1, <1>2 DEF Within

LEMMA WithinMultiple ==
    ASSUME NEW t \in Nat \ {0}, NEW a, NEW x \in Nat, NEW m \in Nat, Within(a, x, t)
    PROVE  Within(m * a, m * (x + 1) + 1, t)
<1> DEFINE A == t * (x + 1)
           M == m * (x + 1)
<1>1. a \in Int /\ A \in Int /\ t * x \in Int /\ M \in Int /\ A = t * x + t /\ t * M = m * A /\ m * a \in Int
  BY DEF Within
<1>2. -A < a /\ a <= t * x
  BY DEF Within
<1> HIDE DEF A
<1>3. m * (a + A) >= 0 /\ m * (A - a) >= 0
  <2>1. a + A \in Nat /\ A - a \in Nat
    BY <1>1, <1>2
  <2> QED
    BY <2>1
<1>4. m * (a + A) = m * a + m * A /\ m * (A - a) = m * A - m * a /\ m * A \in Int
  BY <1>1
<1>5. -(t * M) <= m * a /\ m * a <= t * M
  BY <1>1, <1>3, <1>4
<1> HIDE DEF M
<1>6. t * (M + 1) = t * M + t /\ t * (M + 1 + 1) = t * M + 2 * t /\ t * M \in Int
  BY <1>1
<1>7. Within(m * a, M + 1, t)
  BY <1>1, <1>5, <1>6 DEF Within
<1> QED
  BY <1>7 DEF M

-----------------------------------------------------------------------------
(* Ciphertexts whose bound holds *)

Carried(z) == Eval(z.c, Len(z.c), sk)

Quiet(z) ==
    2 * z.bound < Q(z.level) =>
        \E a : Carries(Carried(z), z.want, a, Q(z.level), par.t) /\ Within(a, z.bound, par.t)

LEMMA QuietFacts ==
    ASSUME IsBuilt, sk \in Int, NEW x, CipherTypes(x)
    PROVE  /\ Carried(x) = Eval(x.c, Len(x.c), sk) /\ Carried(x) \in Int
           /\ Q(x.level) \in Nat \ {0} /\ par.t \in Nat \ {0} /\ par.t \in Int /\ Q(x.level) \in Int
<1>1. Q(x.level) \in Nat \ {0} /\ Ints(x.c, Len(x.c)) /\ Len(x.c) \in Nat
  BY CipherFacts
<1>2. Eval(x.c, Len(x.c), sk) \in Int
  BY <1>1, EvalSum
<1>3. par.t \in Nat \ {0}
  BY BuiltTypes
<1> QED
  BY <1>1, <1>2, <1>3 DEF Carried

LEMMA QuietBack ==
    ASSUME IsBuilt, sk \in Int, NEW z, NEW k, NEW n, NEW v, NEW u, NEW b, IsResult(z, k, n, v, u, b),
           NEW w, Same(w, u, par.t),
           2 * b < Q(k) => \E a : Carries(Eval(v, n, sk), w, a, Q(k), par.t) /\ Within(a, b, par.t)
    PROVE  Quiet(z)
<1> SUFFICES ASSUME 2 * z.bound < Q(z.level)
             PROVE  \E a : Carries(Carried(z), z.want, a, Q(z.level), par.t) /\ Within(a, z.bound, par.t)
  BY DEF Quiet
<1>1. /\ CipherTypes(z) /\ z.level = k /\ z.want = u /\ Len(z.c) = n /\ n \in Nat
      /\ 2 * z.bound < Q(k) => z.bound = b
      /\ \A i \in 1 .. n : v[i] \in Int /\ Same(z.c[i], v[i], Q(k))
  BY DEF IsResult
<1>2. z.bound = b /\ 2 * b < Q(k)
  BY <1>1
<1>3. PICK a : Carries(Eval(v, n, sk), w, a, Q(k), par.t) /\ Within(a, b, par.t)
  BY <1>2
<1>4. Q(k) \in Nat \ {0} /\ Q(k) \in Int /\ par.t \in Nat \ {0} /\ Carried(z) = Eval(z.c, n, sk)
  BY <1>1, QuietFacts
<1>5. Ints(z.c, n)
  BY <1>1, CipherFacts
<1>6. Ints(v, n)
  BY <1>1 DEF Ints
<1>7. Same(Eval(z.c, n, sk), Eval(v, n, sk), Q(k))
  BY <1>1, <1>4, <1>5, <1>6, EvalCongruent
<1>8. Carries(Carried(z), u, a, Q(k), par.t)
  BY <1>3, <1>4, <1>7, CarriesSame
<1> QED
  BY <1>1, <1>2, <1>3, <1>8

(* The want of a result that reduces its message. *)
LEMMA WantIs == ASSUME IsBuilt, NEW w \in Int PROVE Same(w, w % par.t, par.t)
<1>1. par.t \in Nat \ {0} /\ par.t \in Int
  BY BuiltTypes
<1>2. Same(w % par.t, w, par.t)
  BY <1>1, SameMod
<1> QED
  BY <1>1, <1>2, SameSymmetric

LEMMA QuietSum ==
    ASSUME IsBuilt, sk \in Int, NEW x, CipherTypes(x), NEW y, CipherTypes(y), x.level = y.level,
           Len(x.c) = Len(y.c), Quiet(x), Quiet(y), NEW z, z = Added(x, y) \/ z = Subtracted(x, y)
    PROVE  Quiet(z)
<1> DEFINE k == x.level
           n == Len(x.c)
           q == Q(k)
           t == par.t
           F == Carried(x)
           G == Carried(y)
           V == SumParts(x, y)
           D == DifferenceParts(x, y)
           M == MultipleParts(y, -1)
           b == x.bound + y.bound + 1
<1>1. /\ x.bound \in Nat /\ y.bound \in Nat /\ n \in Nat /\ x.want \in Int /\ y.want \in Int
      /\ \A i \in 1 .. n : x.c[i] \in Int /\ y.c[i] \in Int
      /\ Ints(x.c, n) /\ Ints(y.c, n)
  BY CipherFacts
<1>2. /\ F = Eval(x.c, n, sk) /\ F \in Int /\ G = Eval(y.c, n, sk) /\ G \in Int
      /\ q \in Nat \ {0} /\ t \in Nat \ {0} /\ q \in Int
  BY QuietFacts
<1>3. \A i \in 1 .. n : V[i] = x.c[i] + y.c[i]
  BY DEF SumParts
<1>7. \A i \in 1 .. n : M[i] = (-1) * y.c[i]
  BY DEF MultipleParts
<1>8. \A i \in 1 .. n : M[i] \in Int /\ D[i] = x.c[i] + M[i]
  <2> TAKE i \in 1 .. n
  <2> DEFINE c == x.c[i]
             e == y.c[i]
  <2>1. D[i] = c - e /\ M[i] = (-1) * e
    BY <1>7 DEF DifferenceParts
  <2>2. c \in Int /\ e \in Int
    BY <1>1
  <2> HIDE DEF c, e, M, D
  <2>3. M[i] \in Int /\ D[i] = c + M[i]
    BY <2>1, <2>2
  <2> QED
    BY <2>3 DEF c
<1>4. ASSUME 2 * b < q
      PROVE  \E a, d : /\ Carries(F, x.want, a, q, t) /\ Within(a, x.bound, t)
                       /\ Carries(G, y.want, d, q, t) /\ Within(d, y.bound, t)
  <2>1. 2 * x.bound < q /\ 2 * y.bound < q
    BY <1>1, <1>2, <1>4, SMTT(60)
  <2> QED
    BY <2>1 DEF Quiet
<1> HIDE DEF b, F, G, V, D, M, q, t, k
<1>5. CASE z = Added(x, y)
  <2>1. IsResult(z, x.level, n, V, (x.want + y.want) % par.t, b)
    BY <1>5, AddedIs DEF V, b
  <2>2. Eval(V, n, sk) = F + G
    <3>1. Eval(V, n, sk) = Eval(x.c, n, sk) + Eval(y.c, n, sk)
      <4> DEFINE c == x.c
                 d == y.c
      <4>1. n \in Nat /\ Ints(c, n) /\ Ints(d, n) /\ \A i \in 1 .. n : V[i] = c[i] + d[i]
        BY <1>1, <1>3
      <4> HIDE DEF c, d, n
      <4> QED
        BY <4>1, EvalPlus DEF c, d
    <3> QED
      BY <1>2, <3>1
  <2>3. ASSUME 2 * b < q PROVE \E a : Carries(F + G, x.want + y.want, a, q, t) /\ Within(a, b, t)
    <3>1. PICK a, d : /\ Carries(F, x.want, a, q, t) /\ Within(a, x.bound, t)
                      /\ Carries(G, y.want, d, q, t) /\ Within(d, y.bound, t)
      BY <1>4, <2>3
    <3>2. Carries(F + G, x.want + y.want, a + d, q, t)
      BY <1>2, <3>1, CarriesPlus
    <3>3. Within(a + d, b, t)
      BY <1>1, <1>2, <3>1, WithinPlus DEF b
    <3> QED
      BY <3>2, <3>3
  <2>4. Same(x.want + y.want, (x.want + y.want) % par.t, par.t)
    BY <1>1, WantIs
  <2>5. 2 * b < Q(x.level) => \E a : Carries(Eval(V, n, sk), x.want + y.want, a, Q(x.level), par.t) /\ Within(a, b, par.t)
    BY <2>2, <2>3 DEF q, t, k
  <2> QED
    BY <2>1, <2>4, <2>5, QuietBack
<1>6. CASE z = Subtracted(x, y)
  <2>1. IsResult(z, x.level, n, D, (x.want - y.want) % par.t, b)
    BY <1>6, SubtractedIs DEF D, b
  <2>2. Eval(D, n, sk) = F - G
    <3>1. Ints(M, n)
      BY <1>8 DEF Ints
    <3>2. Eval(M, n, sk) = (-1) * G
      <4>1. -1 \in Int
        OBVIOUS
      <4>2. Eval(M, n, sk) = (-1) * Eval(y.c, n, sk)
        <5> DEFINE c == y.c
        <5>1. n \in Nat /\ Ints(c, n) /\ \A i \in 1 .. n : M[i] = (-1) * c[i]
          BY <1>1, <1>7
        <5> HIDE DEF c, n
        <5>2. Eval(M, n, sk) = (-1) * Eval(c, n, sk)
          BY ONLY <4>1, <5>1, sk \in Int, EvalScaled, ZenonT(60)
        <5> QED
          BY <5>2 DEF c
      <4> QED
        BY <1>2, <4>2
    <3>3. Eval(D, n, sk) = F + Eval(M, n, sk)
      <4>1. \A i \in 1 .. n : D[i] = x.c[i] + M[i]
        BY <1>8
      <4>2. Eval(D, n, sk) = Eval(x.c, n, sk) + Eval(M, n, sk)
        BY <1>1, <3>1, <4>1, EvalPlus, SMTT(60)
      <4> QED
        BY <1>2, <4>2
    <3> QED
      BY <1>2, <3>2, <3>3
  <2>3. ASSUME 2 * b < q PROVE \E a : Carries(F - G, x.want - y.want, a, q, t) /\ Within(a, b, t)
    <3>1. PICK a, d : /\ Carries(F, x.want, a, q, t) /\ Within(a, x.bound, t)
                      /\ Carries(G, y.want, d, q, t) /\ Within(d, y.bound, t)
      BY <1>4, <2>3
    <3>2. Carries((-1) * G, (-1) * y.want, (-1) * d, q, t)
      <4>1. -1 \in Int
        OBVIOUS
      <4> QED
        BY <1>2, <3>1, <4>1, CarriesScaled
    <3>3. Carries(F + (-1) * G, x.want + (-1) * y.want, a + (-1) * d, q, t)
      BY <1>2, <3>1, <3>2, CarriesPlus
    <3>4. a \in Int /\ d \in Int
      BY <3>1 DEF Within
    <3>5. F + (-1) * G = F - G /\ x.want + (-1) * y.want = x.want - y.want /\ a + (-1) * d = a - d
      BY <1>1, <1>2, <3>4, SMTT(60)
    <3>6. Within(a - d, b, t)
      BY <1>1, <1>2, <3>1, WithinPlus DEF b
    <3> QED
      BY <3>3, <3>5, <3>6
  <2>4. Same(x.want - y.want, (x.want - y.want) % par.t, par.t)
    BY <1>1, WantIs
  <2>5. 2 * b < Q(x.level) => \E a : Carries(Eval(D, n, sk), x.want - y.want, a, Q(x.level), par.t) /\ Within(a, b, par.t)
    BY <2>2, <2>3 DEF q, t, k
  <2> QED
    BY <2>1, <2>4, <2>5, QuietBack
<1> QED
  BY <1>5, <1>6

(* Multiples: by a message, and by -1. *)
LEMMA EvalMultiple ==
    ASSUME IsBuilt, sk \in Int, NEW x, CipherTypes(x), NEW m \in Int
    PROVE  Eval(MultipleParts(x, m), Len(x.c), sk) = m * Carried(x)
<1> DEFINE n == Len(x.c)
           M == MultipleParts(x, m)
<1>1. n \in Nat /\ Ints(x.c, n)
  BY CipherFacts
<1>2. \A i \in 1 .. n : M[i] = m * x.c[i]
  BY DEF MultipleParts
<1> HIDE DEF M
<1>3. Eval(M, n, sk) = m * Eval(x.c, n, sk)
  BY <1>1, <1>2, EvalScaled, ZenonT(60)
<1> QED
  BY <1>3, QuietFacts DEF M

LEMMA QuietNegated ==
    ASSUME IsBuilt, sk \in Int, NEW x, CipherTypes(x), Quiet(x), NEW z, z = Negated(x)
    PROVE  Quiet(z)
<1> DEFINE k == x.level
           q == Q(k)
           t == par.t
           F == Carried(x)
           b == x.bound + 1
<1>1. x.bound \in Nat /\ x.want \in Int
  BY CipherFacts
<1>2. F \in Int /\ q \in Nat \ {0} /\ t \in Nat \ {0} /\ -1 \in Int
  BY QuietFacts
<1>3. IsResult(z, k, Len(x.c), MultipleParts(x, -1), (0 - x.want) % par.t, b)
  BY NegatedIs
<1>4. Eval(MultipleParts(x, -1), Len(x.c), sk) = (-1) * F
  BY <1>2, EvalMultiple
<1>5. ASSUME 2 * b < q PROVE \E a : Carries((-1) * F, 0 - x.want, a, q, t) /\ Within(a, b, t)
  <2>1. 2 * x.bound < q
    BY <1>1, <1>2, <1>5
  <2>2. PICK a : Carries(F, x.want, a, q, t) /\ Within(a, x.bound, t)
    BY <2>1 DEF Quiet
  <2> HIDE DEF F, q, t
  <2>3. Carries((-1) * F, (-1) * x.want, (-1) * a, q, t)
    BY <1>2, <2>2, CarriesScaled
  <2>4. (-1) * x.want = 0 - x.want
    BY <1>1
  <2>5. Within((-1) * a, b, t)
    <3>1. a \in Int /\ t * x.bound \in Int
      BY <1>1, <1>2, <2>2 DEF Within
    <3>2. t * (x.bound + 1) = t * x.bound + t /\ t * (x.bound + 1 + 1) = t * x.bound + 2 * t
      BY <1>1, <1>2
    <3> QED
      BY <1>2, <2>2, <3>1, <3>2 DEF Within
  <2> QED
    BY <2>3, <2>4, <2>5
<1>6. Same(0 - x.want, (0 - x.want) % par.t, par.t)
  BY <1>1, WantIs
<1>7. 2 * b < Q(k) => \E a : Carries(Eval(MultipleParts(x, -1), Len(x.c), sk), 0 - x.want, a, Q(k), par.t)
                             /\ Within(a, b, par.t)
  BY <1>4, <1>5
<1> QED
  BY <1>3, <1>6, <1>7, QuietBack

LEMMA QuietPlainMultiplied ==
    ASSUME IsBuilt, sk \in Int, NEW x, CipherTypes(x), Quiet(x), NEW m \in 1 .. par.t - 1,
           NEW z, z = PlainMultiplied(x, m)
    PROVE  Quiet(z)
<1> DEFINE k == x.level
           q == Q(k)
           t == par.t
           F == Carried(x)
           b == m * (x.bound + 1) + 1
<1>1. x.bound \in Nat /\ x.want \in Int /\ m \in Nat /\ m \in Int /\ m >= 1
  BY CipherFacts, BuiltTypes
<1>2. F \in Int /\ q \in Nat \ {0} /\ t \in Nat \ {0}
  BY QuietFacts
<1>3. IsResult(z, k, Len(x.c), MultipleParts(x, m), (x.want * m) % par.t, b)
  BY <1>1, PlainMultipliedIs
<1>4. Eval(MultipleParts(x, m), Len(x.c), sk) = m * F
  BY <1>1, EvalMultiple
<1>5. x.bound <= b /\ b \in Nat
  <2>1. (m - 1) * (x.bound + 1) >= 0 /\ (m - 1) * (x.bound + 1) = m * (x.bound + 1) - x.bound - 1
        /\ m * (x.bound + 1) \in Nat
    <3>1. m - 1 \in Nat /\ x.bound + 1 \in Nat
      BY <1>1
    <3> QED
      BY <1>1, <3>1
  <2> QED
    BY <1>1, <2>1
<1>6. ASSUME 2 * b < q PROVE \E a : Carries(m * F, x.want * m, a, q, t) /\ Within(a, b, t)
  <2>1. 2 * x.bound < q
    BY <1>1, <1>2, <1>5, <1>6
  <2>2. PICK a : Carries(F, x.want, a, q, t) /\ Within(a, x.bound, t)
    BY <2>1 DEF Quiet
  <2> HIDE DEF F, q, t
  <2>3. Carries(m * F, m * x.want, m * a, q, t)
    BY <1>1, <1>2, <2>2, CarriesScaled
  <2>4. m * x.want = x.want * m
    BY <1>1
  <2>5. Within(m * a, b, t)
    BY <1>1, <1>2, <2>2, WithinMultiple
  <2> QED
    BY <2>3, <2>4, <2>5
<1>7. Same(x.want * m, (x.want * m) % par.t, par.t)
  <2>1. x.want * m \in Int
    BY <1>1
  <2> QED
    BY <2>1, WantIs
<1>8. 2 * b < Q(k) => \E a : Carries(Eval(MultipleParts(x, m), Len(x.c), sk), x.want * m, a, Q(k), par.t)
                             /\ Within(a, b, par.t)
  BY <1>4, <1>6
<1> QED
  BY <1>3, <1>7, <1>8, QuietBack

LEMMA EvalFirst ==
    ASSUME NEW s \in Int, NEW n \in Nat \ {0}, NEW T \in Int, NEW h,
           \A i \in 1 .. n : h[i] = IF i = 1 THEN T ELSE 0
    PROVE  Ints(h, n) /\ Eval(h, n, s) = T
<1> DEFINE S == {i \in 0 .. n : i = 0 \/ Eval(h, i, s) = T}
<1>1. \A i \in 0 .. n : Ints(h, i)
  BY DEF Ints
<1>2. 0 \in S
  OBVIOUS
<1>3. \A i \in 0 .. n - 1 : i \in S => i + 1 \in S
  <2> SUFFICES ASSUME NEW i \in 0 .. n - 1, i \in S PROVE i + 1 \in S
    OBVIOUS
  <2>1. i + 1 \in 0 .. n /\ i \in Nat /\ i + 1 \in 1 .. n
    OBVIOUS
  <2>2. Ints(h, i + 1)
    BY <1>1, <2>1
  <2>3. /\ Eval(h, 0, s) = 0 /\ Eval(h, i, s) \in Int
        /\ Eval(h, i + 1, s) = Eval(h, i, s) + h[i + 1] * Powered(s, i)
    BY <2>1, <2>2, EvalNext
  <2>4. Powered(s, i) \in Int /\ Powered(s, 0) = 1
    BY <2>1, PoweredNext
  <2>5. CASE i = 0
    <3>1. h[i + 1] = T /\ h[i + 1] * Powered(s, i) = T
      BY <2>1, <2>4, <2>5
    <3> QED
      BY <2>1, <2>3, <2>5, <3>1
  <2>6. CASE i # 0
    <3>1. h[i + 1] = 0
      BY <2>1, <2>6
    <3>2. h[i + 1] * Powered(s, i) = 0
      BY <2>4, <3>1
    <3>3. Eval(h, i, s) = T
      BY <2>6
    <3>4. Eval(h, i + 1, s) = T
      BY <2>3, <3>2, <3>3
    <3> QED
      BY <2>1, <3>4
  <2> QED
    BY <2>5, <2>6
<1> HIDE DEF S
<1>4. \A i \in 0 .. n : i \in S
  BY <1>2, <1>3, InductionUpTo
<1>5. n \in S
  BY <1>4
<1> QED
  BY <1>1, <1>5 DEF S

LEMMA EvalAdded ==
    ASSUME IsBuilt, sk \in Int, NEW x, CipherTypes(x), NEW T \in Int
    PROVE  Eval(AddedParts(x, T), Len(x.c), sk) = Carried(x) + T
<1> DEFINE n == Len(x.c)
           c == x.c
           V == AddedParts(x, T)
           h == [i \in 1 .. n |-> IF i = 1 THEN T ELSE 0]
<1>1. n \in Nat \ {0} /\ n \in Nat /\ Ints(c, n) /\ Carried(x) = Eval(c, n, sk)
  BY CipherFacts, QuietFacts
<1>2. \A i \in 1 .. n : h[i] = IF i = 1 THEN T ELSE 0
  OBVIOUS
<1>3. \A i \in 1 .. n : V[i] = IF i = 1 THEN c[1] + T ELSE c[i]
  BY DEF AddedParts
<1> HIDE DEF n, c, V, h
<1>4. Ints(h, n) /\ Eval(h, n, sk) = T
  BY <1>1, <1>2, EvalFirst
<1>5. \A i \in 1 .. n : V[i] = c[i] + h[i]
  <2> TAKE i \in 1 .. n
  <2>1. c[i] \in Int
    BY <1>1 DEF Ints
  <2>2. CASE i = 1
    BY <1>2, <1>3, <2>2
  <2>3. CASE i # 1
    BY <1>2, <1>3, <2>1, <2>3
  <2> QED
    BY <2>2, <2>3
<1>6. Eval(V, n, sk) = Eval(c, n, sk) + Eval(h, n, sk)
  BY <1>1, <1>4, <1>5, EvalPlus
<1> QED
  BY <1>1, <1>4, <1>6 DEF n, V

LEMMA QuietPlainAdded ==
    ASSUME IsBuilt, sk \in Int, NEW x, CipherTypes(x), Quiet(x), NEW m \in 0 .. par.t - 1,
           NEW z, z = PlainAdded(x, m)
    PROVE  Quiet(z)
<1> DEFINE k == x.level
           q == Q(k)
           t == par.t
           F == Carried(x)
           T == ToPoly(m, k)
           V == AddedParts(x, T)
           b == x.bound + 1
<1>1. x.bound \in Nat /\ x.want \in Int /\ m \in Int /\ k \in Levels
  BY CipherFacts, MessageReduced
<1>2. F \in Int /\ q \in Nat \ {0} /\ t \in Nat \ {0}
  BY QuietFacts
<1>3. IsResult(z, k, Len(x.c), V, (x.want + m) % par.t, b)
  BY PlainAddedIs
<1>4. T \in Int
  BY <1>1, ToPolyIs
<1>5. Eval(V, Len(x.c), sk) = F + T
  BY <1>4, EvalAdded
<1>6. ASSUME 2 * b < q PROVE \E a : Carries(F + T, x.want + m, a, q, t) /\ Within(a, b, t)
  <2>1. 2 * x.bound < q
    BY <1>1, <1>2, <1>6
  <2>2. PICK a : Carries(F, x.want, a, q, t) /\ Within(a, x.bound, t)
    BY <2>1 DEF Quiet
  <2>3. PICK d : Carries(T, m, d, q, t) /\ Within(d, 0, t)
    BY <1>1, CarriesMessage
  <2> HIDE DEF F, q, t, T
  <2>4. Carries(F + T, x.want + m, a + d, q, t)
    BY <1>2, <2>2, <2>3, CarriesPlus
  <2>5. Within(a + d, x.bound + 0 + 1, t)
    BY <1>1, <1>2, <2>2, <2>3, 0 \in Nat, WithinPlus
  <2>6. x.bound + 0 + 1 = b
    BY <1>1
  <2> QED
    BY <2>4, <2>5, <2>6
<1>7. Same(x.want + m, (x.want + m) % par.t, par.t)
  BY <1>1, WantIs
<1>8. 2 * b < Q(k) => \E a : Carries(Eval(V, Len(x.c), sk), x.want + m, a, Q(k), par.t) /\ Within(a, b, par.t)
  BY <1>5, <1>6
<1> HIDE DEF V
<1> QED
  BY <1>3, <1>7, <1>8, QuietBack

(* A small number carried with a message.                                  *)
LEMMA CarriesNoisy ==
    ASSUME IsBuilt, NEW k \in Levels, NEW m \in 0 .. par.t - 1, NEW e \in Int
    PROVE  \E a : Carries(e + ToPoly(m, k), m, a, Q(k), par.t) /\ Within(a, Abs(e), par.t)
<1> DEFINE q == Q(k)
           t == par.t
           T == ToPoly(m, k)
           b == Abs(e)
<1>1. q \in Nat \ {0} /\ t \in Nat \ {0}
  BY LevelFacts, BuiltTypes
<1>2. PICK d : Carries(T, m, d, q, t) /\ Within(d, 0, t)
  BY CarriesMessage
<1>3. b \in Nat /\ -b <= e /\ e <= b
  BY DEF Abs
<1> HIDE DEF q, t, T, b
<1>4. Carries(e, 0, t * e, q, t)
  BY <1>1, CarriesError
<1>5. Carries(e + T, 0 + m, t * e + d, q, t)
  BY <1>1, <1>2, <1>4, CarriesPlus
<1>6. 0 + m = m
  <2>1. m \in Int
    BY MessageReduced
  <2> QED
    BY <2>1
<1>7. Within(t * e + d, b, t)
  <2>1. d \in Int /\ -t < d /\ d <= 0
    <3>1. t * (0 + 1) = t /\ t * 0 = 0
      BY <1>1
    <3> QED
      BY <1>1, <1>2, <3>1 DEF Within
  <2>2. t * (b - e) >= 0 /\ t * (b + e) >= 0
    <3>1. b - e \in Nat /\ b + e \in Nat
      BY <1>3
    <3> QED
      BY <1>1, <3>1
  <2>3. /\ t * (b - e) = t * b - t * e /\ t * (b + e) = t * b + t * e /\ t * (b + 1) = t * b + t
        /\ t * b \in Int /\ t * e \in Int
    BY <1>1, <1>3
  <2> QED
    BY <1>1, <2>1, <2>2, <2>3 DEF Within
<1> QED
  BY <1>5, <1>6, <1>7 DEF q, t, T, b

LEMMA QuietSecret ==
    ASSUME IsBuilt, sk \in Int, NEW k \in Levels, NEW m \in 0 .. par.t - 1, NEW a \in 0 .. Q(k) - 1,
           NEW e \in Int, NEW z, SecretFresh(z, m, k, a, e)
    PROVE  Quiet(z)
<1> DEFINE T == ToPoly(m, k)
           v == << e - a * sk + T, a >>
<1>1. IsResult(z, k, 2, v, m, Abs(e))
  BY SecretEncryptedIs DEF SecretFresh
<1>2. T \in Int /\ a \in Int /\ Q(k) \in Nat \ {0} /\ a * sk \in Int /\ par.t \in Int
  <2>1. Q(k) \in Nat \ {0} /\ par.t \in Int
    BY LevelFacts, BuiltTypes
  <2>2. T \in Int
    BY ToPolyIs
  <2>3. a \in Int
    BY <2>1
  <2> QED
    BY <2>1, <2>2, <2>3
<1>3. Eval(v, 2, sk) = e + T
  <2>1. v[1] = e - a * sk + T /\ v[2] = a
    OBVIOUS
  <2> HIDE DEF v, T
  <2>2. v[1] \in Int /\ v[2] \in Int
    BY <1>2, <2>1
  <2>3. Eval(v, 2, sk) = v[1] + v[2] * sk
    BY <2>2, EvalTwo
  <2>4. v[2] * sk = a * sk
    BY <2>1
  <2> QED
    BY <1>2, <2>1, <2>3, <2>4
<1>4. \E d : Carries(Eval(v, 2, sk), m, d, Q(k), par.t) /\ Within(d, Abs(e), par.t)
  BY <1>3, CarriesNoisy
<1>5. Same(m, m, par.t)
  BY <1>2, MessageReduced, SameReflexive
<1> HIDE DEF v
<1> QED
  BY <1>1, <1>4, <1>5, QuietBack

-----------------------------------------------------------------------------
(* Switching down *)

LEMMA SwitchedPartIs ==
    ASSUME NEW x \in Int, NEW p \in Nat \ {0}, NEW v, v = SwitchedPart(x, p)
    PROVE  v \in Int /\ p * v \in Int /\ -p <= 2 * (x - p * v) /\ 2 * (x - p * v) <= p
<1> DEFINE h == p \div 2
           y == x + h
           r == y % p
<1>1. v = y \div p
  BY DEF SwitchedPart
<1>2. h \in Int /\ 2 * h <= p /\ p <= 2 * h + 1
  OBVIOUS
<1> HIDE DEF h
<1>3. y \in Int /\ y = x + h
  BY <1>2
<1> HIDE DEF y
<1>4. v \in Int /\ r \in Int /\ 0 <= r /\ r < p /\ y = v * p + r
  BY ONLY <1>1, <1>3, p \in Nat \ {0}, Remainder
<1>5. v * p = p * v /\ p * v \in Int
  BY <1>4
<1> HIDE DEF r
<1> QED
  BY <1>2, <1>3, <1>4, <1>5

LEMMA TimesBetween ==
    ASSUME NEW t \in Nat, NEW x \in Int, NEW y \in Int, x <= y
    PROVE  t * x \in Int /\ t * y \in Int /\ t * x <= t * y
<1>1. y - x \in Nat
  OBVIOUS
<1>2. t * (y - x) >= 0 /\ t * (y - x) = t * y - t * x /\ t * x \in Int /\ t * y \in Int
  BY <1>1
<1> QED
  BY <1>2

(* The numbers of a switch to the next level. *)
SwitchedValues(p, r, q, t, F, G, E, K, a, w, b, d) ==
    /\ p \in Nat \ {0}
    /\ r \in Nat \ {0}
    /\ q = p * r
    /\ t \in Nat \ {0}
    /\ F \in Int
    /\ G \in Int
    /\ E \in Int
    /\ F = p * G + E
    /\ K \in Int
    /\ t * F = K * q + a
    /\ w \in Nat
    /\ -(p * w) <= 2 * E
    /\ 2 * E <= p * w
    /\ b \in Nat
    /\ Within(a, b, t)
    /\ d = t * G - K * r

LEMMA SwitchedRest ==
    ASSUME NEW p, NEW r, NEW q, NEW t, NEW F, NEW G, NEW E, NEW K, NEW a, NEW w, NEW b, NEW d,
           SwitchedValues(p, r, q, t, F, G, E, K, a, w, b, d)
    PROVE  d \in Int /\ t * G = K * r + d /\ Within(d, (b \div p) + w + 2, t)
<1> SUFFICES ASSUME p \in Nat \ {0},
                    r \in Nat \ {0},
                    q = p * r,
                    t \in Nat \ {0},
                    F \in Int,
                    G \in Int,
                    E \in Int,
                    F = p * G + E,
                    K \in Int,
                    t * F = K * q + a,
                    w \in Nat,
                    -(p * w) <= 2 * E,
                    2 * E <= p * w,
                    b \in Nat,
                    Within(a, b, t),
                    d = t * G - K * r
             PROVE  d \in Int /\ t * G = K * r + d /\ Within(d, (b \div p) + w + 2, t)
  BY DEF SwitchedValues
<1> DEFINE u == b \div p
           v == u + w + 2
           x == t * G
           y == K * r
           z == t * E
           s == t * v
           m == p * w
           o == t * m
           j == t * b
<1>1. a \in Int /\ -(t * (b + 1)) < a /\ a <= t * b
  BY DEF Within
<1>2. t * (b + 1) = j + t /\ j \in Int
  OBVIOUS
<1>3. u \in Nat /\ b = u * p + (b % p) /\ b % p < p /\ b % p >= 0 /\ b % p \in Int
  OBVIOUS
<1>4. v \in Nat /\ p * v = u * p + m + 2 * p /\ u * p \in Int /\ m \in Int /\ p * v \in Int
  BY <1>3
<1>5. b + 1 + p + m <= p * v
  BY ONLY <1>3, <1>4, p \in Nat \ {0}, b \in Nat
<1>6. x \in Int /\ y \in Int /\ z \in Int /\ s \in Int /\ o \in Int /\ d = x - y
  BY <1>4
<1>7. p * d = a - z
  <2>1. t * F = p * x + z
    BY ONLY t \in Nat \ {0}, p \in Nat \ {0}, G \in Int, E \in Int, F = p * G + E
  <2>2. K * q = p * y
    BY ONLY K \in Int, p \in Nat \ {0}, r \in Nat \ {0}, q = p * r
  <2>3. p * d = p * x - p * y /\ p * x \in Int /\ p * y \in Int
    BY ONLY <1>6, p \in Nat \ {0}
  <2> QED
    BY ONLY <1>1, <1>6, <2>1, <2>2, <2>3, t * F = K * q + a
<1>8. -o <= 2 * z /\ 2 * z <= o
  <2>1. m \in Int /\ 2 * E \in Int /\ -m \in Int /\ -m <= 2 * E /\ 2 * E <= m /\ t \in Nat
    BY <1>4
  <2> HIDE DEF m
  <2>2. t * (2 * E) <= t * m /\ t * (-m) <= t * (2 * E)
    BY ONLY <2>1, TimesBetween
  <2>3. t * (2 * E) = 2 * z /\ t * (-m) = -o
    BY ONLY <2>1, t \in Nat \ {0}, E \in Int
  <2> QED
    BY <2>2, <2>3
<1>9. p * s = t * (p * v) /\ j + t + t * p + o <= t * (p * v) /\ t * p \in Nat /\ t * (p * v) \in Int /\ o >= 0
  <2>1. p * s = t * (p * v)
    BY ONLY <1>4, p \in Nat \ {0}, t \in Nat \ {0}
  <2>2. t * (b + 1 + p + m) <= t * (p * v)
    <3>1. b + 1 + p + m \in Int /\ t \in Nat
      BY <1>4
    <3> QED
      BY ONLY <1>4, <1>5, <3>1, TimesBetween
  <2>3. t * (b + 1 + p + m) = j + t + t * p + o
    BY ONLY <1>4, p \in Nat \ {0}, t \in Nat \ {0}, b \in Nat
  <2>4. m >= 0
    BY ONLY w \in Nat, p \in Nat \ {0}
  <2>5. m \in Nat
    BY <1>4, <2>4
  <2>6. o >= 0
    BY ONLY <2>5, t \in Nat \ {0}
  <2>7. t * p \in Nat /\ t * (p * v) \in Int
    BY ONLY <1>4, p \in Nat \ {0}, t \in Nat \ {0}
  <2> QED
    BY <2>1, <2>2, <2>3, <2>6, <2>7
<1>10. d \in Int /\ x = y + d
  BY <1>6
<1> HIDE DEF u, v, x, y, z, s, m, o, j
<1>10a. p * s - p * d + p > 0 /\ p * s + p * d + p > 0
  <2> DEFINE A == t * (p * v)
             S == p * s
             D == p * d
             T == t * p
  <2>1. /\ A \in Int /\ S = A /\ D = a - z /\ T >= 0 /\ T \in Int /\ j + t + T + o <= A
        /\ a \in Int /\ z \in Int /\ o \in Int /\ j \in Int /\ a <= j /\ -(j + t) < a
        /\ -o <= 2 * z /\ 2 * z <= o /\ o >= 0 /\ t \in Nat /\ p \in Nat \ {0}
    BY <1>1, <1>2, <1>6, <1>7, <1>8, <1>9 DEF j
  <2> HIDE DEF A, S, D, T
  <2>2. S - D + p > 0 /\ S + D + p > 0
    BY ONLY <2>1
  <2> QED
    BY <2>2 DEF S, D
<1>11. d <= s
  <2>1. (s - d + 1) * p = p * s - p * d + p /\ s - d + 1 \in Int /\ p * s \in Int /\ p * d \in Int
    BY ONLY <1>6, <1>10, p \in Nat \ {0}
  <2>2. (s - d + 1) * p > 0
    BY ONLY <1>10a, <2>1
  <2>3. s - d + 1 >= 1
    BY ONLY <2>1, <2>2, p \in Nat \ {0}, Positive
  <2> QED
    BY <1>6, <1>10, <2>3
<1>12. -s <= d
  <2>1. (s + d + 1) * p = p * s + p * d + p /\ s + d + 1 \in Int /\ p * s \in Int /\ p * d \in Int
    BY ONLY <1>6, <1>10, p \in Nat \ {0}
  <2>2. (s + d + 1) * p > 0
    BY ONLY <1>10a, <2>1
  <2>3. s + d + 1 >= 1
    BY ONLY <2>1, <2>2, p \in Nat \ {0}, Positive
  <2> QED
    BY <1>6, <1>10, <2>3
<1>13. Within(d, v, t)
  <2>1. t * (v + 1) = s + t /\ t * v = s
    BY <1>4 DEF s
  <2> QED
    BY <1>6, <1>10, <1>11, <1>12, <2>1 DEF Within
<1> QED
  BY <1>10, <1>13 DEF u, v, x, y

LEMMA EvalSwitched ==
    ASSUME IsBuilt, sk \in Int, NEW x, CipherTypes(x), NEW p \in Nat \ {0}, NEW w, w = Weight(Len(x.c)),
           NEW G, G = Eval(SwitchedParts(x, p), Len(x.c), sk)
    PROVE  /\ G \in Int /\ w \in Nat
           /\ \E E \in Int : Carried(x) = p * G + E /\ -(p * w) <= 2 * E /\ 2 * E <= p * w
<1> DEFINE n == Len(x.c)
           c == x.c
           V == SwitchedParts(x, p)
           H == [i \in 1 .. n |-> p * V[i]]
           R == [i \in 1 .. n |-> c[i] - p * V[i]]
<1>1. n \in Nat /\ Ints(c, n) /\ Carried(x) = Eval(c, n, sk)
  BY CipherFacts, QuietFacts
<1>2. \A i \in 1 .. n : V[i] = SwitchedPart(c[i], p)
  BY DEF SwitchedParts
<1>3. w = WeightOf(n, sk) /\ w \in Nat
  BY <1>1, WeightIs
<1>4. G = Eval(V, n, sk)
  OBVIOUS
<1> HIDE DEF n, c, V
<1>5. \A i \in 1 .. n : /\ c[i] \in Int /\ V[i] \in Int /\ p * V[i] \in Int
                        /\ -p <= 2 * (c[i] - p * V[i]) /\ 2 * (c[i] - p * V[i]) <= p
  <2> TAKE i \in 1 .. n
  <2>1. c[i] \in Int
    BY <1>1 DEF Ints
  <2>2. V[i] = SwitchedPart(c[i], p)
    BY <1>2
  <2> QED
    BY <2>1, <2>2, SwitchedPartIs
<1>6. \A i \in 1 .. n : H[i] = p * V[i] /\ R[i] = c[i] - p * V[i]
  OBVIOUS
<1> HIDE DEF H, R
<1>7. \A i \in 1 .. n : /\ H[i] \in Int /\ R[i] \in Int /\ c[i] = H[i] + R[i]
                        /\ -p <= 2 * R[i] /\ 2 * R[i] <= p
  <2> TAKE i \in 1 .. n
  <2> DEFINE y == p * V[i]
             z == c[i]
  <2>1. y \in Int /\ z \in Int /\ -p <= 2 * (z - y) /\ 2 * (z - y) <= p
    BY <1>5
  <2>2. H[i] = y /\ R[i] = z - y
    BY <1>6
  <2> HIDE DEF y, z
  <2>3. H[i] \in Int /\ R[i] \in Int /\ z = H[i] + R[i] /\ -p <= 2 * R[i] /\ 2 * R[i] <= p
    BY <2>1, <2>2
  <2> QED
    BY <2>3 DEF z
<1>8. Ints(V, n) /\ Ints(H, n) /\ Ints(R, n)
  BY <1>5, <1>7 DEF Ints
<1>9. Eval(c, n, sk) = Eval(H, n, sk) + Eval(R, n, sk)
  BY <1>1, <1>7, <1>8, EvalPlus
<1>10. Eval(H, n, sk) = p * G
  <2>1. p \in Int /\ \A i \in 1 .. n : H[i] = p * V[i]
    BY <1>6
  <2>2. Eval(H, n, sk) = p * Eval(V, n, sk)
    BY <1>1, <1>8, <2>1, EvalScaled
  <2> QED
    BY <1>4, <2>2
<1>11. G \in Int /\ Eval(R, n, sk) \in Int
  BY <1>1, <1>4, <1>8, EvalSum
<1>12. -(p * w) <= 2 * Eval(R, n, sk) /\ 2 * Eval(R, n, sk) <= p * w
  <2>1. \A i \in 1 .. n : -p <= 2 * R[i] /\ 2 * R[i] <= p
    BY <1>7
  <2>2. p \in Nat
    OBVIOUS
  <2>3. -(p * WeightOf(n, sk)) <= 2 * Eval(R, n, sk) /\ 2 * Eval(R, n, sk) <= p * WeightOf(n, sk)
    BY <1>1, <1>8, <2>1, <2>2, EvalBound
  <2> QED
    BY <1>3, <2>3
<1> QED
  BY <1>1, <1>3, <1>9, <1>10, <1>11, <1>12

LEMMA QuietSwitched ==
    ASSUME IsBuilt, sk \in Int, NEW x, CipherTypes(x), Quiet(x), x.level + 1 < Len(par.moduli),
           NEW z, z = SwitchedDown(x)
    PROVE  Quiet(z)
<1> DEFINE k == x.level
           n == Len(x.c)
           q == Q(k)
           r == Q(k + 1)
           t == par.t
           p == LastModulus(k)
           w == Weight(n)
           b == (x.bound \div p) + w + 2
           V == SwitchedParts(x, p)
           G == Eval(V, n, sk)
           F == Carried(x)
<1>1. /\ p \in Nat \ {0} /\ q = p * r /\ k + 1 \in Levels
      /\ IsResult(z, k + 1, n, V, x.want, b)
  BY SwitchedDownIs
<1>2. r \in Nat \ {0} /\ q \in Nat \ {0} /\ t \in Nat \ {0} /\ t \in Int
  <2>1. r \in Nat \ {0}
    BY <1>1, LevelFacts
  <2> QED
    BY <2>1, QuietFacts
<1>3. x.bound \in Nat /\ x.want \in Int /\ F \in Int
  BY CipherFacts, QuietFacts
<1>4. /\ G \in Int /\ w \in Nat
      /\ \E E \in Int : F = p * G + E /\ -(p * w) <= 2 * E /\ 2 * E <= p * w
  BY <1>1, EvalSwitched
<1>5. Same(x.want, x.want, t)
  BY <1>2, <1>3, SameReflexive
<1>6. 2 * b < r => 2 * x.bound < q
  <2> SUFFICES ASSUME 2 * b < r PROVE 2 * x.bound < q
    OBVIOUS
  <2> DEFINE y == x.bound
             u == y \div p
  <2>2. 2 * (u + w + 2) < r /\ y \in Nat /\ p \in Nat \ {0}
    BY <1>1, <1>3
  <2> HIDE DEF y, p, r, q, w
  <2>1. y \in Nat /\ u \in Nat /\ y = u * p + (y % p) /\ y % p < p /\ y % p >= 0 /\ y % p \in Int
    BY ONLY <2>2
  <2> HIDE DEF u
  <2>3. p * r >= p * (2 * (u + 1)) /\ p * (2 * (u + 1)) = 2 * (u * p) + 2 * p /\ u * p \in Int
    <3>1. r - 2 * (u + 1) \in Nat /\ p * (r - 2 * (u + 1)) >= 0
      <4>1. r - 2 * (u + 1) \in Nat
        BY <1>2, <1>4, <2>1, <2>2
      <4> QED
        BY <1>1, <4>1
    <3>2. p * (r - 2 * (u + 1)) = p * r - p * (2 * (u + 1)) /\ p * r \in Int /\ p * (2 * (u + 1)) \in Int
      BY <1>1, <1>2, <2>1
    <3>3. p * (2 * (u + 1)) = 2 * (u * p) + 2 * p /\ u * p \in Int
      BY <1>1, <2>1
    <3> QED
      BY <3>1, <3>2, <3>3
  <2>4. 2 * y < p * r
    <3>1. p * r \in Int
      BY <1>1, <1>2
    <3> QED
      BY <1>1, <2>1, <2>3, <3>1
  <2> QED
    BY <1>1, <2>4 DEF y
<1>7. ASSUME 2 * b < r PROVE \E a : Carries(G, x.want, a, r, t) /\ Within(a, b, t)
  <2>1. 2 * x.bound < q
    BY <1>6, <1>7
  <2>2. PICK a : Carries(F, x.want, a, q, t) /\ Within(a, x.bound, t)
    BY <2>1 DEF Quiet
  <2>3. PICK K \in Int : Same(K, x.want, t) /\ t * F = K * q + a
    BY <2>2 DEF Carries
  <2>4. PICK E \in Int : F = p * G + E /\ -(p * w) <= 2 * E /\ 2 * E <= p * w
    BY <1>4
  <2> DEFINE d == t * G - K * r
  <2>5. d = t * G - K * r
    OBVIOUS
  <2> HIDE DEF d, p, r, q, w, t, F, G
  <2>6. q = p * r
    BY <1>1
  <2>7. d \in Int /\ t * G = K * r + d /\ Within(d, (x.bound \div p) + w + 2, t)
    <3>1. SwitchedValues(p, r, q, t, F, G, E, K, a, w, x.bound, d)
      BY ONLY E \in Int, K \in Int, <1>1, <1>2, <1>3, <1>4, <2>2, <2>3, <2>4, <2>5, <2>6 DEF SwitchedValues
    <3> QED
      BY ONLY <3>1, SwitchedRest
  <2>8. Carries(G, x.want, d, r, t)
    BY <1>3, <1>4, <2>3, <2>7 DEF Carries
  <2> QED
    BY <2>7, <2>8
<1>8. 2 * b < Q(k + 1) => \E a : Carries(Eval(V, n, sk), x.want, a, Q(k + 1), par.t) /\ Within(a, b, par.t)
  BY <1>7
<1> HIDE DEF V, b, n, k
<1> QED
  BY <1>1, <1>5, <1>8, QuietBack DEF t

-----------------------------------------------------------------------------
(* Encryption with the public key *)

LEMMA AbsSum ==
    ASSUME NEW x \in Int, NEW y \in Int
    PROVE  Abs(x) \in Nat /\ Abs(y) \in Nat /\ Abs(x + y) \in Nat /\ Abs(x + y) <= Abs(x) + Abs(y)
  BY DEF Abs

LEMMA TimesWithin ==
    ASSUME NEW u \in Int, NEW A \in Int, NEW a \in Int, -A <= a, a <= A
    PROVE  u * a \in Int /\ Abs(u) \in Nat /\ Abs(u) * A \in Int
           /\ -(Abs(u) * A) <= u * a /\ u * a <= Abs(u) * A
<1> DEFINE U == Abs(u)
<1>1. U \in Nat /\ (u = U \/ u = -U)
  BY DEF Abs
<1> HIDE DEF U
<1>2. U * (A - a) >= 0 /\ U * (a + A) >= 0
  <2>1. A - a \in Nat /\ a + A \in Nat
    OBVIOUS
  <2> QED
    BY <1>1, <2>1
<1>3. U * (A - a) = U * A - U * a /\ U * (a + A) = U * a + U * A /\ U * a \in Int /\ U * A \in Int
  BY <1>1
<1>4. u * a \in Int /\ (u * a = U * a \/ u * a = -(U * a))
  <2>1. (-U) * a = -(U * a)
    BY <1>1
  <2> QED
    BY <1>1, <1>3, <2>1
<1> QED
  BY <1>1, <1>2, <1>3, <1>4 DEF U

LEMMA WithinPublic ==
    ASSUME NEW t \in Nat \ {0}, NEW a, NEW x \in Nat, Within(a, x, t), NEW u \in Int,
           NEW d, NEW y \in Nat, Within(d, y, t), NEW b \in Nat, Abs(u) * (x + 1) + y <= b
    PROVE  Within(u * a + d, b, t)
<1> DEFINE A == t * (x + 1)
           U == Abs(u)
           V == U * (x + 1)
<1>1. a \in Int /\ d \in Int /\ -A < a /\ a <= t * x /\ -(t * (y + 1)) < d /\ d <= t * y
  BY DEF Within
<1>2. A = t * x + t /\ t * x \in Int /\ t * y \in Int /\ t * (y + 1) = t * y + t /\ A \in Int
  OBVIOUS
<1>3. U \in Nat
  BY AbsSum
<1>4. V \in Int /\ U * A = t * V
  BY <1>3
<1>5. V + y <= b
  OBVIOUS
<1> HIDE DEF A
<1>6. -A <= a /\ a <= A
  BY <1>1, <1>2
<1>7. u * a \in Int /\ U * A \in Int /\ -(U * A) <= u * a /\ u * a <= U * A
  BY <1>1, <1>2, <1>6, TimesWithin
<1> HIDE DEF U, V
<1>8. t * (V + y) <= t * b /\ t * (V + y) = t * V + t * y /\ t * V \in Int /\ t * b \in Int
      /\ t * (b + 1) = t * b + t
  <2>1. V + y \in Int /\ b \in Int /\ t \in Nat
    BY <1>4
  <2>2. t * (V + y) <= t * b
    BY <1>5, <2>1, TimesBetween
  <2> QED
    BY <1>4, <2>2
<1>9. u * a + d \in Int /\ -(t * (b + 1)) < u * a + d /\ u * a + d <= t * b
  BY ONLY <1>1, <1>2, <1>4, <1>7, <1>8, t \in Nat \ {0}
<1> QED
  BY <1>9 DEF Within

LEMMA QuietPublic ==
    ASSUME IsBuilt, sk \in Int, NEW key, KeyTypes(key), Quiet(key), NEW k, k = key.level,
           NEW m \in 0 .. par.t - 1, NEW u \in Int \ {0}, NEW e1 \in Int, NEW e2 \in Int,
           NEW z, z = Ciphertext(<< (u * key.c[1] + e1 + ToPoly(m, k)) % Q(k), (u * key.c[2] + e2) % Q(k) >>,
                                 k, m, PublicBound(key, u, e1, e2))
    PROVE  Quiet(z)
<1> DEFINE b == PublicBound(key, u, e1, e2)
           v == PublicParts(key, m, u, e1, e2)
           c1 == key.c[1]
           c2 == key.c[2]
           T == ToPoly(m, k)
           E == e1 + e2 * sk
           F == Carried(key)
           x == key.bound
           q == Q(k)
           t == par.t
           y == Abs(E)
<1>1. CipherTypes(key) /\ key.want = 0 /\ Len(key.c) = 2
  BY DEF KeyTypes
<1>2. /\ k \in Levels /\ x \in Nat /\ c1 \in Int /\ c2 \in Int
      /\ F = Eval(key.c, 2, sk) /\ F \in Int
      /\ q \in Nat \ {0} /\ t \in Nat \ {0} /\ t \in Int
  <2>1. /\ key.level \in Levels /\ key.bound \in Nat
        /\ \A i \in 1 .. Len(key.c) : key.c[i] \in Int
    BY <1>1, CipherFacts
  <2>2. c1 \in Int /\ c2 \in Int
    <3>1. 1 \in 1 .. Len(key.c) /\ 2 \in 1 .. Len(key.c)
      BY <1>1
    <3> QED
      BY <2>1, <3>1
  <2>3. F = Eval(key.c, 2, sk) /\ F \in Int
    BY <1>1, QuietFacts
  <2>4. q \in Nat \ {0} /\ t \in Nat \ {0} /\ t \in Int
    BY <1>1, QuietFacts
  <2> QED
    BY <2>1, <2>2, <2>3, <2>4
<1>3. IsResult(z, k, 2, v, m, b)
  BY PublicEncryptedIs
<1>4. T \in Int /\ m \in Int
  BY <1>2, ToPolyIs, MessageReduced
<1>5. F = c1 + c2 * sk
  BY <1>2, EvalTwo
<1>6. u * c1 \in Int /\ u * c2 \in Int /\ e2 * sk \in Int /\ E \in Int /\ c2 * sk \in Int
  BY <1>2
<1>7. Eval(v, 2, sk) = u * F + (E + T)
  <2>1. v[1] = u * c1 + e1 + T /\ v[2] = u * c2 + e2
    BY DEF PublicParts
  <2> HIDE DEF v, c1, c2, T, F, E
  <2>2. v[1] \in Int /\ v[2] \in Int
    BY <1>4, <1>6, <2>1
  <2>3. Eval(v, 2, sk) = v[1] + v[2] * sk
    BY <2>2, EvalTwo
  <2>4. v[2] * sk = u * (c2 * sk) + e2 * sk
    BY ONLY <1>2, <2>1, sk \in Int, u \in Int \ {0}, e2 \in Int
  <2>5. u * F = u * c1 + u * (c2 * sk) /\ u * (c2 * sk) \in Int
    BY ONLY <1>2, <1>5, <1>6, u \in Int \ {0}
  <2>6. E = e1 + e2 * sk
    BY DEF E
  <2> QED
    BY ONLY <1>4, <1>6, <2>1, <2>3, <2>4, <2>5, <2>6, e1 \in Int
<1>8. /\ y \in Nat /\ Abs(u) \in Nat /\ Abs(u) >= 1 /\ b \in Nat
      /\ Abs(u) * (x + 1) + y <= b /\ x <= b
  <2>1. y \in Nat /\ Abs(e1) \in Nat /\ Abs(e2 * sk) \in Nat /\ y <= Abs(e1) + Abs(e2 * sk)
    BY <1>6, AbsSum
  <2>2. Abs(u) \in Nat /\ Abs(u) >= 1
    BY DEF Abs
  <2>3. b = Abs(u) * (x + 1) + Abs(e1) + Abs(e2 * sk)
    BY DEF PublicBound
  <2> DEFINE U == Abs(u)
             A1 == Abs(e1)
             A2 == Abs(e2 * sk)
  <2> HIDE DEF U, A1, A2, y, x, b
  <2>4. U \in Nat /\ U >= 1 /\ A1 \in Nat /\ A2 \in Nat /\ y <= A1 + A2 /\ b = U * (x + 1) + A1 + A2
    BY <2>1, <2>2, <2>3 DEF U, A1, A2
  <2>5. (U - 1) * (x + 1) >= 0 /\ (U - 1) * (x + 1) = U * (x + 1) - x - 1 /\ U * (x + 1) \in Int
    <3>1. U - 1 \in Nat /\ x + 1 \in Nat
      BY <1>2, <2>4
    <3> QED
      BY <1>2, <2>4, <3>1
  <2>6. b \in Nat /\ U * (x + 1) + y <= b /\ x <= b
    BY <1>2, <2>1, <2>4, <2>5
  <2> QED
    BY <2>1, <2>2, <2>6 DEF U
<1>9. PICK d : Carries(E + T, m, d, q, t) /\ Within(d, y, t)
  BY <1>2, <1>6, CarriesNoisy
<1>10. ASSUME 2 * b < q PROVE \E a : Carries(Eval(v, 2, sk), m, a, q, t) /\ Within(a, b, t)
  <2>1. 2 * x < q
    BY <1>2, <1>8, <1>10
  <2>2. PICK a : Carries(F, 0, a, q, t) /\ Within(a, x, t)
    BY <1>1, <2>1 DEF Quiet
  <2> HIDE DEF F, q, t, x, b, v, E, T, y
  <2>3. Carries(u * F, u * 0, u * a, q, t)
    BY <1>2, <2>2, CarriesScaled
  <2>4. Carries(u * F + (E + T), u * 0 + m, u * a + d, q, t)
    BY <1>2, <1>9, <2>3, CarriesPlus
  <2>5. u * 0 + m = m
    BY <1>4
  <2>6. Within(u * a + d, b, t)
    BY <1>2, <1>8, <1>9, <2>2, WithinPublic
  <2> QED
    BY <1>7, <2>4, <2>5, <2>6
<1>11. Same(m, m, t)
  BY <1>2, <1>4, SameReflexive
<1>12. 2 * b < Q(k) => \E a : Carries(Eval(v, 2, sk), m, a, Q(k), par.t) /\ Within(a, b, par.t)
  BY <1>10
<1> HIDE DEF v, b
<1> QED
  BY <1>3, <1>11, <1>12, QuietBack

(* The public key at every level is quiet when it is at the first.         *)
LEMMA KeysQuiet ==
    ASSUME IsBuilt, sk \in Int, KeyTypes(pk), pk.level = 0, Quiet(pk), NEW k \in Levels
    PROVE  KeyTypes(KeyAt(k)) /\ KeyAt(k).level = k /\ Quiet(KeyAt(k))
<1>1. PICK g : KeysDown(g, k)
  BY KeysDownExist
<1>2. /\ g[0] = pk /\ KeyAt(k) = g[k] /\ k \in Nat
      /\ \A j \in 0 .. k : KeyTypes(g[j]) /\ g[j].level = j
      /\ \A j \in 0 .. k - 1 : g[j + 1] = SwitchedDown(g[j]) /\ j + 1 < Len(par.moduli)
  BY <1>1 DEF KeysDown, Levels
<1> DEFINE S == {j \in 0 .. k : Quiet(g[j])}
<1>3. 0 \in S
  BY <1>2
<1>4. \A j \in 0 .. k - 1 : j \in S => j + 1 \in S
  <2> SUFFICES ASSUME NEW j \in 0 .. k - 1, j \in S PROVE j + 1 \in S
    OBVIOUS
  <2>1. j \in 0 .. k /\ j + 1 \in 0 .. k
    BY <1>2
  <2> DEFINE x == g[j]
  <2>2. CipherTypes(x) /\ x.level = j /\ j + 1 < Len(par.moduli) /\ Quiet(x) /\ g[j + 1] = SwitchedDown(x)
    BY <1>2, <2>1 DEF KeyTypes
  <2> HIDE DEF x
  <2>3. Quiet(g[j + 1])
    BY <2>2, QuietSwitched
  <2> QED
    BY <2>1, <2>3
<1> HIDE DEF S
<1>5. \A j \in 0 .. k : j \in S
  BY <1>2, <1>3, <1>4, InductionUpTo
<1>6. k \in S /\ k \in 0 .. k
  BY <1>2, <1>5
<1>7. Quiet(g[k])
  BY <1>6 DEF S
<1> QED
  BY <1>2, <1>6, <1>7

-----------------------------------------------------------------------------
(* Products *)

(* The centred parts carry what the parts carry. *)
LEMMA CenteredCarries ==
    ASSUME IsBuilt, sk \in Int, NEW x, CipherTypes(x), Quiet(x), 2 * x.bound < Q(x.level),
           NEW F, F = Eval(CenteredParts(x), Len(x.c), sk), NEW w, w = Weight(Len(x.c))
    PROVE  /\ F \in Int /\ w \in Nat
           /\ -(Q(x.level) * w) <= 2 * F /\ 2 * F <= Q(x.level) * w
           /\ \E a : Carries(F, x.want, a, Q(x.level), par.t) /\ Within(a, x.bound, par.t)
<1> DEFINE q == Q(x.level)
           n == Len(x.c)
           X == CenteredParts(x)
           c == x.c
<1>1. /\ q \in Nat \ {0} /\ q \in Int /\ n \in Nat /\ Ints(c, n) /\ Carried(x) = Eval(c, n, sk)
      /\ par.t \in Nat \ {0} /\ par.t \in Int /\ x.want \in Int
  BY CipherFacts, QuietFacts
<1>2. /\ Ints(X, n)
      /\ \A i \in 1 .. n : Same(X[i], c[i], q) /\ X[i] \in Int /\ -q < 2 * X[i] /\ 2 * X[i] <= q
  BY CenteredPartsIs
<1>3. w = WeightOf(n, sk) /\ w \in Nat
  BY <1>1, WeightIs
<1>4. F = Eval(X, n, sk)
  OBVIOUS
<1>5. PICK a : Carries(Carried(x), x.want, a, q, par.t) /\ Within(a, x.bound, par.t)
  BY DEF Quiet
<1> HIDE DEF q, n, X, c
<1>6. F \in Int
  BY <1>1, <1>2, <1>4, EvalSum
<1>7. -(q * w) <= 2 * F /\ 2 * F <= q * w
  <2>1. q \in Nat /\ \A i \in 1 .. n : -q <= 2 * X[i] /\ 2 * X[i] <= q
    BY <1>1, <1>2
  <2>2. -(q * WeightOf(n, sk)) <= 2 * Eval(X, n, sk) /\ 2 * Eval(X, n, sk) <= q * WeightOf(n, sk)
    BY <1>1, <1>2, <2>1, EvalBound
  <2> QED
    BY <1>3, <1>4, <2>2
<1>8. Same(Eval(X, n, sk), Eval(c, n, sk), q)
  BY <1>1, <1>2, EvalCongruent
<1>9. Same(x.want, x.want, par.t)
  BY <1>1, SameReflexive
<1>10. Carries(F, x.want, a, q, par.t)
  BY <1>1, <1>4, <1>5, <1>8, <1>9, CarriesSame
<1> QED
  BY <1>3, <1>5, <1>6, <1>7, <1>10 DEF q

(* The number of times q that a carrier holds. *)
LEMMA CarriedTimes ==
    ASSUME NEW q \in Nat \ {0}, NEW t \in Nat \ {0}, NEW F \in Int, NEW w \in Nat,
           -(q * w) <= 2 * F, 2 * F <= q * w, NEW b \in Nat, 2 * b < q,
           NEW a, Within(a, b, t), NEW K \in Int, t * F = K * q + a
    PROVE  Abs(K) \in Nat /\ t * (1 + w) \in Nat /\ Abs(K) <= t * (1 + w)
<1> DEFINE m == q * w
           o == t * m
           z == t * F
           y == K * q
           v == t * (1 + w)
<1>1. /\ m \in Int /\ o \in Int /\ z \in Int /\ y \in Int /\ v \in Nat
      /\ v * q = t * q + o /\ t * q \in Int
  <2>1. v \in Nat
    <3>1. 1 + w \in Nat
      OBVIOUS
    <3> QED
      BY <3>1
  <2>2. v * q = t * q + o
    BY ONLY q \in Nat \ {0}, t \in Nat \ {0}, w \in Nat
  <2> QED
    BY <2>1, <2>2
<1>2. a \in Int /\ -(t * (b + 1)) < a /\ a <= t * b
  BY DEF Within
<1>3. t * (b + 1) = t * b + t /\ t * b \in Int
  OBVIOUS
<1>4. 2 * (t * b) + t <= t * q
  <2>1. 2 * b + 1 \in Int /\ q \in Int /\ 2 * b + 1 <= q /\ t \in Nat
    OBVIOUS
  <2>2. t * (2 * b + 1) <= t * q
    BY <2>1, TimesBetween
  <2>3. t * (2 * b + 1) = 2 * (t * b) + t
    OBVIOUS
  <2> QED
    BY <2>2, <2>3
<1>5. -o <= 2 * z /\ 2 * z <= o
  <2>1. 2 * F \in Int /\ -m \in Int /\ -m <= 2 * F /\ 2 * F <= m /\ t \in Nat /\ m \in Int
    BY <1>1
  <2> HIDE DEF m
  <2>2. t * (2 * F) <= t * m /\ t * (-m) <= t * (2 * F)
    BY ONLY <2>1, TimesBetween
  <2>3. t * (2 * F) = 2 * z /\ t * (-m) = -o
    BY ONLY <2>1, t \in Nat \ {0}, F \in Int
  <2> QED
    BY <2>2, <2>3
<1>6. z = y + a
  OBVIOUS
<1>7. t <= t * q
  <2>1. 1 \in Int /\ q \in Int /\ 1 <= q /\ t \in Nat
    OBVIOUS
  <2>2. t * 1 <= t * q
    BY <2>1, TimesBetween
  <2> QED
    BY <2>2
<1>11. o >= 0
  <2>1. m \in Nat /\ t \in Nat
    OBVIOUS
  <2> HIDE DEF m
  <2> QED
    BY <2>1
<1>8. (v - K + 1) * q > 0 /\ (v + K + 1) * q > 0
  <2>1. (v - K + 1) * q = v * q - y + q /\ (v + K + 1) * q = v * q + y + q
    BY ONLY <1>1, q \in Nat \ {0}, K \in Int
  <2> HIDE DEF v, y, z, o, m
  <2> QED
    BY ONLY <1>1, <1>2, <1>3, <1>4, <1>5, <1>6, <1>7, <1>11, <2>1, q \in Nat \ {0}, t \in Nat \ {0}
<1> HIDE DEF v
<1>9. v - K + 1 >= 1 /\ v + K + 1 >= 1
  <2>1. v - K + 1 \in Int /\ v + K + 1 \in Int
    BY <1>1
  <2> QED
    BY <1>8, <2>1, Positive
<1>10. Abs(K) \in Nat /\ Abs(K) <= v
  BY <1>1, <1>9 DEF Abs
<1> QED
  BY <1>1, <1>10 DEF v

(* The numbers of a product. *)
RestValues(q, t, X, Y, a, b, F, H, G, E, d) ==
    /\ q \in Nat \ {0}
    /\ t \in Nat \ {0}
    /\ X \in Int
    /\ Y \in Int
    /\ a \in Int
    /\ b \in Int
    /\ F \in Int
    /\ H \in Int
    /\ t * F = X * q + a
    /\ t * H = Y * q + b
    /\ G \in Int
    /\ E \in Int
    /\ q * G = t * (F * H) + E
    /\ d = t * G - (X * Y) * q

LEMMA ProductRest ==
    ASSUME NEW q, NEW t, NEW X, NEW Y, NEW a, NEW b, NEW F, NEW H, NEW G, NEW E, NEW d,
           RestValues(q, t, X, Y, a, b, F, H, G, E, d)
    PROVE  /\ d \in Int /\ X * b \in Int /\ Y * a \in Int /\ a * b \in Int /\ t * E \in Int /\ q * d \in Int
           /\ q * d = q * (X * b + Y * a) + a * b + t * E
<1> SUFFICES ASSUME q \in Nat \ {0},
                    t \in Nat \ {0},
                    X \in Int,
                    Y \in Int,
                    a \in Int,
                    b \in Int,
                    F \in Int,
                    H \in Int,
                    t * F = X * q + a,
                    t * H = Y * q + b,
                    G \in Int,
                    E \in Int,
                    q * G = t * (F * H) + E,
                    d = t * G - (X * Y) * q
             PROVE  /\ d \in Int /\ X * b \in Int /\ Y * a \in Int /\ a * b \in Int /\ t * E \in Int /\ q * d \in Int
                 /\ q * d = q * (X * b + Y * a) + a * b + t * E
  BY DEF RestValues
<1> DEFINE x == X * q
           y == Y * q
           P == F * H
<1>1. /\ x \in Int /\ y \in Int /\ P \in Int /\ d \in Int /\ X * b \in Int /\ Y * a \in Int /\ a * b \in Int
      /\ t * E \in Int /\ q * d \in Int /\ t * G \in Int /\ (X * Y) * q \in Int
  OBVIOUS
<1>2. (t * F) * (t * H) = t * (t * P)
  BY ONLY t \in Nat \ {0}, F \in Int, H \in Int
<1>3. t * (q * G) = t * (t * P) + t * E
  <2> HIDE DEF P
  <2>1. q * G = t * P + E
    BY DEF P
  <2>2. t * (t * P + E) = t * (t * P) + t * E
    BY ONLY <1>1, t \in Nat \ {0}, E \in Int
  <2> QED
    BY <2>1, <2>2
<1>4. (x + a) * (y + b) = x * y + x * b + y * a + a * b
  <2> HIDE DEF x, y
  <2> QED
    BY ONLY <1>1, a \in Int, b \in Int
<1>5. x * y = q * ((X * Y) * q) /\ x * b = q * (X * b) /\ y * a = q * (Y * a)
  BY ONLY q \in Nat \ {0}, X \in Int, Y \in Int, a \in Int, b \in Int
<1>6. q * d = q * (t * G) - q * ((X * Y) * q) /\ q * (t * G) = t * (q * G)
  <2> DEFINE g == t * G
             h == (X * Y) * q
  <2>1. q * (t * G) = t * (q * G)
    BY ONLY q \in Nat \ {0}, t \in Nat \ {0}, G \in Int
  <2>2. g \in Int /\ h \in Int /\ d = g - h
    BY <1>1
  <2> HIDE DEF g, h
  <2>3. q * d = q * g - q * h
    BY ONLY <2>2, q \in Nat \ {0}
  <2> QED
    BY <2>1, <2>3 DEF g, h
<1>7. q * (X * b + Y * a) = q * (X * b) + q * (Y * a)
  BY ONLY <1>1, q \in Nat \ {0}
<1>8. (t * F) * (t * H) = (x + a) * (y + b)
  OBVIOUS
<1>9. /\ q * (X * b) \in Int /\ q * (Y * a) \in Int /\ q * ((X * Y) * q) \in Int
      /\ t * (t * P) \in Int /\ q * (t * G) \in Int
  BY ONLY <1>1, q \in Nat \ {0}, t \in Nat \ {0}
<1> HIDE DEF x, y, P
<1>10. q * d = q * (X * b + Y * a) + a * b + t * E
  <2> DEFINE g == q * (X * b)
             h == q * (Y * a)
             i == q * ((X * Y) * q)
             j == t * (t * P)
             k == a * b
             l == t * E
             m == q * (t * G)
             n == q * d
             o == q * (X * b + Y * a)
  <2>1. j = i + g + h + k
    BY ONLY <1>2, <1>4, <1>5, <1>8
  <2>2. m = j + l /\ n = m - i /\ o = g + h
    BY ONLY <1>3, <1>6, <1>7
  <2>3. /\ g \in Int /\ h \in Int /\ i \in Int /\ j \in Int /\ k \in Int /\ l \in Int /\ m \in Int
        /\ n \in Int
    BY ONLY <1>1, <1>9
  <2> HIDE DEF g, h, i, j, k, l, m, n, o
  <2>4. n = o + k + l
    BY ONLY <2>1, <2>2, <2>3
  <2> QED
    BY <2>4 DEF n, o, k, l
<1> QED
  BY <1>1, <1>10

LEMMA TimesBounds ==
    ASSUME NEW u \in Int, NEW a \in Int, NEW V \in Nat, NEW A \in Nat, Abs(u) <= V, -A <= a, a <= A
    PROVE  u * a \in Int /\ V * A \in Nat /\ -(V * A) <= u * a /\ u * a <= V * A
<1> DEFINE U == Abs(u)
<1>1. u * a \in Int /\ U \in Nat /\ U * A \in Int /\ -(U * A) <= u * a /\ u * a <= U * A /\ U <= V
  <2>1. A \in Int
    OBVIOUS
  <2>2. u * a \in Int /\ U \in Nat /\ U * A \in Int /\ -(U * A) <= u * a /\ u * a <= U * A
    BY <2>1, TimesWithin
  <2> QED
    BY <2>2
<1> HIDE DEF U
<1>2. A * U <= A * V
  BY <1>1, TimesBetween
<1>3. A * U = U * A /\ A * V = V * A /\ V * A \in Nat
  BY <1>1
<1> QED
  BY <1>1, <1>2, <1>3

(* The bound of a product. *)
LEMMA WithinProduct ==
    ASSUME NEW q \in Nat \ {0}, NEW t \in Nat \ {0}, NEW X \in Int, NEW Y \in Int,
           NEW x \in Nat, NEW y \in Nat, NEW a, NEW c, Within(a, x, t), Within(c, y, t),
           NEW v \in Nat, NEW w \in Nat, Abs(X) <= t * (1 + v), Abs(Y) <= t * (1 + w),
           NEW n \in Nat, NEW E \in Int, -(q * n) <= 2 * E, 2 * E <= q * n,
           NEW d \in Int, q * d = q * (X * c + Y * a) + a * c + t * E,
           NEW b, b = t * ((x + 1) * (1 + w) + (y + 1) * (1 + v)) + (t * (x + 1) * (y + 1)) \div q + n + 3
    PROVE  Within(d, b, t)
<1> DEFINE A == t * (x + 1)
           C == t * (y + 1)
           V == t * (1 + v)
           W1 == t * (1 + w)
           P == V * C
           R == W1 * A
           S == A * C
           U == (x + 1) * (1 + w) + (y + 1) * (1 + v)
           M == t * (x + 1) * (y + 1)
           k == M \div q
           o == t * (q * n)
           z == t * E
           g == X * c
           h == Y * a
           f == a * c
<1>1. A \in Nat /\ C \in Nat /\ V \in Nat /\ W1 \in Nat
  <2>1. x + 1 \in Nat /\ y + 1 \in Nat /\ 1 + v \in Nat /\ 1 + w \in Nat
    OBVIOUS
  <2> QED
    BY <2>1
<1>2. a \in Int /\ -A <= a /\ a <= A /\ c \in Int /\ -C <= c /\ c <= C
  <2>1. t * x <= A /\ t * y <= C /\ t * x \in Int /\ t * y \in Int
    <3>1. A = t * x + t /\ C = t * y + t /\ t * x \in Int /\ t * y \in Int
      OBVIOUS
    <3> QED
      BY <3>1
  <2>2. a \in Int /\ -A < a /\ a <= t * x /\ c \in Int /\ -C < c /\ c <= t * y
    BY DEF Within
  <2> HIDE DEF A, C
  <2> QED
    BY <1>1, <2>1, <2>2
<1>3. Abs(X) <= V /\ Abs(Y) <= W1 /\ Abs(a) <= A
  <2>1. Abs(X) <= V /\ Abs(Y) <= W1
    OBVIOUS
  <2> HIDE DEF A
  <2>2. Abs(a) <= A
    BY <1>1, <1>2 DEF Abs
  <2> QED
    BY <2>1, <2>2
<1>4. P + R = t * (t * U)
  <2>1. P = t * (t * ((y + 1) * (1 + v))) /\ R = t * (t * ((x + 1) * (1 + w)))
    BY ONLY x \in Nat, y \in Nat, v \in Nat, w \in Nat, t \in Nat \ {0}
  <2> DEFINE i == (y + 1) * (1 + v)
             j == (x + 1) * (1 + w)
  <2>2. i \in Int /\ j \in Int /\ U = j + i
    OBVIOUS
  <2> HIDE DEF i, j
  <2>3. t * (t * (j + i)) = t * (t * j) + t * (t * i) /\ t * (t * j) \in Int /\ t * (t * i) \in Int
    BY ONLY <2>2, t \in Nat \ {0}
  <2>4. P = t * (t * i) /\ R = t * (t * j)
    BY <2>1 DEF i, j
  <2> HIDE DEF P, R, U
  <2> QED
    BY ONLY <2>2, <2>3, <2>4
<1>5. S = t * M
  BY ONLY x \in Nat, y \in Nat, t \in Nat \ {0}
<1>6. U \in Nat /\ M \in Nat
  <2>1. x + 1 \in Nat /\ y + 1 \in Nat /\ 1 + v \in Nat /\ 1 + w \in Nat
    OBVIOUS
  <2> QED
    BY <2>1
<1> HIDE DEF A, C, V, W1
<1>7. g \in Int /\ P \in Nat /\ -P <= g /\ g <= P
  BY <1>1, <1>2, <1>3, TimesBounds
<1>8. h \in Int /\ R \in Nat /\ -R <= h /\ h <= R
  BY <1>1, <1>2, <1>3, TimesBounds
<1>9. f \in Int /\ S \in Nat /\ -S <= f /\ f <= S
  BY <1>1, <1>2, <1>3, TimesBounds
<1>10. z \in Int /\ o \in Nat /\ -o <= 2 * z /\ 2 * z <= o
  <2> DEFINE m == q * n
  <2>1. m \in Nat /\ -m \in Int /\ 2 * E \in Int /\ -m <= 2 * E /\ 2 * E <= m /\ t \in Nat
    OBVIOUS
  <2> HIDE DEF m
  <2>2. t * (2 * E) <= t * m /\ t * (-m) <= t * (2 * E)
    BY ONLY <2>1, TimesBetween
  <2>3. t * (2 * E) = 2 * z /\ t * (-m) = -(t * m) /\ t * m \in Nat /\ z \in Int
    BY ONLY <2>1, t \in Nat \ {0}, E \in Int
  <2> QED
    BY <2>2, <2>3 DEF m
<1>11. q * d = q * (g + h) + f + z
  OBVIOUS
<1>12. k \in Nat /\ M = k * q + (M % q) /\ M % q \in Int /\ 0 <= M % q /\ M % q < q
  <2> HIDE DEF M
  <2> QED
    BY <1>6
<1>13. b = t * U + k + n + 3
  OBVIOUS
<1> HIDE DEF P, R, S, U, M, k, z, g, h, f
<1>14. -(q * (P + R)) <= q * (g + h) /\ q * (g + h) <= q * (P + R) /\ q * (P + R) \in Int /\ q * (g + h) \in Int
  <2>1. g + h \in Int /\ P + R \in Int /\ -(P + R) \in Int /\ q \in Nat
        /\ -(P + R) <= g + h /\ g + h <= P + R
    BY <1>7, <1>8
  <2>2. q * (g + h) <= q * (P + R) /\ q * (-(P + R)) <= q * (g + h)
    BY ONLY <2>1, TimesBetween
  <2>3. q * (-(P + R)) = -(q * (P + R)) /\ q * (P + R) \in Int /\ q * (g + h) \in Int
    BY ONLY <2>1
  <2> QED
    BY ONLY <2>2, <2>3
<1>15. t * b \in Int /\ b \in Nat /\ q * (t * b) = q * (P + R) + t * (k * q) + o + 3 * (t * q)
       /\ t * (k * q) \in Int /\ t * q \in Int
  <2>1. b \in Nat
    <3>1. t * U \in Nat
      BY <1>6
    <3> QED
      BY <1>12, <1>13, <3>1
  <2>2. q * (t * b) = q * (t * (t * U)) + t * (k * q) + t * (q * n) + 3 * (t * q)
    BY ONLY <1>6, <1>12, <1>13, t \in Nat \ {0}, q \in Nat \ {0}, n \in Nat
  <2>3. q * (t * (t * U)) = q * (P + R)
    BY <1>4
  <2>4. t * (k * q) \in Int /\ t * q \in Int /\ t * b \in Int
    BY ONLY <1>12, <2>1, t \in Nat \ {0}, q \in Nat \ {0}
  <2> QED
    BY <2>1, <2>2, <2>3, <2>4
<1> HIDE DEF o
<1>16. S <= t * (k * q) + t * q
  <2>1. M \in Int /\ k * q + q \in Int /\ M <= k * q + q /\ t \in Nat /\ k * q \in Int
    BY <1>6, <1>12
  <2>2. t * M <= t * (k * q + q)
    BY ONLY <2>1, TimesBetween
  <2>3. t * (k * q + q) = t * (k * q) + t * q
    BY ONLY <2>1, q \in Nat \ {0}
  <2> QED
    BY ONLY <1>5, <2>2, <2>3
<1>17. t * q >= 0
  <2>1. t \in Nat /\ q \in Nat
    OBVIOUS
  <2> QED
    BY <2>1
<1>18. (t * b - d + 1) * q > 0 /\ (t * b + d + 1) * q > 0
  <2>1. (t * b - d + 1) * q = q * (t * b) - q * d + q /\ (t * b + d + 1) * q = q * (t * b) + q * d + q
        /\ q * d \in Int
    BY ONLY <1>15, d \in Int, q \in Nat \ {0}
  <2> QED
    BY ONLY <1>9, <1>10, <1>11, <1>14, <1>15, <1>16, <1>17, <2>1, q \in Nat \ {0}
<1>19. t * b - d + 1 >= 1 /\ t * b + d + 1 >= 1
  <2>1. t * b - d + 1 \in Int /\ t * b + d + 1 \in Int
    BY <1>15
  <2> QED
    BY <1>18, <2>1, Positive
<1>20. t * (b + 1) = t * b + t
  BY <1>15
<1>21. -(t * (b + 1)) < d /\ d <= t * b
  BY ONLY <1>15, <1>19, <1>20, d \in Int, t \in Nat \ {0}
<1> QED
  BY <1>21 DEF Within

(* G is the value of the scaled products v of the centred parts of x and y, *)
(* whose values are F and H.                                               *)
ProductValues(x, y, q, n, w, F, H, v, G) ==
    /\ q = Q(x.level) /\ n = Len(x.c) + 1 /\ w = Weight(n)
    /\ F = Eval(CenteredParts(x), Len(x.c), sk) /\ H = Eval(CenteredParts(y), Len(y.c), sk)
    /\ \A j \in 1 .. n : v[j] = ProductParts(x, y)[j]
    /\ G = Eval(v, n, sk)

(* q times the value of the scaled products is t times the product of the  *)
(* values, but for the rounding of every part.                             *)
LEMMA EvalProduct ==
    ASSUME IsBuilt, sk \in Int, NEW x, CipherTypes(x), NEW y, CipherTypes(y), x.level = y.level,
           Len(y.c) = 2, NEW q, NEW n, NEW w, NEW F, NEW H, NEW v, NEW G,
           ProductValues(x, y, q, n, w, F, H, v, G)
    PROVE  /\ G \in Int /\ F \in Int /\ H \in Int /\ w \in Nat
           /\ \E E \in Int : q * G = par.t * (F * H) + E /\ -(q * w) <= 2 * E /\ 2 * E <= q * w
<1> DEFINE l == Len(x.c)
           X == CenteredParts(x)
           Y == CenteredParts(y)
           y1 == Y[1]
           y2 == Y[2]
           Z == Products(x, y)
           t == par.t
           A == [j \in 1 .. n |-> q * v[j]]
           C == [j \in 1 .. n |-> t * Z[j]]
           D == [j \in 1 .. n |-> q * v[j] - t * Z[j]]
<1>0. /\ q = Q(x.level) /\ n = Len(x.c) + 1 /\ w = Weight(n)
      /\ F = Eval(CenteredParts(x), Len(x.c), sk) /\ H = Eval(CenteredParts(y), Len(y.c), sk)
      /\ \A j \in 1 .. n : v[j] = ProductParts(x, y)[j]
      /\ G = Eval(v, n, sk)
  BY DEF ProductValues
<1>1. /\ q \in Nat \ {0} /\ q \in Nat /\ q \in Int /\ l \in Nat /\ n = l + 1 /\ n \in Nat
      /\ t \in Nat \ {0} /\ t \in Int /\ t \in Nat
  BY <1>0, CipherFacts, QuietFacts
<1>2. Ints(X, l)
  BY CenteredPartsIs
<1>3. y1 \in Int /\ y2 \in Int
  <2>1. \A i \in 1 .. Len(y.c) : Y[i] \in Int
    BY CenteredPartsIs
  <2>2. 1 \in 1 .. Len(y.c) /\ 2 \in 1 .. Len(y.c)
    OBVIOUS
  <2> QED
    BY <2>1, <2>2
<1>4. w = WeightOf(n, sk) /\ w \in Nat
  BY <1>0, <1>1, WeightIs
<1>5. H = y1 + y2 * sk /\ H \in Int
  <2>1. H = Eval(Y, 2, sk)
    BY <1>0
  <2> HIDE DEF Y
  <2>2. Eval(Y, 2, sk) = Y[1] + Y[2] * sk
    BY <1>3, EvalTwo
  <2>3. y2 * sk \in Int
    BY <1>3
  <2> QED
    BY <1>3, <2>1, <2>2, <2>3
<1>6. Z = Convolved(X, l, y1, y2)
  BY DEF Products
<1>7. F = Eval(X, l, sk)
  BY <1>0
<1>8. \A j \in 1 .. n : v[j] = Rounded(Z[j], t, q)
  <2> TAKE j \in 1 .. n
  <2>1. j \in 1 .. l + 1
    BY <1>1
  <2>2. ProductParts(x, y)[j] = Rounded(Z[j], t, Q(x.level))
    BY <2>1 DEF ProductParts
  <2> QED
    BY <1>0, <2>2
<1> HIDE DEF l, X, Y, y1, y2, Z, t
<1>9. /\ Ints(Z, n) /\ F \in Int /\ Eval(Z, n, sk) = F * H
  <2>1. /\ Ints(Convolved(X, l, y1, y2), l + 1) /\ Eval(X, l, sk) \in Int
        /\ Eval(Convolved(X, l, y1, y2), l + 1, sk) = Eval(X, l, sk) * (y1 + y2 * sk)
    BY <1>1, <1>2, <1>3, EvalConvolved
  <2>2. Ints(Z, n) /\ Eval(Z, n, sk) = Eval(X, l, sk) * (y1 + y2 * sk)
    BY ONLY <1>1, <1>6, <2>1
  <2> QED
    BY ONLY <1>5, <1>7, <2>1, <2>2
<1>10. \A j \in 1 .. n : /\ Z[j] \in Int /\ v[j] \in Int /\ q * v[j] \in Int /\ t * Z[j] \in Int
                         /\ -q <= 2 * (q * v[j] - t * Z[j]) /\ 2 * (q * v[j] - t * Z[j]) <= q
  <2> TAKE j \in 1 .. n
  <2> DEFINE a == Z[j]
             r == v[j]
  <2>1. a \in Int /\ r = Rounded(a, t, q)
    BY <1>8, <1>9 DEF Ints
  <2> HIDE DEF a, r
  <2>2. r \in Int /\ q * r \in Int /\ t * a \in Int /\ -q <= 2 * (q * r - t * a) /\ 2 * (q * r - t * a) <= q
    BY <1>1, <2>1, RoundedIs
  <2> QED
    BY <2>1, <2>2 DEF a, r
<1>11. \A j \in 1 .. n : A[j] = q * v[j] /\ C[j] = t * Z[j] /\ D[j] = q * v[j] - t * Z[j]
  OBVIOUS
<1> HIDE DEF A, C, D
<1>12. \A j \in 1 .. n : /\ A[j] \in Int /\ C[j] \in Int /\ D[j] \in Int /\ A[j] = C[j] + D[j]
                         /\ -q <= 2 * D[j] /\ 2 * D[j] <= q
  <2> TAKE j \in 1 .. n
  <2> DEFINE a == q * v[j]
             c == t * Z[j]
  <2>1. a \in Int /\ c \in Int /\ -q <= 2 * (a - c) /\ 2 * (a - c) <= q
    BY <1>10
  <2>2. A[j] = a /\ C[j] = c /\ D[j] = a - c
    BY <1>11
  <2> HIDE DEF a, c
  <2> QED
    BY <2>1, <2>2
<1>13. Ints(v, n) /\ Ints(A, n) /\ Ints(C, n) /\ Ints(D, n)
  BY <1>10, <1>12 DEF Ints
<1>14. Eval(A, n, sk) = Eval(C, n, sk) + Eval(D, n, sk)
  <2>1. \A j \in 1 .. n : A[j] = C[j] + D[j]
    BY <1>12
  <2> QED
    BY <1>1, <1>13, <2>1, EvalPlus
<1>15. Eval(A, n, sk) = q * G
  <2>1. \A j \in 1 .. n : A[j] = q * v[j]
    BY <1>11
  <2> QED
    <3>1. n \in Nat /\ q \in Int /\ sk \in Int /\ Ints(v, n)
      BY <1>1, <1>13
    <3>2. Eval(A, n, sk) = q * Eval(v, n, sk)
      BY ONLY <2>1, <3>1, EvalScaled
    <3> QED
      BY ONLY <1>0, <3>2
<1>16. Eval(C, n, sk) = t * (F * H)
  <2>1. \A j \in 1 .. n : C[j] = t * Z[j]
    BY <1>11
  <2>2. n \in Nat /\ t \in Int /\ sk \in Int /\ Ints(Z, n)
    BY <1>1, <1>9
  <2>3. Eval(C, n, sk) = t * Eval(Z, n, sk)
    BY ONLY <2>1, <2>2, EvalScaled
  <2> QED
    BY <1>9, <2>3
<1>17. G \in Int /\ Eval(D, n, sk) \in Int
  BY <1>0, <1>1, <1>13, EvalSum
<1>18. -(q * w) <= 2 * Eval(D, n, sk) /\ 2 * Eval(D, n, sk) <= q * w
  <2>1. \A j \in 1 .. n : -q <= 2 * D[j] /\ 2 * D[j] <= q
    BY <1>12
  <2>2. -(q * WeightOf(n, sk)) <= 2 * Eval(D, n, sk) /\ 2 * Eval(D, n, sk) <= q * WeightOf(n, sk)
    BY <1>1, <1>13, <2>1, EvalBound
  <2> QED
    BY <1>4, <2>2
<1> QED
  BY <1>4, <1>5, <1>9, <1>14, <1>15, <1>16, <1>17, <1>18 DEF t

LEMMA OperandsBelow ==
    ASSUME NEW t \in Nat \ {0}, NEW x \in Nat, NEW y \in Nat, NEW v \in Nat, NEW w \in Nat, NEW n \in Nat,
           NEW q \in Nat \ {0},
           NEW b, b = t * ((x + 1) * (1 + w) + (y + 1) * (1 + v)) + (t * (x + 1) * (y + 1)) \div q + n + 3
    PROVE  b \in Nat /\ x <= b /\ y <= b
<1> DEFINE i == (x + 1) * (1 + w)
           j == (y + 1) * (1 + v)
           k == (t * (x + 1) * (y + 1)) \div q
           u == i + j
<1>1. i \in Nat /\ j \in Nat /\ x + 1 <= i /\ y + 1 <= j
  <2>1. x + 1 \in Nat /\ y + 1 \in Nat /\ w \in Nat /\ v \in Nat
    OBVIOUS
  <2>2. (x + 1) * w \in Nat /\ (y + 1) * v \in Nat
    BY ONLY <2>1
  <2>3. i = (x + 1) + (x + 1) * w /\ j = (y + 1) + (y + 1) * v
    OBVIOUS
  <2> QED
    BY ONLY <2>1, <2>2, <2>3
<1>2. k \in Nat
  <2> DEFINE M == t * (x + 1) * (y + 1)
  <2>1. M \in Nat
    <3>1. x + 1 \in Nat /\ y + 1 \in Nat /\ t \in Nat
      OBVIOUS
    <3> QED
      BY ONLY <3>1
  <2>2. k = M \div q
    OBVIOUS
  <2> HIDE DEF M, k
  <2> QED
    BY <2>1, <2>2
<1>3. b = t * u + k + n + 3
  OBVIOUS
<1> HIDE DEF i, j, k
<1>4. u \in Nat /\ x <= u /\ y <= u
  BY <1>1
<1> HIDE DEF u
<1>5. t * u \in Nat /\ u <= t * u
  <2>1. t - 1 \in Nat
    OBVIOUS
  <2>2. (t - 1) * u \in Nat /\ (t - 1) * u = t * u - u
    BY <1>4, <2>1
  <2> QED
    BY <1>4, <2>2
<1> QED
  BY <1>2, <1>3, <1>4, <1>5

LEMMA QuietMultiplied ==
    ASSUME IsBuilt, sk \in Int, NEW x, CipherTypes(x), NEW y, CipherTypes(y), x.level = y.level,
           Len(y.c) = 2, Quiet(x), Quiet(y), HasRoom(x.level), NEW z, z = Multiplied(x, y)
    PROVE  Quiet(z)
<1> DEFINE k == x.level
           q == Q(k)
           t == par.t
           n == Len(x.c) + 1
           b == ProductBound(x, y)
           u == x.want * y.want
           v1 == Weight(Len(x.c))
           w1 == Weight(Len(y.c))
           m == Weight(n)
           bx == x.bound
           by == y.bound
           F == Eval(CenteredParts(x), Len(x.c), sk)
           H == Eval(CenteredParts(y), Len(y.c), sk)
<1>1. PICK v : /\ IsResult(z, k, n, v, u % t, b)
               /\ \A j \in 1 .. n : v[j] = ProductParts(x, y)[j]
  BY MultipliedIs
<1>2. /\ q \in Nat \ {0} /\ q \in Int /\ t \in Nat \ {0} /\ t \in Int
      /\ bx \in Nat /\ x.want \in Int /\ Len(x.c) \in Nat
  BY CipherFacts, QuietFacts
<1>3. by \in Nat /\ y.want \in Int /\ Len(y.c) \in Nat
  BY CipherFacts
<1>4. v1 \in Nat /\ w1 \in Nat /\ m \in Nat /\ u \in Int
  <2>1. n \in Nat /\ u \in Int
    BY <1>2, <1>3
  <2> QED
    BY <1>2, <1>3, <2>1, WeightIs
<1>5. b = t * ((bx + 1) * (1 + w1) + (by + 1) * (1 + v1)) + (t * (bx + 1) * (by + 1)) \div q + m + 3
  BY DEF ProductBound
<1> DEFINE G == Eval(v, n, sk)
<1>6. /\ G \in Int /\ F \in Int /\ H \in Int
      /\ \E E \in Int : q * G = t * (F * H) + E /\ -(q * m) <= 2 * E /\ 2 * E <= q * m
  <2>1. ProductValues(x, y, q, n, m, F, H, v, G)
    BY <1>1 DEF ProductValues
  <2> HIDE DEF q, n, m, F, H, G
  <2> QED
    BY <2>1, EvalProduct
<1>7. 2 * bx < q => /\ -(q * v1) <= 2 * F /\ 2 * F <= q * v1
                    /\ \E a : Carries(F, x.want, a, q, t) /\ Within(a, bx, t)
  BY CenteredCarries
<1>8. 2 * by < q => /\ -(q * w1) <= 2 * H /\ 2 * H <= q * w1
                    /\ \E a : Carries(H, y.want, a, q, t) /\ Within(a, by, t)
  BY CenteredCarries
<1> HIDE DEF q, t, b, v1, w1, m, bx, by, F, H, G, n
<1>9. b \in Nat /\ bx <= b /\ by <= b
  BY ONLY <1>2, <1>3, <1>4, <1>5, OperandsBelow, ZenonT(60)
<1>10. ASSUME 2 * b < q PROVE \E d : Carries(G, u, d, q, t) /\ Within(d, b, t)
  <2>1. 2 * bx < q /\ 2 * by < q
    BY <1>2, <1>3, <1>9, <1>10
  <2>2. PICK a : Carries(F, x.want, a, q, t) /\ Within(a, bx, t)
    BY <1>7, <2>1
  <2>3. PICK c : Carries(H, y.want, c, q, t) /\ Within(c, by, t)
    BY <1>8, <2>1
  <2>4. PICK X \in Int : Same(X, x.want, t) /\ t * F = X * q + a
    BY <2>2 DEF Carries
  <2>5. PICK Y \in Int : Same(Y, y.want, t) /\ t * H = Y * q + c
    BY <2>3 DEF Carries
  <2>6. PICK E \in Int : q * G = t * (F * H) + E /\ -(q * m) <= 2 * E /\ 2 * E <= q * m
    BY <1>6
  <2> DEFINE d == t * G - (X * Y) * q
  <2>7. a \in Int /\ c \in Int /\ d = t * G - (X * Y) * q
    BY <2>2, <2>3 DEF Within
  <2>8. Abs(X) <= t * (1 + v1)
    BY <1>2, <1>4, <1>6, <1>7, <2>1, <2>2, <2>4, CarriedTimes
  <2>9. Abs(Y) <= t * (1 + w1)
    BY <1>2, <1>3, <1>4, <1>6, <1>8, <2>1, <2>3, <2>5, CarriedTimes
  <2> HIDE DEF d
  <2>10. d \in Int /\ q * d = q * (X * c + Y * a) + a * c + t * E
    <3>1. RestValues(q, t, X, Y, a, c, F, H, G, E, d)
      BY ONLY X \in Int, Y \in Int, E \in Int, <1>2, <1>6, <2>4, <2>5, <2>6, <2>7 DEF RestValues
    <3> QED
      BY ONLY <3>1, ProductRest
  <2>11. Within(d, b, t)
    BY ONLY <1>2, <1>3, <1>4, <1>5, <2>2, <2>3, <2>4, <2>5, <2>6, <2>8, <2>9, <2>10, WithinProduct, ZenonT(60)
  <2>12. Same(X * Y, u, t)
    BY <1>2, <2>4, <2>5, SameTimes
  <2>13. t * G = (X * Y) * q + d /\ X * Y \in Int
    <3> DEFINE h == (X * Y) * q
               g == t * G
    <3>1. h \in Int /\ g \in Int /\ d = g - h /\ X * Y \in Int
      BY <1>2, <1>6, <2>7
    <3> HIDE DEF h, g
    <3>2. g = h + d
      BY <2>10, <3>1
    <3> QED
      BY <3>1, <3>2 DEF h, g
  <2>14. Carries(G, u, d, q, t)
    BY <1>4, <1>6, <2>10, <2>12, <2>13 DEF Carries
  <2> QED
    BY <2>11, <2>14
<1>11. Same(u, u % t, t)
  BY <1>4, WantIs DEF t
<1>12. 2 * b < Q(k) => \E d : Carries(Eval(v, n, sk), u, d, Q(k), par.t) /\ Within(d, b, par.t)
  BY <1>10 DEF q, t, G
<1> HIDE DEF u, k
<1> QED
  BY <1>1, <1>11, <1>12, QuietBack DEF t

LEMMA RoomForProduct ==
    ASSUME IsBuilt, FewModuli, par # NoParameters, NEW k \in Levels
    PROVE  HasRoom(k)
  BY ProductModulus DEF FewModuli

LEMMA QuietFresh ==
    ASSUME ReadyInv, pk # NoParameters => Quiet(pk), NEW z, Fresh(z)
    PROVE  Quiet(z)
<1>1. IsBuilt /\ sk \in Int
  BY ReadyFacts
<1>2. PICK m \in 0 .. par.t - 1, k \in Levels :
          \/ \E a \in 0 .. Q(k) - 1, e \in Int : SecretFresh(z, m, k, a, e)
          \/ \E u \in Int \ {0}, e1 \in Int, e2 \in Int : PublicFresh(z, m, k, u, e1, e2)
  BY DEF Fresh
<1>3. ASSUME NEW a \in 0 .. Q(k) - 1, NEW e \in Int, SecretFresh(z, m, k, a, e)
      PROVE  Quiet(z)
  BY <1>1, <1>3, QuietSecret
<1>4. ASSUME NEW u \in Int \ {0}, NEW e1 \in Int, NEW e2 \in Int, PublicFresh(z, m, k, u, e1, e2)
      PROVE  Quiet(z)
  <2>1. KeyTypes(pk) /\ pk.level = 0 /\ Quiet(pk)
    BY <1>4 DEF PublicFresh, ReadyInv, SchemeInv, SchemeTypes
  <2> DEFINE key == KeyAt(k)
  <2>2. KeyTypes(key) /\ k = key.level /\ Quiet(key)
    BY <1>1, <2>1, KeysQuiet
  <2>3. z = Ciphertext(<< (u * key.c[1] + e1 + ToPoly(m, k)) % Q(k), (u * key.c[2] + e2) % Q(k) >>,
                       k, m, PublicBound(key, u, e1, e2))
    BY <1>4 DEF PublicFresh
  <2> HIDE DEF key
  <2> QED
    BY <1>1, <2>2, <2>3, QuietPublic
<1> QED
  BY <1>2, <1>3, <1>4

LEMMA QuietOne ==
    ASSUME ReadyInv, NEW x, CipherTypes(x), Quiet(x), NEW z, ComputedOne(z, x)
    PROVE  Quiet(z)
<1>1. IsBuilt /\ sk \in Int
  BY ReadyFacts
<1>2. CASE x.level + 1 < Len(par.moduli) /\ z = SwitchedDown(x)
  BY <1>1, <1>2, QuietSwitched
<1>3. CASE z = Negated(x)
  BY <1>1, <1>3, QuietNegated
<1>4. ASSUME NEW m \in 1 .. par.t - 1, z = PlainAdded(x, m) PROVE Quiet(z)
  <2>1. m \in 0 .. par.t - 1
    OBVIOUS
  <2> QED
    BY <1>1, <1>4, <2>1, QuietPlainAdded
<1>5. ASSUME NEW m \in 1 .. par.t - 1, z = PlainMultiplied(x, m) PROVE Quiet(z)
  BY <1>1, <1>5, QuietPlainMultiplied
<1> QED
  BY <1>2, <1>3, <1>4, <1>5 DEF ComputedOne

LEMMA QuietTwo ==
    ASSUME ReadyInv, FewModuli, NEW x, CipherTypes(x), Quiet(x), NEW y, CipherTypes(y), Quiet(y),
           Len(y.c) = 2, NEW z, ComputedTwo(z, x, y)
    PROVE  Quiet(z)
<1>1. IsBuilt /\ sk \in Int /\ x.level = y.level /\ par # NoParameters /\ x.level \in Levels
  BY ReadyFacts DEF ComputedTwo, ReadyInv, SchemeInv, SchemeTypes, CipherTypes
<1>2. CASE Len(x.c) = Len(y.c) /\ (z = Added(x, y) \/ z = Subtracted(x, y))
  BY <1>1, <1>2, QuietSum
<1>3. CASE z = Multiplied(x, y)
  <2>1. HasRoom(x.level)
    BY <1>1, RoomForProduct
  <2> QED
    BY <1>1, <1>3, <2>1, QuietMultiplied
<1> QED
  BY <1>2, <1>3 DEF ComputedTwo

-----------------------------------------------------------------------------
(* The noise of the keys and ciphertexts, as every step keeps it *)

(* The public key and the ciphertexts of a state. *)
Held == ({pk} \ {NoParameters}) \cup {cts[i] : i \in DOMAIN cts}

QuietInv == \A x \in Held : Quiet(x)

LEMMA QuietKept ==
    ASSUME par' = par, sk' = sk, NEW x, Quiet(x)
    PROVE  Quiet(x)'
  BY DEF Quiet, Carried, Q, ModuliAt

LEMMA QuietNext ==
    ASSUME par' = par, sk' = sk, \A x \in Held' : Quiet(x)
    PROVE  QuietInv'
<1> SUFFICES ASSUME NEW x \in Held' PROVE Quiet(x)'
  BY DEF QuietInv
<1> QED
  BY QuietKept

LEMMA QuietStep ==
    ASSUME SchemeInv, FewModuli, QuietInv, [SchemeNext]_specVars
    PROVE  QuietInv'
<1>1. CASE IdleStep
  <2>1. par' = par /\ sk' = sk /\ Held' = Held
    BY <1>1 DEF IdleStep, Held
  <2> QED
    BY <2>1, QuietNext DEF QuietInv
<1>2. CASE ParametersOnly \/ KeyStep
  <2>1. pk' = NoParameters /\ cts' = << >>
    BY <1>2 DEF ParametersOnly, KeyStep, SchemeInv, SchemeTypes
  <2>2. Held' = {}
    BY <2>1 DEF Held
  <2> QED
    BY <2>2 DEF QuietInv
<1>3. CASE PublicStep
  <2>1. ReadyInv /\ par' = par /\ cts' = cts /\ sk' = sk
    BY <1>3 DEF PublicStep, ReadyInv
  <2>2. IsBuilt /\ sk \in Int /\ 0 \in Levels /\ 0 \in 0 .. par.t - 1
    BY <2>1, ReadyFacts
  <2>3. PICK a \in 0 .. Q(0) - 1, e \in Int : SecretFresh(pk', 0, 0, a, e)
    BY <1>3 DEF PublicStep, FirstKey
  <2>4. Quiet(pk')
    BY <2>2, <2>3, QuietSecret
  <2>5. \A x \in Held' : x \in Held \/ x = pk'
    BY <2>1 DEF Held
  <2> QED
    BY <2>1, <2>4, <2>5, QuietNext DEF QuietInv
<1>4. CASE EncryptStep
  <2>1. PICK z : Fresh(z) /\ cts' = Append(cts, z) /\ Len(cts) < 2
    BY <1>4 DEF EncryptStep
  <2>2. ReadyInv /\ UNCHANGED << par, sk, pk >>
    BY <1>4 DEF EncryptStep, ReadyInv
  <2>3. pk # NoParameters => Quiet(pk)
    BY DEF QuietInv, Held
  <2>4. Quiet(z)
    BY <2>1, <2>2, <2>3, QuietFresh
  <2>5. \A x \in Held' : x \in Held \/ x = z
    <3>1. cts = << >> \/ \E x : cts = << x >>
      <4>1. \A x, y : cts # << x, y >>
        BY <2>1
      <4> QED
        BY <4>1 DEF SchemeInv, SchemeTypes, OneCipher, TwoCiphers
    <3>2. CASE cts = << >>
      <4>1. cts' = << z >>
        BY <2>1, <3>2
      <4> QED
        BY <2>2, <4>1 DEF Held
    <3>3. ASSUME NEW x, cts = << x >> PROVE \A w \in Held' : w \in Held \/ w = z
      <4>1. cts' = << x, z >>
        BY <2>1, <3>3, AppendedOne
      <4>2. {cts'[i] : i \in DOMAIN cts'} = {x, z} /\ {cts[i] : i \in DOMAIN cts} = {x}
        BY <3>3, <4>1
      <4> QED
        BY <2>2, <4>2 DEF Held
    <3> QED
      BY <3>1, <3>2, <3>3
  <2> QED
    BY <2>2, <2>4, <2>5, QuietNext DEF QuietInv
<1>5. ASSUME NEW z, Quiet(z), UNCHANGED << par, sk, pk >>, cts' = << z >> PROVE QuietInv'
  <2>1. \A x \in Held' : x \in Held \/ x = z
    BY <1>5 DEF Held
  <2> QED
    BY <1>5, <2>1, QuietNext DEF QuietInv
<1>6. CASE OneStep
  <2>1. PICK x, z : OneCipher(x) /\ ComputedOne(z, x) /\ cts' = << z >>
    BY <1>6 DEF OneStep
  <2>2. ReadyInv /\ UNCHANGED << par, sk, pk >>
    BY <1>6 DEF OneStep, ReadyInv
  <2>3. x \in Held
    <3>1. cts = << x >>
      BY <2>1 DEF OneCipher
    <3>2. 1 \in DOMAIN cts /\ cts[1] = x
      BY <3>1
    <3> QED
      BY <3>2 DEF Held
  <2>4. Quiet(z)
    BY <2>1, <2>2, <2>3, QuietOne DEF OneCipher, QuietInv
  <2> QED
    BY <1>5, <2>1, <2>2, <2>4
<1>7. CASE TwoStep
  <2>1. PICK x, y, z : TwoCiphers(x, y) /\ ComputedTwo(z, x, y) /\ cts' = << z >>
    BY <1>7 DEF TwoStep
  <2>2. ReadyInv /\ UNCHANGED << par, sk, pk >>
    BY <1>7 DEF TwoStep, ReadyInv
  <2>3. x \in Held /\ y \in Held
    <3>1. cts = << x, y >>
      BY <2>1 DEF TwoCiphers
    <3>2. 1 \in DOMAIN cts /\ 2 \in DOMAIN cts /\ cts[1] = x /\ cts[2] = y
      BY <3>1
    <3> QED
      BY <3>2 DEF Held
  <2>4. Quiet(z)
    BY <2>1, <2>2, <2>3, QuietTwo DEF TwoCiphers, QuietInv
  <2> QED
    BY <1>5, <2>1, <2>2, <2>4
<1> QED
  BY <1>1, <1>2, <1>3, <1>4, <1>6, <1>7, SchemeSteps

LEMMA QuietHolds == Spec /\ []FewModuli => []QuietInv
<1>1. SchemeInit => QuietInv
  <2> SUFFICES ASSUME SchemeInit PROVE QuietInv
    OBVIOUS
  <2>1. pk = NoParameters /\ cts = << >>
    BY DEF SchemeInit
  <2> QED
    BY <2>1 DEF QuietInv, Held
<1>2. SchemeInv /\ FewModuli /\ QuietInv /\ [SchemeNext]_specVars => QuietInv'
  BY QuietStep
<1> QED
  BY <1>1, <1>2, SchemeHolds, PTL DEF Spec, specVars

(* What is quiet has its noise within its bound. *)
LEMMA QuietNoise ==
    ASSUME IsBuilt, sk \in Int, NEW x, CipherTypes(x), Quiet(x), x.bound * 2 < Q(x.level)
    PROVE  Noise(x) <= x.bound
<1> DEFINE q == Q(x.level)
           b == x.bound
           w == x.want
           F == Carried(x)
           P == Phase(x)
           T == ToPoly(w, x.level)
           e == Error(x, w)
<1>1. b \in Nat /\ w \in 0 .. par.t - 1 /\ x.level \in Levels
  BY DEF CipherTypes
<1>2. q \in Nat \ {0} /\ T \in Int /\ P \in Int /\ e \in Int /\ -q < 2 * e /\ 2 * e <= q /\ Same(e, P - T, q)
  BY <1>1, ErrorIs
<1>3. F \in Int /\ Same(P, F, q)
  <2>1. F = Eval(x.c, Len(x.c), sk)
    BY DEF Carried
  <2> HIDE DEF F
  <2> QED
    BY <2>1, PhaseIs
<1>4. \E a : Carries(F, w, a, q, par.t) /\ Within(a, b, par.t)
  <2>1. 2 * b < q
    BY <1>1, <1>2
  <2> QED
    BY <2>1 DEF Quiet
<1>5. \E d \in Int : -b <= d /\ d <= b /\ Same(F, T + d, q)
  BY <1>1, <1>4, CarriesOut
<1>6. Noise(x) = Abs(e)
  BY NoiseIs
<1> HIDE DEF q, b, w, F, P, T, e
<1>7. PICK d \in Int : -b <= d /\ d <= b /\ Same(F, T + d, q)
  BY <1>5
<1>8. Same(e, d, q)
  <2>1. PICK i \in Int : e = P - T + i * q
    BY <1>2 DEF Same
  <2>2. PICK j \in Int : P = F + j * q
    BY <1>3 DEF Same
  <2>3. PICK l \in Int : F = T + d + l * q
    BY <1>7 DEF Same
  <2>4. i \in Int /\ j \in Int /\ l \in Int /\ d \in Int
    OBVIOUS
  <2>5. (i + j + l) * q = i * q + j * q + l * q /\ i + j + l \in Int
        /\ i * q \in Int /\ j * q \in Int /\ l * q \in Int
    BY ONLY <1>2, <2>4
  <2>6. e = d + (i + j + l) * q
    BY ONLY <1>2, <1>3, <2>1, <2>2, <2>3, <2>4, <2>5
  <2> QED
    BY <1>2, <2>5, <2>6 DEF Same
<1>9. Abs(e) \in Nat /\ Abs(d) \in Nat /\ Abs(e) <= Abs(d)
  BY <1>2, <1>8, CenteredLeast
<1>10. Abs(d) <= b
  BY <1>1, <1>7 DEF Abs
<1> QED
  BY <1>1, <1>6, <1>9, <1>10 DEF b

(* The noise of every ciphertext stays within the bound its operations add *)
(* up, for parameters of at most as many moduli as the products have room  *)
(* for.                                                                    *)
THEOREM NoiseStaysWithinBound == Spec /\ []FewModuli => []NoiseWithinBound
<1>1. SchemeInv /\ QuietInv => NoiseWithinBound
  <2> SUFFICES ASSUME SchemeInv, QuietInv, NEW i \in DOMAIN cts, cts[i].bound * 2 < Q(cts[i].level)
               PROVE  Noise(cts[i]) <= cts[i].bound
    BY DEF NoiseWithinBound
  <2>1. CipherTypes(cts[i]) /\ IsBuilt /\ sk \in Int
    BY EveryCipher, ReadyFacts
  <2>2. Quiet(cts[i])
    BY DEF QuietInv, Held
  <2> QED
    BY <2>1, <2>2, QuietNoise
<1> QED
  BY <1>1, SchemeHolds, QuietHolds, PTL
=============================================================================
