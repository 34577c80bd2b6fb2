----------------------------- MODULE WordLemmas -----------------------------
(***************************************************************************)
(* Lemmas on reductions on words, for any size of words and any modulus    *)
(* with two spare bits, and on numbers held as residues.                   *)
(*                                                                         *)
(* Barrett's and Shoup's reductions take a quotient twice rounded down;    *)
(* the remainder is then below twice the modulus (TwiceRounded).  The      *)
(* partial products of Barrett's quotient never exceed a double word       *)
(* because the two words of the reciprocal add up to less than a word      *)
(* (ReciprocalWords).                                                      *)
(***************************************************************************)
EXTENDS RnsNumbers, NumberLemmas, SequenceTheorems


-----------------------------------------------------------------------------
(* The quotient q of a times c, rounded down twice, of a b / p             *)
(* is at most one too small.                                               *)
LEMMA TwiceRounded ==
    ASSUME NEW p \in Nat \ {0}, NEW n \in Nat \ {0}, NEW a \in Nat, NEW b \in Nat,
           NEW c \in Nat, NEW q \in Nat, a < n,
           c * p <= b * n, b * n < (c + 1) * p,
           q * n <= a * c, a * c < (q + 1) * n
    PROVE  0 <= a * b - q * p /\ a * b - q * p < 2 * p
<1> DEFINE d == a * b - q * p
<1>1. d \in Int /\ a * c \in Int /\ b * n \in Int
  OBVIOUS
<1>2. d * n >= 0
  <2>1. a * (b * n - c * p) >= 0
    OBVIOUS
  <2>2. p * (a * c - q * n) >= 0
    OBVIOUS
  <2>3. d * n = a * (b * n - c * p) + p * (a * c - q * n)
    OBVIOUS
  <2> QED
    BY <2>1, <2>2, <2>3
<1>3. (2 * p - d) * n > 0
  <2>1. a * ((c + 1) * p - b * n) >= 0
    OBVIOUS
  <2>2. p * ((q + 1) * n - a * c) > 0
    OBVIOUS
  <2>3. p * (n - a) > 0
    OBVIOUS
  <2>4. (2 * p - d) * n
            = a * ((c + 1) * p - b * n) + p * ((q + 1) * n - a * c) + p * (n - a)
    OBVIOUS
  <2> QED
    BY <2>1, <2>2, <2>3, <2>4
<1> HIDE DEF d
<1>4. d >= 0
  <2>1. CASE d <= -1
    <3>1. (-d) * n >= n
      BY <1>1, <2>1
    <3>2. (-d) * n = -(d * n)
      BY <1>1
    <3> QED
      BY <1>1, <1>2, <3>1, <3>2
  <2> QED
    BY <1>1, <2>1
<1>5. d < 2 * p
  <2>1. CASE 2 * p - d <= 0
    <3>1. (d - 2 * p) * n >= 0
      BY <1>1, <2>1
    <3>2. (d - 2 * p) * n = -((2 * p - d) * n)
      BY <1>1
    <3> QED
      BY <1>1, <1>3, <3>1, <3>2
  <2> QED
    BY <1>1, <2>1
<1> QED
  BY <1>4, <1>5 DEF d

-----------------------------------------------------------------------------
(* The powers of two. *)

(* 2 ^ k for the exponents that the words need.                            *)
LEMMA PowersDouble ==
    Pow2[0] = 1 /\ \A k \in 0 .. 4 * W - 1 : Pow2[k + 1] = 2 * Pow2[k]
<1> DEFINE M == 4 * W
           E(f) == f = [k \in 0 .. M |-> IF k = 0 THEN 1 ELSE 2 * f[k - 1]]
           step == [c \in (1 .. M) \X Nat |-> 2 * c[2]]
<1>1. M \in Nat
  BY WordsAssumption
<1> HIDE DEF M
<1>2. step \in [(1 .. M) \X Nat -> Nat] /\ \A k \in 1 .. M, x \in Nat : step[<< k, x >>] = 2 * x
  <2>1. step \in [(1 .. M) \X Nat -> Nat]
    OBVIOUS
  <2>2. \A k \in 1 .. M, x \in Nat : step[<< k, x >>] = 2 * x
    OBVIOUS
  <2> QED
    BY <2>1, <2>2
<1>3. Pow2 = CHOOSE f : E(f)
  BY DEF Pow2, M
<1> HIDE DEF step
<1>4. PICK g \in [0 .. M -> Nat] : Steps(g, M, 1, step)
  BY <1>1, <1>2, RecursionExists
<1>5. E(g)
  <2>1. ASSUME NEW k \in 0 .. M PROVE g[k] = IF k = 0 THEN 1 ELSE 2 * g[k - 1]
    <3>1. CASE k = 0
      BY <1>4, <3>1 DEF Steps
    <3>2. CASE k # 0
      <4>1. k \in 1 .. M /\ k - 1 \in 0 .. M
        BY <1>1, <3>2
      <4>2. g[k - 1] \in Nat
        BY <1>4, <4>1
      <4> QED
        BY <1>2, <1>4, <3>2, <4>1, <4>2 DEF Steps
    <3> QED
      BY <3>1, <3>2
  <2> QED
    BY <1>4, <2>1
<1>6. E(Pow2)
  <2> HIDE DEF E
  <2> QED
    BY <1>3, <1>5
<1>7. Pow2[0] = 1
  BY <1>1, <1>6
<1>8. ASSUME NEW k \in 0 .. M - 1 PROVE Pow2[k + 1] = 2 * Pow2[k]
  <2>1. k + 1 \in 0 .. M /\ k + 1 # 0 /\ (k + 1) - 1 = k
    BY <1>1
  <2> QED
    BY <1>6, <2>1
<1> QED
  BY <1>7, <1>8 DEF M

LEMMA PowerTypes == \A k \in 0 .. 4 * W : Pow2[k] \in Nat \ {0}
<1> DEFINE S == {k \in 0 .. 4 * W : Pow2[k] \in Nat \ {0}}
<1>1. W \in Nat /\ 4 * W \in Nat
  BY WordsAssumption
<1>2. 0 \in S
  BY <1>1, PowersDouble
<1>3. ASSUME NEW k \in 0 .. 4 * W - 1, k \in S PROVE k + 1 \in S
  <2>1. Pow2[k + 1] = 2 * Pow2[k] /\ Pow2[k] \in Nat \ {0} /\ k + 1 \in 0 .. 4 * W
    BY <1>1, <1>3, PowersDouble
  <2> QED
    BY <2>1
<1> HIDE DEF S
<1>4. \A k \in 0 .. 4 * W : k \in S
  BY <1>1, <1>2, <1>3, InductionUpTo
<1> QED
  BY <1>4 DEF S

LEMMA PowerOfSum ==
    ASSUME NEW i \in Nat, NEW j \in Nat, i + j <= 4 * W
    PROVE  Pow2[i + j] = Pow2[i] * Pow2[j]
<1> DEFINE S == {k \in 0 .. j : Pow2[i + k] = Pow2[i] * Pow2[k]}
<1>1. W \in Nat /\ 4 * W \in Nat
  BY WordsAssumption
<1>2. ASSUME NEW k \in 0 .. j PROVE k \in 0 .. 4 * W /\ i + k \in 0 .. 4 * W
  BY <1>1
<1>3. 0 \in S
  <2>1. i + 0 = i /\ Pow2[0] = 1 /\ Pow2[i] \in Nat
    BY <1>2, PowersDouble, PowerTypes
  <2> QED
    BY <2>1
<1>4. ASSUME NEW k \in 0 .. j - 1, k \in S PROVE k + 1 \in S
  <2>1. /\ k \in 0 .. 4 * W - 1 /\ i + k \in 0 .. 4 * W - 1 /\ k + 1 \in 0 .. j
        /\ i + (k + 1) = (i + k) + 1 /\ i \in 0 .. 4 * W /\ k \in 0 .. 4 * W
    BY <1>1
  <2>2. Pow2[(i + k) + 1] = 2 * Pow2[i + k] /\ Pow2[k + 1] = 2 * Pow2[k]
    BY <2>1, PowersDouble
  <2>3. Pow2[i] \in Nat /\ Pow2[k] \in Nat /\ Pow2[i + k] = Pow2[i] * Pow2[k]
    BY <1>4, <2>1, PowerTypes
  <2> DEFINE x == Pow2[i]
             y == Pow2[k]
  <2> HIDE DEF x, y
  <2>4. 2 * (x * y) = x * (2 * y)
    <3>1. x \in Nat /\ y \in Nat
      BY <2>3 DEF x, y
    <3> QED
      BY <3>1
  <2>5. Pow2[i + (k + 1)] = Pow2[i] * Pow2[k + 1]
    BY <2>1, <2>2, <2>3, <2>4 DEF x, y
  <2> QED
    BY <2>1, <2>5
<1> HIDE DEF S
<1>5. \A k \in 0 .. j : k \in S
  BY <1>3, <1>4, InductionUpTo
<1>6. j \in S
  BY <1>5
<1> QED
  BY <1>6 DEF S

(* A larger exponent gives a larger power. *)
LEMMA PowerGrows ==
    ASSUME NEW i \in Nat, NEW j \in Nat, i < j, j <= 4 * W
    PROVE  2 * Pow2[i] <= Pow2[j]
<1> DEFINE k == j - i - 1
<1>1. W \in Nat /\ k \in Nat /\ i + (1 + k) = j /\ 0 \in 0 .. 4 * W - 1 /\ 1 + k <= 4 * W
  BY WordsAssumption
<1>2. /\ i \in 0 .. 4 * W /\ k \in 0 .. 4 * W /\ 1 \in Nat /\ 1 + k \in Nat
  BY <1>1
<1>3. Pow2[1] = 2
  <2>1. Pow2[0 + 1] = 2 * Pow2[0] /\ Pow2[0] = 1
    BY <1>1, PowersDouble
  <2> QED
    BY <2>1
<1> HIDE DEF k
<1>4. Pow2[1 + k] = 2 * Pow2[k]
  BY <1>1, <1>2, <1>3, PowerOfSum
<1>5. Pow2[i + (1 + k)] = Pow2[i] * Pow2[1 + k]
  BY <1>1, <1>2, PowerOfSum
<1> DEFINE x == Pow2[i]
           y == Pow2[k]
<1>6. x \in Nat \ {0} /\ y \in Nat \ {0} /\ Pow2[j] = x * (2 * y)
  BY <1>1, <1>2, <1>4, <1>5, PowerTypes
<1> HIDE DEF x, y
<1>7. x * (2 * y) - 2 * x = (2 * x) * (y - 1) /\ (2 * x) * (y - 1) >= 0
  BY <1>6
<1>8. x * (2 * y) \in Int
  BY <1>6
<1> QED
  BY <1>6, <1>7, <1>8 DEF x

LEMMA WordTypes ==
    B \in Nat \ {0} /\ B >= 16 /\ B * B \in Nat \ {0} /\ B = Pow2[W] /\ B * B = Pow2[2 * W]
<1>1. W \in Nat /\ W >= 4 /\ W \in 0 .. 4 * W
  BY WordsAssumption
<1>2. B = Pow2[W]
  BY <1>1 DEF B
<1>3. B \in Nat \ {0}
  BY <1>1, <1>2, PowerTypes
<1>4. B >= 16
  <2>1. /\ Pow2[0] = 1 /\ 2 * Pow2[0] <= Pow2[1] /\ 2 * Pow2[1] <= Pow2[2]
        /\ 2 * Pow2[2] <= Pow2[3] /\ 2 * Pow2[3] <= Pow2[4]
    BY <1>1, PowerGrows, PowersDouble
  <2>2. Pow2[1] \in Nat /\ Pow2[2] \in Nat /\ Pow2[3] \in Nat /\ Pow2[4] \in Nat
    BY <1>1, PowerTypes
  <2>3. Pow2[4] >= 16
    BY <2>1, <2>2
  <2>4. CASE W = 4
    BY <1>2, <2>3, <2>4
  <2>5. CASE W > 4
    <3>1. 2 * Pow2[4] <= Pow2[W]
      BY <1>1, <2>5, PowerGrows
    <3> QED
      BY <1>2, <1>3, <2>2, <2>3, <3>1
  <2> QED
    BY <1>1, <2>4, <2>5
<1>5. B * B = Pow2[2 * W]
  <2>1. W + W = 2 * W /\ W + W <= 4 * W
    BY <1>1
  <2> QED
    BY <1>1, <1>2, <2>1, PowerOfSum
<1>6. B * B \in Nat \ {0}
  <2>1. 2 * W \in 0 .. 4 * W
    BY <1>1
  <2> QED
    BY <1>5, <2>1, PowerTypes
<1> QED
  BY <1>2, <1>3, <1>4, <1>5, <1>6

(* A word x has W - z bits, z of the LeadingZeros being zeros.             *)
LEMMA BitsOfWord ==
    ASSUME NEW x \in Word, NEW z, z = LeadingZeros[x]
    PROVE  /\ z \in 0 .. W /\ x < Pow2[W - z]
           /\ z = W \/ Pow2[W - z - 1] <= x
<1> DEFINE S == {k \in 0 .. W : x < Pow2[k]}
           Good(k) == x < Pow2[k] /\ (k = 0 \/ Pow2[k - 1] <= x)
<1>1. W \in Nat /\ W \in 0 .. W
  BY WordsAssumption
<1>2. x \in Int
  BY WordTypes DEF Word
<1>3. W \in S
  BY <1>1, WordTypes DEF Word
<1>4. PICK k \in S : \A j \in S : k <= j
  <2>1. S \in SUBSET Nat
    OBVIOUS
  <2> HIDE DEF S
  <2> QED
    BY <1>3, <2>1, LeastElement
<1>5. k \in 0 .. W /\ Good(k)
  <2>1. CASE k = 0
    BY <2>1
  <2>2. CASE k # 0
    <3>1. k - 1 \in 0 .. W /\ k - 1 \in 0 .. 4 * W /\ ~(k <= k - 1)
      BY <1>1, <2>2
    <3>2. k - 1 \notin S
      BY <1>4, <3>1
    <3>3. Pow2[k - 1] \in Nat
      BY <3>1, PowerTypes
    <3> QED
      BY <1>2, <3>1, <3>2, <3>3
  <2> QED
    BY <2>1, <2>2
<1> DEFINE c == CHOOSE j \in 0 .. W : Good(j)
<1>6. c \in 0 .. W /\ Good(c)
  BY <1>5
<1>7. z = W - c
  BY DEF LeadingZeros
<1> HIDE DEF c
<1>8. z \in 0 .. W /\ W - z = c /\ (c = 0 <=> z = W) /\ W - z - 1 = c - 1
  BY <1>1, <1>6, <1>7
<1> QED
  BY <1>6, <1>8

-----------------------------------------------------------------------------
(* The moduli. *)

(* Four times a modulus is within a word. *)
LEMMA ModulusSize ==
    ASSUME NEW p \in Nat, NewModulusOk(p)
    PROVE  p \in Nat \ {0} /\ p >= 2 /\ 4 * p < B /\ p \in Word /\ p < B \div 4
<1>1. p >= 2 /\ p < B \div 4
  BY DEF NewModulusOk
<1>2. B \div 4 \in Int /\ B = (B \div 4) * 4 + (B % 4) /\ B % 4 >= 0 /\ B % 4 \in Int /\ B \in Nat
  BY WordTypes
<1> QED
  BY <1>1, <1>2 DEF Word

(* A modulus has two leading zeros at least, and is below the power of two *)
(* that they leave.                                                        *)
LEMMA BitsOfModulus ==
    ASSUME NEW p \in Nat, NewModulusOk(p), NEW z, z = LeadingZeros[p]
    PROVE  /\ z \in 2 .. W - 1 /\ p < Pow2[W - z] /\ Pow2[W - z - 1] <= p
<1>1. W \in Nat /\ W >= 4 /\ p \in Nat /\ p >= 2 /\ 4 * p < B /\ p \in Word
  BY WordsAssumption, ModulusSize
<1>2. z \in 0 .. W /\ p < Pow2[W - z] /\ (z = W \/ Pow2[W - z - 1] <= p)
  BY <1>1, BitsOfWord
<1>3. z # W
  <2>1. CASE z = W
    <3>1. W - z = 0
      BY <1>1, <2>1
    <3>2. p < 1
      BY <1>2, <3>1, PowersDouble
    <3> QED
      BY <1>1, <3>2
  <2> QED
    BY <2>1
<1>4. z >= 2
  <2>1. B = Pow2[W] /\ 2 * Pow2[W - 1] <= Pow2[W] /\ 2 * Pow2[W - 2] <= Pow2[W - 1]
    BY <1>1, PowerGrows, WordTypes
  <2>2. W - 1 \in 0 .. 4 * W /\ W - 2 \in 0 .. 4 * W
    BY <1>1
  <2>3. Pow2[W - 1] \in Nat /\ Pow2[W - 2] \in Nat /\ B \in Nat
    BY <2>2, PowerTypes, WordTypes
  <2>4. /\ W = (W - 1) + 1 /\ Pow2[(W - 1) + 1] = 2 * Pow2[W - 1]
        /\ W - 1 = (W - 2) + 1 /\ Pow2[(W - 2) + 1] = 2 * Pow2[W - 2]
    BY <1>1, PowersDouble
  <2>5. p < Pow2[W - 2] /\ p < Pow2[W - 1]
    BY <1>1, <2>1, <2>3, <2>4
  <2>6. CASE z = 0
    <3>1. W - z - 1 = W - 1
      BY <1>1, <2>6
    <3> QED
      BY <1>1, <1>2, <1>3, <2>3, <2>5, <3>1
  <2>7. CASE z = 1
    <3>1. W - z - 1 = W - 2
      BY <1>1, <2>7
    <3> QED
      BY <1>1, <1>2, <1>3, <2>3, <2>5, <3>1
  <2> QED
    BY <1>2, <2>6, <2>7
<1> QED
  BY <1>1, <1>2, <1>3, <1>4

(* The two words of the reciprocal of p add up to less than a word.        *)
LEMMA ReciprocalWords ==
    ASSUME NEW p \in Nat, p >= 2, NEW w \in Nat \ {0}, NEW c \in Int, NEW h \in Int, NEW l \in Int,
           c * p <= w * w, w * w < (c + 1) * p, c = h * w + l, 0 <= l, l < w
    PROVE  0 <= h /\ h + l < w
<1>1. h >= 0
  <2>1. c >= 0
    <3>1. (c + 1) * p > 0
      <4>1. w * w >= 0 /\ w * w \in Int /\ (c + 1) * p \in Int
        OBVIOUS
      <4> QED
        BY <4>1
    <3> QED
      BY <3>1, Positive
  <2>2. (h + 1) * w > 0
    BY <2>1
  <2> QED
    BY <2>2, Positive
<1> DEFINE r == w - h * p
<1>2. r \in Int
  OBVIOUS
<1>3. l * p <= w * r
  <2>1. l * p = c * p - h * w * p
    OBVIOUS
  <2>2. w * r = w * w - h * w * p
    OBVIOUS
  <2> QED
    BY <2>1, <2>2
<1>4. r <= p - 1
  <2>1. ((h + 1) * p - w) * w > 0
    <3>1. (w - l - 1) * p >= 0
      OBVIOUS
    <3>2. ((h + 1) * p - w) * w = ((c + 1) * p - w * w) + (w - l - 1) * p
      OBVIOUS
    <3> QED
      BY <3>1, <3>2
  <2>2. (h + 1) * p - w >= 1
    BY <2>1, Positive
  <2> QED
    BY <2>2
<1>5. (h + l) * p <= w * p - p + 1
  <2>1. (h + l) * p = (w - r) + l * p
    OBVIOUS
  <2>2. (w - 1) * (p - 1 - r) >= 0
    BY <1>2, <1>4
  <2>3. (w - 1) * (p - 1 - r) = w * p - w - w * r - p + 1 + r
    OBVIOUS
  <2> QED
    BY <1>2, <1>3, <2>1, <2>2, <2>3
<1>6. (w - (h + l)) * p > 0
  <2>1. (w - (h + l)) * p = w * p - (h + l) * p
    OBVIOUS
  <2> QED
    BY <1>5, <2>1
<1>7. w - (h + l) >= 1
  BY <1>6, Positive
<1> QED
  BY <1>1, <1>7

(* The words of the reciprocal of a modulus. *)
LEMMA Reciprocal ==
    ASSUME NEW p \in Nat, NewModulusOk(p), NEW m, m = NewModulus(p), NEW c, c = (B * B) \div p
    PROVE  /\ m.p = p /\ m.hi \in Nat /\ m.lo \in Nat /\ c \in Nat
           /\ c = m.hi * B + m.lo /\ m.lo < B /\ m.hi + m.lo < B
           /\ c * p <= B * B /\ B * B < (c + 1) * p
<1> DEFINE h == c \div B
           l == c % B
<1>1. m.p = p /\ m.hi = h /\ m.lo = l
  BY DEF NewModulus
<1>2. p \in Nat \ {0} /\ p >= 2 /\ B \in Nat \ {0} /\ B * B \in Int
  BY ModulusSize, WordTypes
<1>3. c \in Int /\ B * B = c * p + ((B * B) % p)
      /\ (B * B) % p \in Int /\ 0 <= (B * B) % p /\ (B * B) % p < p
  BY <1>2, Remainder
<1>4. c * p <= B * B /\ B * B < (c + 1) * p
  BY <1>2, <1>3
<1>5. h \in Int /\ l \in Int /\ c = h * B + l /\ 0 <= l /\ l < B
  BY <1>2, <1>3, Remainder
<1> HIDE DEF h, l
<1>6. 0 <= h /\ h + l < B
  BY <1>2, <1>3, <1>4, <1>5, ReciprocalWords
<1>7. c >= 0
  BY <1>2, <1>5, <1>6
<1> QED
  BY <1>1, <1>3, <1>4, <1>5, <1>6, <1>7

(* The sum of the partial products stays below the square of a word.       *)
LEMMA PartialProducts ==
    ASSUME NEW w \in Nat \ {0}, NEW h \in Nat, NEW l \in Nat, h + l < w,
           NEW x \in Nat, x < w, NEW y \in Nat, y < w
    PROVE  /\ x * h + y * l + ((x * l) \div w) \in Nat
           /\ x * h + y * l + ((x * l) \div w) < w * w
<1> DEFINE d == (x * l) \div w
           s == (x * l) % w
<1>1. d \in Int /\ s \in Int /\ 0 <= s /\ s < w /\ x * l = d * w + s
  BY Remainder
<1> HIDE DEF d, s
<1>2. d >= 0
  <2>1. (d + 1) * w > 0
    <3>1. x * l >= 0 /\ x * l \in Int
      OBVIOUS
    <3> QED
      BY <1>1, <3>1
  <2>2. d + 1 >= 1
    BY <1>1, <2>1, Positive
  <2> QED
    BY <1>1, <2>2
<1>3. d <= l
  <2>1. (l - d) * w >= 0
    <3>1. (w - x) * l >= 0
      OBVIOUS
    <3>2. (l - d) * w = (w - x) * l + s
      BY <1>1
    <3> QED
      BY <1>1, <3>1, <3>2
  <2>2. l - d >= 0
    BY <1>1, <2>1, NotNegative
  <2> QED
    BY <1>1, <2>2
<1>4. x * h + y * l <= (w - 1) * (h + l)
  <2>1. (w - 1 - x) * h >= 0 /\ (w - 1 - y) * l >= 0
    OBVIOUS
  <2>2. (w - 1) * (h + l) = x * h + y * l + (w - 1 - x) * h + (w - 1 - y) * l
    OBVIOUS
  <2> QED
    BY <2>1, <2>2
<1>5. (w - 1) * (h + l) <= (w - 1) * (w - 1)
  <2>1. (w - 1) * (w - 1 - (h + l)) >= 0
    OBVIOUS
  <2>2. (w - 1) * (w - 1 - (h + l)) = (w - 1) * (w - 1) - (w - 1) * (h + l)
    OBVIOUS
  <2> QED
    BY <2>1, <2>2
<1>6. (w - 1) * (w - 1) = w * w - 2 * w + 1 /\ d <= w - 1
  BY <1>1, <1>3
<1>7. x * h >= 0 /\ y * l >= 0 /\ x * h \in Int /\ y * l \in Int
  OBVIOUS
<1> QED
  BY <1>1, <1>2, <1>4, <1>5, <1>6, <1>7 DEF d

(* A word remainder below two moduli, reduced once.                        *)
LEMMA ReducedOnce ==
    ASSUME NEW p \in Nat \ {0}, NEW r \in Int, 0 <= r, r < 2 * p
    PROVE  Reduce1(r, p) = r % p /\ Reduce1(r, p) \in 0 .. p - 1
<1>1. CASE r < p
  <2>1. r = 0 * p + r
    OBVIOUS
  <2>2. r % p = r
    BY <1>1, <2>1, RemainderUnique
  <2> QED
    BY <1>1, <2>2 DEF Reduce1
<1>2. CASE r >= p
  <2> DEFINE s == r - p
  <2>1. s \in Int /\ 0 <= s /\ s < p /\ r = 1 * p + s
    BY <1>2
  <2> HIDE DEF s
  <2>2. r % p = s
    BY <2>1, RemainderUnique
  <2>3. Reduce1(r, p) = s
    BY <1>2 DEF Reduce1, s
  <2> QED
    BY <2>1, <2>2, <2>3
<1> QED
  BY <1>1, <1>2

(* lazy_reduce_u128 returns a number below 2 p with the remainder of a,    *)
(* for every modulus and every double word: no sum of its partial products *)
(* exceeds a double word and its quotient is at most one too small.        *)
LEMMA LazyReduceU128Exact ==
    ASSUME NEW p \in Nat, NewModulusOk(p), NEW m, m = NewModulus(p), NEW a \in DoubleWord
    PROVE  /\ LazyReduceU128(m, a) \in 0 .. 2 * p - 1
           /\ LazyReduceU128(m, a) % p = a % p
<1> DEFINE w == B
           n == w * w
           c == n \div p
           h == m.hi
           l == m.lo
           x == a % w
           y == a \div w
           d == (x * l) \div w
           mid == x * h + y * l + d
           q == (mid \div w) + y * h
           r == a - q * p
<1>1. w \in Nat \ {0} /\ n \in Nat \ {0} /\ p \in Nat \ {0} /\ p >= 2 /\ 4 * p < w
  BY WordTypes, ModulusSize
<1>2. a \in Nat /\ a < n
  BY <1>1 DEF DoubleWord
<1>3. /\ m.p = p /\ h \in Nat /\ l \in Nat /\ c \in Nat /\ c = h * w + l /\ l < w /\ h + l < w
      /\ c * p <= n /\ n < (c + 1) * p
  BY Reciprocal
<1>4. LazyReduceU128(m, a) = (a - ((((mid % n) \div w) + y * h) * m.p)) % w
  BY DEF LazyReduceU128
<1> HIDE DEF w, c, h, l
<1>5. x \in Int /\ y \in Int /\ 0 <= x /\ x < w /\ a = y * w + x
  BY <1>1, <1>2, Remainder
<1>6. y \in Nat /\ y < w /\ x \in Nat
  <2>1. (y + 1) * w > 0
    BY <1>1, <1>2, <1>5
  <2>2. y + 1 >= 1
    BY <1>1, <1>5, <2>1, Positive
  <2>3. (w - y) * w > 0
    BY <1>1, <1>2, <1>5
  <2>4. w - y >= 1
    BY <1>1, <1>5, <2>3, Positive
  <2> QED
    BY <1>1, <1>5, <2>2, <2>4
<1> HIDE DEF x, y
<1>7. mid \in Nat /\ mid < n
  BY <1>1, <1>3, <1>5, <1>6, PartialProducts
<1>8. d \in Int
  BY <1>1, <1>3, <1>6, Remainder
<1>9. mid % n = mid
  <2> DEFINE k == 0
  <2>1. k * n = k /\ k = 0 /\ k \in Int
    BY <1>1
  <2> HIDE DEF mid, n, k
  <2>2. mid = k * n + mid
    BY <1>1, <1>7, <2>1
  <2> QED
    BY <1>1, <1>7, <2>1, <2>2, RemainderUnique
<1>10. mid \div w = ((x * h + y * l) * w + x * l) \div n
  <2> DEFINE u == x * h + y * l
             v == x * l
  <2>1. u \in Int /\ v \in Int
    BY <1>3, <1>6
  <2> HIDE DEF u, v
  <2>2. (u + (v \div w)) \div w = (u * w + v) \div (w * w)
    BY <1>1, <2>1, QuotientOfQuotient
  <2> QED
    BY <2>2 DEF u, v
<1>11. a * c = ((x * h + y * l) * w + x * l) + (y * h) * n
  BY <1>1, <1>3, <1>5, <1>6
<1>12. q \in Int /\ q * n <= a * c /\ a * c < (q + 1) * n
  <2> DEFINE v == (x * h + y * l) * w + x * l
             e == v \div n
             f == v % n
  <2>1. v \in Int
    BY <1>1, <1>3, <1>6
  <2> HIDE DEF v
  <2>2. e \in Int /\ f \in Int /\ 0 <= f /\ f < n /\ v = e * n + f
    BY <1>1, <2>1, Remainder
  <2>3. q = e + y * h
    BY <1>10 DEF v
  <2> HIDE DEF e, f, q
  <2>4. a * c = q * n + f
    <3>1. y * h \in Int /\ a * c = v + (y * h) * n
      BY <1>3, <1>6, <1>11 DEF v
    <3> DEFINE g == y * h
    <3> HIDE DEF g, n
    <3> QED
      BY <1>1, <2>2, <2>3, <3>1 DEF g
  <2>5. q \in Int
    BY <1>3, <1>6, <2>2, <2>3
  <2> HIDE DEF n
  <2>6. (q + 1) * n = q * n + n
    BY <1>1, <2>5
  <2> QED
    BY <1>1, <2>2, <2>4, <2>5, <2>6
<1> HIDE DEF n, q
<1>13. q \in Nat
  <2>1. (q + 1) * n > 0
    <3>1. a * c >= 0 /\ a * c \in Int
      BY <1>2, <1>3
    <3> QED
      BY <1>1, <1>12, <3>1
  <2>2. q + 1 >= 1
    BY <1>1, <1>12, <2>1, Positive
  <2> QED
    BY <1>12, <2>2
<1>14. 0 <= a * 1 - q * p /\ a * 1 - q * p < 2 * p
  <2>1. c * p <= 1 * n /\ 1 * n < (c + 1) * p /\ 1 \in Nat
    BY <1>1, <1>3
  <2> QED
    BY <1>1, <1>2, <1>3, <1>12, <1>13, <2>1, TwiceRounded
<1>15. r \in Int /\ 0 <= r /\ r < 2 * p /\ r < w
  BY <1>1, <1>2, <1>13, <1>14
<1>16. LazyReduceU128(m, a) = r % w
  BY <1>3, <1>4, <1>9 DEF q
<1>17. r % p = a % p
  <2>1. a = q * p + r /\ a \in Int /\ q \in Int
    BY <1>2, <1>1, <1>13
  <2> DEFINE z == a
  <2>2. r \in Int /\ z = q * p + r /\ z \in Int /\ q \in Int /\ p \in Nat \ {0}
    BY <1>1, <1>15, <2>1
  <2> HIDE DEF r, z, d, mid
  <2>3. z % p = r % p
    BY <2>2, SameRemainder, ZenonT(60)
  <2> QED
    BY <2>3 DEF z
<1> HIDE DEF r
<1>18. r % w = r
  <2>1. r = 0 * w + r
    BY <1>1, <1>15
  <2> QED
    BY <1>1, <1>15, <2>1, RemainderUnique
<1> QED
  BY <1>1, <1>15, <1>16, <1>17, <1>18

(* reduce_u128 is the remainder, for every modulus and every double word.  *)
THEOREM ReduceU128Exact ==
    ASSUME NEW p \in Nat, NewModulusOk(p), NEW a \in DoubleWord
    PROVE  ReduceU128(NewModulus(p), a) = a % p /\ ReduceU128(NewModulus(p), a) \in 0 .. p - 1
<1> DEFINE m == NewModulus(p)
           r == LazyReduceU128(m, a)
<1>1. r \in 0 .. 2 * p - 1 /\ r % p = a % p
  BY LazyReduceU128Exact
<1>2. p \in Nat \ {0} /\ m.p = p
  BY ModulusSize DEF NewModulus
<1>3. ReduceU128(m, a) = Reduce1(r, p)
  BY <1>2 DEF ReduceU128
<1> HIDE DEF r, m
<1>4. r \in Int /\ 0 <= r /\ r < 2 * p
  BY <1>1, <1>2
<1> QED
  BY <1>1, <1>2, <1>3, <1>4, ReducedOnce DEF m

(* mul_shoup is the product modulo p of any word with a residue and its    *)
(* Shoup quotient, for every modulus (the lazy form is below 2 p).         *)
THEOREM MulShoupExact ==
    ASSUME NEW p \in Nat, NewModulusOk(p), NEW a \in Word, NEW b \in 0 .. p - 1
    PROVE  LET m == NewModulus(p)
           IN  /\ LazyMulShoup(m, a, b, Shoup(m, b)) \in 0 .. 2 * p - 1
               /\ LazyMulShoup(m, a, b, Shoup(m, b)) % p = (a * b) % p
               /\ MulShoup(m, a, b, Shoup(m, b)) = (a * b) % p
<1> DEFINE m == NewModulus(p)
           w == B
           c == (b * w) \div p
           q == (a * c) \div w
           r == a * b - q * p
<1>1. w \in Nat \ {0} /\ p \in Nat \ {0} /\ p >= 2 /\ 4 * p < w
  BY WordTypes, ModulusSize
<1>2. m.p = p
  BY DEF NewModulus
<1>3. a \in Nat /\ a < w /\ b \in Nat /\ b < p
  BY <1>1 DEF Word
<1>4. Shoup(m, b) = c % w
  BY <1>2 DEF Shoup
<1> HIDE DEF w, m
<1>5. c \in Int /\ c * p <= b * w /\ b * w < (c + 1) * p
  <2> DEFINE v == b * w
             s == v % p
  <2>1. v \in Int
    BY <1>1, <1>3
  <2> HIDE DEF v
  <2>2. v \div p \in Int /\ s \in Int /\ 0 <= s /\ s < p /\ v = (v \div p) * p + s
    BY <1>1, <2>1, Remainder
  <2>3. c = v \div p
    BY DEF v
  <2> HIDE DEF c
  <2> QED
    BY <1>1, <2>2, <2>3 DEF v
<1> HIDE DEF c
<1>6. c \in Nat /\ c < w
  <2>1. (c + 1) * p > 0
    <3>1. b * w >= 0 /\ b * w \in Int
      BY <1>1, <1>3
    <3> QED
      BY <1>1, <1>5, <3>1
  <2>2. c + 1 >= 1
    BY <1>1, <1>5, <2>1, Positive
  <2>3. (w - c) * p > 0
    <3>1. (p - b) * w > 0 /\ (p - b) * w = p * w - b * w
      BY <1>1, <1>3
    <3>2. (w - c) * p = p * w - c * p
      BY <1>1, <1>5
    <3>3. p * w \in Int /\ b * w \in Int /\ c * p \in Int
      BY <1>1, <1>3, <1>5
    <3> QED
      BY <1>5, <3>1, <3>2, <3>3
  <2>4. w - c >= 1
    BY <1>1, <1>5, <2>3, Positive
  <2> QED
    BY <1>1, <1>5, <2>2, <2>4
<1>7. c % w = c
  <2>1. c = 0 * w + c
    BY <1>1, <1>6
  <2> QED
    BY <1>1, <1>6, <2>1, RemainderUnique
<1>8. q \in Int /\ q * w <= a * c /\ a * c < (q + 1) * w
  <2> DEFINE v == a * c
             s == v % w
  <2>1. v \in Int
    BY <1>3, <1>6
  <2> HIDE DEF v
  <2>2. v \div w \in Int /\ s \in Int /\ 0 <= s /\ s < w /\ v = (v \div w) * w + s
    BY <1>1, <2>1, Remainder
  <2>3. q = v \div w
    BY DEF v
  <2> HIDE DEF q, s
  <2>4. (q + 1) * w = q * w + w
    BY <1>1, <2>2, <2>3
  <2>5. v = a * c
    BY DEF v
  <2> QED
    BY <1>1, <2>1, <2>2, <2>3, <2>4, <2>5
<1> HIDE DEF q
<1>9. q \in Nat
  <2>1. (q + 1) * w > 0
    <3>1. a * c >= 0 /\ a * c \in Int
      BY <1>3, <1>6
    <3> QED
      BY <1>1, <1>8, <3>1
  <2>2. q + 1 >= 1
    BY <1>1, <1>8, <2>1, Positive
  <2> QED
    BY <1>8, <2>2
<1>10. 0 <= r /\ r < 2 * p
  BY <1>1, <1>3, <1>5, <1>6, <1>8, <1>9, TwiceRounded
<1>11. r \in Int /\ r < w
  BY <1>1, <1>3, <1>9, <1>10
<1>12. LazyMulShoup(m, a, b, Shoup(m, b)) = r % w
  BY <1>2, <1>4, <1>7 DEF LazyMulShoup, q, w
<1>13. a * b = q * p + r /\ a * b \in Int
  BY <1>1, <1>3, <1>9
<1> HIDE DEF r
<1>14. r % w = r
  <2>1. r = 0 * w + r
    BY <1>1, <1>11
  <2> QED
    BY <1>1, <1>10, <1>11, <2>1, RemainderUnique
<1>15. (a * b) % p = r % p
  <2> DEFINE v == a * b
  <2>1. v = q * p + r /\ v \in Int /\ q \in Int
    BY <1>9, <1>13
  <2> HIDE DEF v
  <2>2. v % p = r % p
    BY <1>1, <1>11, <2>1, SameRemainder, ZenonT(60)
  <2> QED
    BY <2>2 DEF v
<1>16. MulShoup(m, a, b, Shoup(m, b)) = Reduce1(r, p)
  BY <1>2, <1>12, <1>14 DEF MulShoup
<1>17. Reduce1(r, p) = r % p
  BY <1>1, <1>10, <1>11, ReducedOnce
<1> QED
  BY <1>1, <1>10, <1>11, <1>12, <1>14, <1>15, <1>16, <1>17 DEF m

-----------------------------------------------------------------------------
(* The moduli close below a power of two (SupportsOpt).                    *)

(* What supports_opt asks, with one factor u + 1 divided out.              *)
LEMMA OptBounds ==
    ASSUME NEW p \in Nat \ {0}, NEW u \in Nat, u >= 2, NEW D \in Nat,
           ((u * u) * u + 1) * (u * D) < ((u * u) * u) * (u + 1) * p
    PROVE  u * u * (D - p) <= (u - 1) * D /\ u * D < (u + 1) * p
<1>1. (u * u - u + 1) * D < u * u * p
  <2> DEFINE e == u * u * p - (u * u - u + 1) * D
             n == u * (u + 1)
  <2>1. e * n = ((u * u) * u) * (u + 1) * p - ((u * u) * u + 1) * (u * D)
    OBVIOUS
  <2>2. e * n > 0
    <3> DEFINE y == ((u * u) * u + 1) * (u * D)
               z == ((u * u) * u) * (u + 1) * p
    <3>1. y \in Int /\ z \in Int /\ y < z /\ e * n = z - y
      BY <2>1
    <3> HIDE DEF e, n, y, z
    <3> QED
      BY <3>1
  <2>3. e \in Int /\ n \in Nat \ {0} /\ u * u * p \in Int /\ (u * u - u + 1) * D \in Int
    <3>1. u + 1 \in Nat \ {0} /\ u \in Nat \ {0}
      OBVIOUS
    <3> QED
      BY <3>1
  <2> HIDE DEF n
  <2>4. e >= 1
    <3> HIDE DEF e
    <3> QED
      BY <2>2, <2>3, Positive
  <2> QED
    BY <2>3, <2>4
<1> DEFINE n == u * u
           x == n * p
           y == (n - u + 1) * D
<1>2. n \in Nat \ {0} /\ x \in Int /\ y \in Int /\ y < x
  <2>1. u \in Nat \ {0}
    OBVIOUS
  <2> QED
    BY <1>1, <2>1
<1>3. n * (D - p) <= (u - 1) * D
  <2>1. n * (D - p) = (u - 1) * D + (y - x)
    BY <1>2
  <2>2. (u - 1) * D \in Int
    OBVIOUS
  <2> HIDE DEF x, y
  <2> QED
    BY <1>2, <2>1, <2>2
<1>4. u * D < (u + 1) * p
  <2> DEFINE e == (u + 1) * p - u * D
  <2>1. e * n = (u + 1) * (x - y) + D
    OBVIOUS
  <2>2. e \in Int /\ (u + 1) * p \in Int /\ u * D \in Int
    OBVIOUS
  <2>3. e * n > 0
    <3> HIDE DEF x, y, e, n
    <3>1. (u + 1) * (x - y) > 0 /\ (u + 1) * (x - y) \in Int
      BY <1>2
    <3> QED
      BY <2>1, <3>1
  <2>4. e >= 1
    <3> HIDE DEF e, n
    <3> QED
      BY <1>2, <2>2, <2>3, Positive
  <2> QED
    BY <2>2, <2>4
<1> QED
  BY <1>3, <1>4

(* A modulus p that supports_opt accepts is that close to D, the power of  *)
(* two above it: u D is a word.                                            *)
LEMMA OptModulus ==
    ASSUME NEW p \in Nat, NewModulusOk(p), SupportsOpt(p), NEW u, NEW D,
           u = Pow2[LeadingZeros[p]], D = Pow2[W - LeadingZeros[p]]
    PROVE  /\ u \in Nat /\ u >= 2 /\ D \in Nat /\ u * D = B /\ p < D
           /\ u * u * (D - p) <= (u - 1) * D /\ B < (u + 1) * p
<1> DEFINE s == LeadingZeros[p]
<1>1. W \in Nat /\ s \in 2 .. W - 1 /\ p < D /\ p \in Nat \ {0}
  BY WordsAssumption, ModulusSize, BitsOfModulus
<1>2. (Pow2[3 * s] + 1) * B < Pow2[3 * s] * (Pow2[s] + 1) * p
  BY DEF SupportsOpt
<1> HIDE DEF s
<1>3. /\ s \in Nat /\ W - s \in Nat /\ s + s \in Nat /\ (s + s) + s = 3 * s /\ 3 * s <= 4 * W
      /\ s + (W - s) = W /\ s + s <= 4 * W /\ W <= 4 * W /\ 0 < s /\ s <= 4 * W
      /\ s \in 0 .. 4 * W /\ W - s \in 0 .. 4 * W
  BY <1>1
<1>4. u \in Nat /\ D \in Nat
  BY <1>3, PowerTypes DEF s
<1>5. Pow2[s + s] = u * u /\ Pow2[3 * s] = (u * u) * u /\ u * D = B
  <2>1. u = Pow2[s] /\ D = Pow2[W - s]
    BY DEF s
  <2>2. Pow2[s + s] = u * u
    BY <1>3, <2>1, PowerOfSum
  <2>3. Pow2[(s + s) + s] = Pow2[s + s] * u
    BY <1>3, <2>1, PowerOfSum
  <2>4. Pow2[s + (W - s)] = u * D
    BY <1>3, <2>1, PowerOfSum
  <2> QED
    BY <1>3, <2>2, <2>3, <2>4, WordTypes
<1>6. u >= 2
  <2>1. 2 * Pow2[0] <= Pow2[s] /\ Pow2[0] = 1
    BY <1>3, PowerGrows, PowersDouble
  <2> QED
    BY <1>4, <2>1 DEF s
<1>7. ((u * u) * u + 1) * (u * D) < ((u * u) * u) * (u + 1) * p
  BY <1>2, <1>5 DEF s
<1> HIDE DEF s
<1>8. u * u * (D - p) <= (u - 1) * D /\ u * D < (u + 1) * p
  <2>1. p \in Nat \ {0}
    BY <1>1
  <2> HIDE DEF s
  <2> QED
    BY <1>4, <1>6, <1>7, <2>1, OptBounds
<1> QED
  BY <1>1, <1>4, <1>5, <1>6, <1>8

(* A word a, its quotient q by D and the remainder t: q is within one of   *)
(* the quotient by p.                                                      *)
LEMMA OptWordQuotient ==
    ASSUME NEW p \in Nat \ {0}, NEW u \in Nat, u >= 2, NEW D \in Nat, p < D,
           u * u * (D - p) <= (u - 1) * D,
           NEW a \in Nat, a < u * D, NEW q \in Int, NEW t \in Int, 0 <= t, t < D, a = q * D + t
    PROVE  q \in Nat /\ 0 <= a - q * p /\ a - q * p < 2 * p
<1>1. q >= 0
  <2>1. (q + 1) * D > 0
    <3>1. (q + 1) * D = a - t + D /\ q * D \in Int
      OBVIOUS
    <3> QED
      BY <3>1
  <2>2. q + 1 >= 1
    BY <2>1, Positive
  <2> QED
    BY <2>2
<1>2. q <= u - 1
  <2>1. (u - q) * D > 0
    <3>1. (u - q) * D = u * D - a + t /\ u * D \in Int
      OBVIOUS
    <3> QED
      BY <3>1
  <2>2. u - q >= 1
    BY <2>1, Positive
  <2> QED
    BY <2>2
<1> DEFINE v == D - p
           d == a - q * p
<1>3. v \in Nat /\ d \in Int /\ d = t + q * v
  OBVIOUS
<1>4. q * v >= 0 /\ q * v \in Int
  BY <1>1, <1>3
<1>5. 2 * p - d >= 1
  <2> DEFINE n == u * u
             x == n * v
             y == (u - 1) * D
  <2>1. n \in Nat \ {0} /\ x \in Int /\ y \in Int /\ x <= y
    <3>1. u \in Nat \ {0}
      OBVIOUS
    <3> QED
      BY <1>3, <3>1
  <2>2. (u - 1 - q) * v >= 0 /\ (u - 1 - q) * v \in Int
    BY <1>2, <1>3
  <2>3. (2 * p - d) * n = D + n * (D - t) + n * ((u - 1 - q) * v) + (u + 1) * (y - x)
    BY <1>3
  <2>4. n * (D - t) > 0 /\ n * (D - t) \in Int
    BY <2>1
  <2>5. n * ((u - 1 - q) * v) >= 0 /\ n * ((u - 1 - q) * v) \in Int
    BY <2>1, <2>2
  <2>6. (u + 1) * (y - x) >= 0 /\ (u + 1) * (y - x) \in Int
    <3> HIDE DEF x, y
    <3> QED
      BY <2>1
  <2>7. (2 * p - d) * n > 0
    <3> HIDE DEF n, x, y, v, d
    <3> QED
      BY <2>3, <2>4, <2>5, <2>6
  <2>8. 2 * p - d \in Int
    BY <1>3
  <2> DEFINE e == 2 * p - d
  <2> HIDE DEF e, n
  <2> QED
    BY <2>1, <2>7, <2>8, Positive DEF e
<1> QED
  BY <1>1, <1>3, <1>4, <1>5

(* A double word a below the square of p and the words x and y of it: the  *)
(* product with the reciprocal c = u w + l neither overflows nor loses     *)
(* more than one from the quotient.                                        *)
LEMMA OptDoubleQuotient ==
    ASSUME NEW p \in Nat \ {0}, NEW u \in Nat, u >= 2, NEW w \in Nat \ {0},
           u * p < w, w < (u + 1) * p,
           NEW c \in Nat, NEW l \in Nat, c = u * w + l, c * p <= w * w, w * w < (c + 1) * p,
           u * u * (l * p) <= (u - 1) * (w * w),
           NEW a \in Nat, a < p * p, NEW x \in Nat, NEW y \in Nat, a = y * w + x, x < w,
           NEW q \in Nat, NEW mid, mid = l * y + a * u, q * w <= mid, mid < (q + 1) * w
    PROVE  0 <= a - q * p /\ a - q * p < 2 * p
<1> DEFINE n == w * w
           d == a - q * p
<1>1. n \in Nat \ {0} /\ d \in Int /\ a * c \in Int /\ mid \in Int /\ p * p \in Int
  <2>1. l * y \in Int /\ a * u \in Int /\ q * p \in Int
    OBVIOUS
  <2> QED
    BY <2>1
<1>2. mid * w = a * c - l * x
  OBVIOUS
<1>3. d * n >= 0
  <2>1. w * p * (mid - q * w) >= 0
    BY <1>1
  <2>2. a * (n - c * p) >= 0
    OBVIOUS
  <2>3. p * (l * x) >= 0
    OBVIOUS
  <2>4. d * n = a * (n - c * p) + p * (l * x) + w * p * (mid - q * w)
    <3>1. w * p * (mid - q * w) = p * (mid * w) - p * (q * n)
      BY <1>1
    <3>2. p * (mid * w) = p * (a * c) - p * (l * x)
      BY <1>2
    <3>3. d * n = a * n - p * (q * n) /\ a * (n - c * p) = a * n - p * (a * c)
      OBVIOUS
    <3> DEFINE e1 == p * (q * n)
               e2 == p * (a * c)
               e3 == p * (l * x)
               e4 == a * n
    <3>4. e1 \in Int /\ e2 \in Int /\ e3 \in Int /\ e4 \in Int
      OBVIOUS
    <3> DEFINE f1 == w * p * (mid - q * w)
               f2 == d * n
               f3 == a * (n - c * p)
               f4 == p * (mid * w)
    <3>5. f1 = f4 - e1 /\ f4 = e2 - e3 /\ f2 = e4 - e1 /\ f3 = e4 - e2
      BY <3>1, <3>2, <3>3
    <3> HIDE DEF e1, e2, e3, e4, f1, f2, f3, f4
    <3>6. f2 = f3 + e3 + f1
      BY <3>4, <3>5
    <3> QED
      BY <3>6 DEF e3, f1, f2, f3
  <2> DEFINE g1 == w * p * (mid - q * w)
             g2 == a * (n - c * p)
             g3 == p * (l * x)
  <2>5. g1 \in Int /\ g2 \in Int /\ g3 \in Int
    BY <1>1
  <2> HIDE DEF g1, g2, g3
  <2>6. g2 + g3 + g1 >= 0
    BY <2>1, <2>2, <2>3, <2>5 DEF g1, g2, g3
  <2> QED
    BY <2>4, <2>6 DEF g1, g2, g3
<1>4. a + l * w <= n
  <2> DEFINE m == u * u * p
             e == n - a - l * w
  <2>1. m \in Nat \ {0}
    <3>1. u \in Nat \ {0}
      OBVIOUS
    <3> QED
      BY <3>1
  <2>2. e \in Int /\ l * w \in Int
    BY <1>1
  <2>3. m * a <= n * p
    <3>1. u * u * p * (p * p - a) >= 0
      <4>1. p * p - a >= 0 /\ p * p - a \in Int
        BY <1>1
      <4> DEFINE z == p * p - a
      <4> HIDE DEF z
      <4>2. m * z >= 0
        BY <2>1, <4>1 DEF z
      <4> QED
        BY <4>2 DEF z
    <3>2. p * ((w - u * p) * (w + u * p)) >= 0
      <4>1. w - u * p >= 0 /\ w + u * p >= 0 /\ u * p \in Int
        OBVIOUS
      <4> DEFINE z == u * p
      <4> HIDE DEF z
      <4>2. (w - z) * (w + z) >= 0 /\ (w - z) * (w + z) \in Int
        BY <4>1 DEF z
      <4>3. p * ((w - z) * (w + z)) >= 0
        BY <4>2
      <4> QED
        BY <4>3 DEF z
    <3>3. n * p - m * a = u * u * p * (p * p - a) + p * ((w - u * p) * (w + u * p))
      OBVIOUS
    <3> DEFINE z1 == u * u * p * (p * p - a)
               z2 == p * ((w - u * p) * (w + u * p))
               z3 == n * p
               z4 == m * a
    <3>4. z1 \in Int /\ z2 \in Int /\ z3 \in Int /\ z4 \in Int
      OBVIOUS
    <3>5. z1 >= 0 /\ z2 >= 0 /\ z3 - z4 = z1 + z2
      BY <3>1, <3>2, <3>3
    <3> HIDE DEF z1, z2, z3, z4
    <3>6. z4 <= z3
      BY <3>4, <3>5
    <3> QED
      BY <3>6 DEF z3, z4
  <2>4. m * (l * w) <= ((u - 1) * n) * w
    <3> DEFINE z == (u - 1) * n - u * u * (l * p)
    <3>1. z \in Int /\ z >= 0
      <4>1. (u - 1) * n \in Int /\ u * u * (l * p) \in Int
        BY <1>1
      <4> QED
        BY <4>1
    <3>2. m * (l * w) = ((u - 1) * n) * w - z * w
      OBVIOUS
    <3> HIDE DEF z
    <3>3. z * w >= 0 /\ z * w \in Int /\ ((u - 1) * n) * w \in Int
      BY <1>1, <3>1
    <3> QED
      BY <3>2, <3>3
  <2>5. m * n >= n * p + ((u - 1) * n) * w
    <3>1. m * n - (n * p + ((u - 1) * n) * w) = (n * (u - 1)) * ((u + 1) * p - w)
      OBVIOUS
    <3>2. (u + 1) * p - w \in Int /\ (u + 1) * p - w >= 0 /\ n * (u - 1) \in Nat
      <4>1. (u + 1) * p \in Int
        OBVIOUS
      <4>2. n * (u - 1) \in Nat
        <5>1. u - 1 \in Nat /\ n \in Nat
          BY <1>1
        <5> HIDE DEF n
        <5> QED
          BY <5>1
      <4> QED
        BY <4>1, <4>2
    <3> DEFINE z == (u + 1) * p - w
               k == n * (u - 1)
               z1 == m * n
               z2 == n * p + ((u - 1) * n) * w
    <3>3. z1 \in Int /\ z2 \in Int /\ z1 - z2 = k * z
      BY <3>1
    <3> HIDE DEF z, k, z1, z2
    <3>4. k * z >= 0 /\ k * z \in Int
      BY <3>2 DEF z, k
    <3>5. z1 >= z2
      BY <3>3, <3>4
    <3> QED
      BY <3>5 DEF z1, z2
  <2>6. e * m = m * n - m * a - m * (l * w)
    OBVIOUS
  <2>7. e * m >= 0
    <3> DEFINE z1 == m * n
               z2 == m * a
               z3 == m * (l * w)
               z4 == n * p
               z5 == ((u - 1) * n) * w
    <3>1. z1 \in Int /\ z2 \in Int /\ z3 \in Int /\ z4 \in Int /\ z5 \in Int
      OBVIOUS
    <3>2. z2 <= z4 /\ z3 <= z5 /\ z1 >= z4 + z5 /\ e * m = z1 - z2 - z3
      BY <2>3, <2>4, <2>5, <2>6
    <3> HIDE DEF z1, z2, z3, z4, z5, e, m
    <3> QED
      BY <3>1, <3>2
  <2>8. e >= 0
    <3> HIDE DEF e, m
    <3> QED
      BY <2>1, <2>2, <2>7, NotNegative
  <2> QED
    BY <1>1, <2>2, <2>8
<1>5. (2 * p - d) * n > 0
  <2> DEFINE z1 == p * (n - a - l * w)
             z2 == a * ((c + 1) * p - n)
             z3 == (p * l) * (w - x)
             z4 == (w * p) * ((q + 1) * w - mid)
  <2>1. (2 * p - d) * n = z1 + z2 + z3 + z4
    <3>1. z4 = p * (q * n) + p * n - p * (mid * w)
      BY <1>1
    <3>2. p * (mid * w) = p * (a * c) - p * (l * x)
      BY <1>2
    <3>3. /\ (2 * p - d) * n = 2 * (p * n) - a * n + p * (q * n)
          /\ z1 = p * n - p * a - p * (l * w)
          /\ z2 = p * (a * c) + p * a - a * n
          /\ z3 = p * (l * w) - p * (l * x)
      OBVIOUS
    <3> DEFINE e1 == p * (q * n)
               e2 == p * (a * c)
               e3 == p * (l * x)
               e4 == a * n
               e5 == p * n
               e6 == p * a
               e7 == p * (l * w)
               e8 == p * (mid * w)
               e9 == (2 * p - d) * n
    <3>4. /\ e1 \in Int /\ e2 \in Int /\ e3 \in Int /\ e4 \in Int /\ e5 \in Int
          /\ e6 \in Int /\ e7 \in Int
      OBVIOUS
    <3>5. /\ z4 = e1 + e5 - e8 /\ e8 = e2 - e3 /\ e9 = 2 * e5 - e4 + e1
          /\ z1 = e5 - e6 - e7 /\ z2 = e2 + e6 - e4 /\ z3 = e7 - e3
      BY <3>1, <3>2, <3>3
    <3> HIDE DEF e1, e2, e3, e4, e5, e6, e7, e8, e9, z1, z2, z3, z4
    <3>6. e9 = z1 + z2 + z3 + z4
      BY <3>4, <3>5
    <3> QED
      BY <3>6 DEF e9
  <2>2. z1 >= 0 /\ z1 \in Int
    <3> DEFINE z == n - a - l * w
    <3>1. z \in Int /\ z >= 0
      <4>1. l * w \in Int
        OBVIOUS
      <4> QED
        BY <1>1, <1>4, <4>1
    <3> HIDE DEF z
    <3>2. p * z >= 0 /\ p * z \in Int
      BY <3>1
    <3> QED
      BY <3>2 DEF z
  <2>3. z2 >= 0 /\ z2 \in Int
    <3> DEFINE z == (c + 1) * p - n
    <3>1. z \in Int /\ z >= 0
      BY <1>1
    <3> HIDE DEF z
    <3>2. a * z >= 0 /\ a * z \in Int
      BY <3>1
    <3> QED
      BY <3>2 DEF z
  <2>4. z3 >= 0 /\ z3 \in Int
    <3>1. p * l \in Nat /\ w - x \in Nat
      OBVIOUS
    <3> DEFINE k == p * l
    <3> HIDE DEF k
    <3>2. k * (w - x) >= 0 /\ k * (w - x) \in Int
      BY <3>1 DEF k
    <3> QED
      BY <3>2 DEF k
  <2>5. z4 > 0 /\ z4 \in Int
    <3> DEFINE k == w * p
               z == (q + 1) * w - mid
    <3>1. k \in Nat \ {0} /\ z \in Int /\ z > 0
      <4>1. (q + 1) * w \in Int
        OBVIOUS
      <4>2. z \in Int /\ z > 0
        BY <1>1, <4>1
      <4> HIDE DEF z
      <4>3. k \in Nat \ {0}
        OBVIOUS
      <4> QED
        BY <4>2, <4>3
    <3> HIDE DEF k, z
    <3>2. k * z > 0 /\ k * z \in Int
      BY <3>1
    <3> QED
      BY <3>2 DEF k, z
  <2> DEFINE z == (2 * p - d) * n
  <2>6. z = z1 + z2 + z3 + z4
    BY <2>1
  <2> HIDE DEF z, z1, z2, z3, z4
  <2>7. z > 0
    BY <2>2, <2>3, <2>4, <2>5, <2>6
  <2> QED
    BY <2>7 DEF z
<1>6. d >= 0
  <2> HIDE DEF d, n
  <2> QED
    BY <1>1, <1>3, NotNegative
<1>7. 2 * p - d >= 1
  <2> DEFINE e == 2 * p - d
  <2>1. e \in Int /\ e * n > 0
    BY <1>1, <1>5
  <2> HIDE DEF e, n
  <2> QED
    BY <1>1, <2>1, Positive DEF e
<1> QED
  BY <1>1, <1>6, <1>7

(* The high word of the reciprocal is u.                                   *)
LEMMA OptQuotientWord ==
    ASSUME NEW p \in Nat \ {0}, NEW u \in Nat, NEW w \in Nat \ {0}, u * p < w, w < (u + 1) * p,
           NEW c \in Nat, NEW h \in Nat, NEW l \in Nat, c = h * w + l, l < w,
           c * p <= w * w, w * w < (c + 1) * p
    PROVE  h = u
<1>1. (c + 1 - u * w) * p > 0
  <2>1. w * (w - u * p) >= 0
    OBVIOUS
  <2>2. (c + 1 - u * w) * p = ((c + 1) * p - w * w) + w * (w - u * p)
    OBVIOUS
  <2> QED
    BY <2>1, <2>2
<1>2. ((u + 1) * w - c) * p > 0
  <2>1. w * ((u + 1) * p - w) > 0
    OBVIOUS
  <2>2. ((u + 1) * w - c) * p = w * ((u + 1) * p - w) + (w * w - c * p)
    OBVIOUS
  <2> QED
    BY <2>1, <2>2
<1>3. c + 1 - u * w >= 1 /\ (u + 1) * w - c >= 1
  <2> DEFINE e == c + 1 - u * w
             f == (u + 1) * w - c
  <2>1. e \in Int /\ f \in Int /\ e * p > 0 /\ f * p > 0
    BY <1>1, <1>2
  <2> HIDE DEF e, f
  <2>2. e >= 1 /\ f >= 1
    BY <2>1, Positive
  <2> QED
    BY <2>2 DEF e, f
<1>4. (h + 1 - u) * w > 0
  <2>1. (h + 1 - u) * w = (c - u * w) + (w - l)
    OBVIOUS
  <2> QED
    BY <1>3, <2>1
<1>5. (u + 1 - h) * w > 0
  <2>1. (u + 1 - h) * w = ((u + 1) * w - c) + l
    OBVIOUS
  <2> QED
    BY <1>3, <2>1
<1>6. h + 1 - u >= 1 /\ u + 1 - h >= 1
  BY <1>4, <1>5, Positive
<1> QED
  BY <1>6

(* The low word is smaller the closer the modulus is.                      *)
LEMMA OptLowWord ==
    ASSUME NEW p \in Nat \ {0}, NEW u \in Nat, NEW w \in Nat \ {0}, NEW D \in Nat, u * D = w,
           u * u * (D - p) <= (u - 1) * D,
           NEW c \in Nat, NEW l \in Nat, c = u * w + l, c * p <= w * w
    PROVE  u * u * (l * p) <= (u - 1) * (w * w)
<1> DEFINE z == w * w - c * p
           y == (u - 1) * D - u * u * (D - p)
<1>1. z \in Int /\ z >= 0 /\ y \in Int /\ y >= 0
  <2>1. (u - 1) * D \in Int /\ u * u * (D - p) \in Int
    OBVIOUS
  <2> QED
    BY <2>1
<1>2. l * p = w * (w - u * p) - z
  OBVIOUS
<1>3. w - u * p = u * (D - p)
  OBVIOUS
<1>4. u * u * (l * p) = (u * w) * (u * u * (D - p)) - (u * u) * z
  <2>1. l * p = w * (u * (D - p)) - z
    BY <1>2, <1>3
  <2> DEFINE e == l * p
  <2>2. e = w * (u * (D - p)) - z /\ e \in Int
    BY <2>1
  <2> HIDE DEF e, z
  <2>3. u * u * e = (u * w) * (u * u * (D - p)) - (u * u) * z
    BY <1>1, <2>2
  <2> QED
    BY <2>3 DEF e
<1>5. (u * w) * (u * u * (D - p)) = (u - 1) * (w * w) - (u * w) * y
  <2>1. (u * w) * (u * u * (D - p)) = (u * w) * ((u - 1) * D) - (u * w) * y
    OBVIOUS
  <2>2. (u * w) * ((u - 1) * D) = ((u - 1) * w) * (u * D)
    OBVIOUS
  <2>3. ((u - 1) * w) * (u * D) = ((u - 1) * w) * w
    OBVIOUS
  <2>4. ((u - 1) * w) * w = (u - 1) * (w * w)
    OBVIOUS
  <2> QED
    BY <2>1, <2>2, <2>3, <2>4
<1> HIDE DEF y, z
<1>6. (u * w) * y >= 0 /\ (u * u) * z >= 0 /\ (u * w) * y \in Int /\ (u * u) * z \in Int
  <2>1. u * w \in Nat /\ u * u \in Nat
    OBVIOUS
  <2> DEFINE j == u * w
             k == u * u
  <2> HIDE DEF j, k
  <2>2. j * y >= 0 /\ k * z >= 0 /\ j * y \in Int /\ k * z \in Int
    BY <1>1, <2>1 DEF j, k
  <2> QED
    BY <2>2 DEF j, k
<1>7. (u - 1) * (w * w) \in Int
  OBVIOUS
<1> DEFINE e1 == u * u * (l * p)
           e2 == (u * w) * (u * u * (D - p))
           e3 == (u * w) * y
           e4 == (u * u) * z
           e5 == (u - 1) * (w * w)
<1>8. e1 = e2 - e4 /\ e2 = e5 - e3 /\ e3 >= 0 /\ e4 >= 0 /\ e3 \in Int /\ e4 \in Int /\ e5 \in Int
  BY <1>4, <1>5, <1>6, <1>7
<1> HIDE DEF e1, e2, e3, e4, e5
<1>9. e1 <= e5
  BY <1>8
<1> QED
  BY <1>9 DEF e1, e5

(* The products with the reciprocal fit a double word.                     *)
LEMMA OptProductFits ==
    ASSUME NEW p \in Nat \ {0}, NEW u \in Nat, NEW w \in Nat \ {0}, p < w,
           NEW c \in Nat, NEW l \in Nat, c = u * w + l, c * p <= w * w,
           NEW a \in Nat, a < p * p, NEW x \in Nat, NEW y \in Nat, a = y * w + x
    PROVE  l * y + a * u \in Nat /\ l * y + a * u < w * w
<1> DEFINE mid == l * y + a * u
<1>1. mid \in Nat
  <2>1. l * y \in Nat /\ a * u \in Nat
    OBVIOUS
  <2> QED
    BY <2>1
<1>2. mid * w = a * c - l * x
  OBVIOUS
<1> HIDE DEF mid
<1>3. (w * w - mid) * (w * p) > 0
  <2> DEFINE n == w * w
             e1 == a * (n - c * p)
             e2 == (l * x) * p
             e3 == n * (w * p - a)
  <2>1. n * (w * p) - mid * (w * p) = e1 + e2 + e3
    <3>1. mid * (w * p) = (a * c) * p - (l * x) * p
      <4>1. mid * (w * p) = (mid * w) * p
        BY <1>1
      <4> QED
        BY <1>2, <4>1
    <3> DEFINE f1 == (a * c) * p
               f2 == n * (w * p)
               f3 == a * n
               f4 == mid * (w * p)
    <3>2. e1 = f3 - f1 /\ e3 = f2 - f3 /\ f4 = f1 - e2
      BY <3>1
    <3>3. f1 \in Int /\ f2 \in Int /\ f3 \in Int /\ e2 \in Int
      OBVIOUS
    <3> HIDE DEF e1, e2, e3, f1, f2, f3, f4
    <3>4. f2 - f4 = e1 + e2 + e3
      BY <3>2, <3>3
    <3> QED
      BY <3>4 DEF f2, f4
  <2>2. e1 >= 0 /\ e1 \in Int
    <3> DEFINE z == n - c * p
    <3>1. z \in Int /\ z >= 0
      OBVIOUS
    <3> HIDE DEF z
    <3>2. a * z >= 0 /\ a * z \in Int
      BY <3>1
    <3> QED
      BY <3>2 DEF z
  <2>3. e2 >= 0 /\ e2 \in Int
    <3>1. l * x \in Nat
      OBVIOUS
    <3> DEFINE z == l * x
    <3> HIDE DEF z
    <3>2. z * p >= 0 /\ z * p \in Int
      BY <3>1 DEF z
    <3> QED
      BY <3>2 DEF z
  <2>4. e3 > 0 /\ e3 \in Int
    <3>1. p * (w - p) >= 0 /\ p * (w - p) = w * p - p * p
      OBVIOUS
    <3>2. w * p - a > 0 /\ w * p - a \in Int
      BY <3>1
    <3> DEFINE z == w * p - a
    <3>3. n \in Nat \ {0}
      OBVIOUS
    <3> HIDE DEF n, z
    <3>4. n * z > 0 /\ n * z \in Int
      BY <3>2, <3>3 DEF z
    <3> QED
      BY <3>4 DEF z
  <2>5. (n - mid) * (w * p) = n * (w * p) - mid * (w * p)
    BY <1>1
  <2> DEFINE g == (n - mid) * (w * p)
  <2>6. g = e1 + e2 + e3
    BY <2>1, <2>5
  <2> HIDE DEF e1, e2, e3, g
  <2>7. g > 0
    BY <2>2, <2>3, <2>4, <2>6
  <2> QED
    BY <2>7 DEF g
<1>4. w * w - mid >= 1
  <2> DEFINE e == w * w - mid
             k == w * p
  <2>1. e \in Int /\ k \in Nat \ {0} /\ e * k > 0
    BY <1>1, <1>3
  <2> HIDE DEF e, k
  <2>2. e >= 1
    BY <2>1, Positive
  <2> QED
    BY <2>2 DEF e
<1>5. mid < w * w
  BY <1>1, <1>4
<1> QED
  BY <1>1, <1>5 DEF mid

(* lazy_reduce_opt: one shift and one product.                             *)
LEMMA LazyReduceOptExact ==
    ASSUME NEW p \in Nat, NewModulusOk(p), SupportsOpt(p), NEW a \in Word
    PROVE  /\ LazyReduceOpt(NewModulus(p), a) \in 0 .. 2 * p - 1
           /\ LazyReduceOpt(NewModulus(p), a) % p = a % p
<1> DEFINE u == Pow2[LeadingZeros[p]]
           D == Pow2[W - LeadingZeros[p]]
           q == a \div D
           t == a % D
           d == a - q * p
<1>1. LazyReduceOpt(NewModulus(p), a) = (a - q * p) % B
  BY DEF LazyReduceOpt, NewModulus
<1>2. p \in Nat \ {0} /\ p >= 2 /\ 4 * p < B /\ B \in Nat \ {0}
  BY ModulusSize, WordTypes
<1>3. /\ u \in Nat /\ u >= 2 /\ D \in Nat /\ u * D = B /\ p < D
      /\ u * u * (D - p) <= (u - 1) * D
  <2> HIDE DEF u, D
  <2> QED
    BY OptModulus DEF u, D
<1>4. a \in Nat /\ a < B
  BY <1>2 DEF Word
<1> HIDE DEF u, D
<1>5. q \in Int /\ t \in Int /\ 0 <= t /\ t < D /\ a = q * D + t
  <2>1. D \in Nat \ {0}
    BY <1>2, <1>3
  <2> QED
    BY <1>4, <2>1, Remainder
<1> HIDE DEF q, t
<1>6. q \in Nat /\ 0 <= d /\ d < 2 * p
  BY <1>2, <1>3, <1>4, <1>5, OptWordQuotient
<1>7. d \in Int /\ d < B /\ a = d + q * p
  <2>1. q * p \in Int
    BY <1>2, <1>5
  <2> QED
    BY <1>2, <1>4, <1>6, <2>1
<1> HIDE DEF d
<1>8. d % B = d
  BY <1>2, <1>6, <1>7, OwnRemainder
<1>9. a % p = d % p
  <2>1. Same(a, d, p)
    BY <1>4, <1>5, <1>7 DEF Same
  <2> QED
    BY <1>2, <2>1, SameEqual
<1> QED
  BY <1>1, <1>2, <1>6, <1>7, <1>8, <1>9 DEF d

(* lazy_reduce_opt_u128, for the products of two residues.                 *)
LEMMA LazyReduceOptU128Exact ==
    ASSUME NEW p \in Nat, NewModulusOk(p), SupportsOpt(p), NEW a \in Nat, a < p * p
    PROVE  /\ LazyReduceOptU128(NewModulus(p), a) \in 0 .. 2 * p - 1
           /\ LazyReduceOptU128(NewModulus(p), a) % p = a % p
<1> DEFINE u == Pow2[LeadingZeros[p]]
           D == Pow2[W - LeadingZeros[p]]
           m == NewModulus(p)
           c == (B * B) \div p
           h == m.hi
           l == m.lo
           x == a % B
           y == a \div B
           mid == l * y + a * u
           q == mid \div B
           d == a - q * p
<1>1. LazyReduceOptU128(m, a) = (a - ((mid % (B * B)) \div B) * p) % B
  BY DEF LazyReduceOptU128, NewModulus
<1>2. p \in Nat \ {0} /\ p >= 2 /\ 4 * p < B /\ B \in Nat \ {0} /\ B * B \in Nat \ {0}
  BY ModulusSize, WordTypes
<1>3. /\ u \in Nat /\ u >= 2 /\ D \in Nat /\ u * D = B /\ p < D
      /\ u * u * (D - p) <= (u - 1) * D /\ B < (u + 1) * p
  <2> HIDE DEF u, D
  <2> QED
    BY OptModulus DEF u, D
<1>4. /\ h \in Nat /\ l \in Nat /\ c \in Nat
      /\ c = h * B + l /\ l < B /\ h + l < B
      /\ c * p <= B * B /\ B * B < (c + 1) * p
  BY Reciprocal
<1> HIDE DEF u, D, m, c, h, l
<1>5. h = u /\ u * p < B
  <2>1. u * p < B
    <3>1. u * (D - p) > 0 /\ u * (D - p) = u * D - u * p
      BY <1>2, <1>3
    <3>2. u * D \in Int /\ u * p \in Int
      BY <1>2, <1>3
    <3> QED
      BY <1>3, <3>1, <3>2
  <2> QED
    BY <1>2, <1>3, <1>4, <2>1, OptQuotientWord
<1>6. u * u * (l * p) <= (u - 1) * (B * B)
  BY <1>2, <1>3, <1>4, <1>5, OptLowWord
<1>7. x \in Nat /\ y \in Nat /\ a = y * B + x /\ x < B
  <2>1. x \in Int /\ y \in Int /\ 0 <= x /\ x < B /\ a = y * B + x
    BY <1>2, Remainder
  <2> HIDE DEF x, y
  <2>2. (y + 1) * B > 0
    BY <1>2, <2>1
  <2>3. y + 1 >= 1
    BY <1>2, <2>1, <2>2, Positive
  <2> QED
    BY <2>1, <2>3
<1> HIDE DEF x, y
<1>8. mid \in Nat /\ mid < B * B
  BY <1>2, <1>3, <1>4, <1>5, <1>7, OptProductFits
<1> HIDE DEF mid
<1>9. mid % (B * B) = mid
  <2> DEFINE n == B * B
  <2> HIDE DEF n
  <2>1. mid % n = mid
    BY <1>2, <1>8, OwnRemainder DEF n
  <2> QED
    BY <2>1 DEF n
<1>10. q \in Nat /\ q * B <= mid /\ mid < (q + 1) * B
  <2> DEFINE r == mid % B
  <2>1. q \in Int /\ r \in Int /\ 0 <= r /\ r < B /\ mid = q * B + r
    BY <1>2, <1>8, Remainder
  <2> HIDE DEF q, r
  <2>2. (q + 1) * B = q * B + B /\ q * B \in Int
    BY <1>2, <2>1
  <2>3. (q + 1) * B > 0
    BY <1>2, <1>8, <2>1, <2>2
  <2>4. q + 1 >= 1
    BY <1>2, <2>1, <2>3, Positive
  <2>5. mid \in Int
    BY <1>8
  <2>6. q \in Nat
    BY <2>1, <2>4
  <2> QED
    BY <1>2, <2>1, <2>2, <2>5, <2>6
<1> HIDE DEF q
<1>11. 0 <= d /\ d < 2 * p
  <2>1. mid = l * y + a * u
    BY DEF mid
  <2>2. c = u * B + l
    BY <1>4, <1>5
  <2> QED
    BY <1>2, <1>3, <1>4, <1>5, <1>6, <1>7, <1>10, <2>1, <2>2, OptDoubleQuotient
<1>12. d \in Int /\ d < B /\ a = d + q * p
  <2>1. q * p \in Int
    BY <1>2, <1>10
  <2> QED
    BY <1>2, <1>11, <2>1
<1> HIDE DEF d
<1>13. d % B = d
  BY <1>2, <1>11, <1>12, OwnRemainder
<1>14. a % p = d % p
  <2>1. Same(a, d, p)
    BY <1>10, <1>12 DEF Same
  <2> QED
    BY <1>2, <2>1, SameEqual
<1>15. LazyReduceOptU128(m, a) = d
  BY <1>1, <1>9, <1>13 DEF d, q
<1> QED
  BY <1>2, <1>11, <1>12, <1>14, <1>15 DEF m

-----------------------------------------------------------------------------
(* The operations of Modulus.                                              *)

(* The product of two residues is at most the square of the largest.       *)
LEMMA ProductOfResidues ==
    ASSUME NEW p \in Nat \ {0}, NEW x \in 0 .. p - 1, NEW y \in 0 .. p - 1
    PROVE  x * y \in Nat /\ x * y <= (p - 1) * (p - 1)
<1>1. x * y >= 0 /\ x * y \in Int
  OBVIOUS
<1>2. (p - 1 - x) * (p - 1) >= 0 /\ x * (p - 1 - y) >= 0
  OBVIOUS
<1>3. (p - 1) * (p - 1) = x * y + (p - 1 - x) * (p - 1) + x * (p - 1 - y)
  OBVIOUS
<1> QED
  BY <1>1, <1>2, <1>3

(* A lazy residue of a: below 2 p, and congruent to it.                    *)
LazyOf(x, a, p) == x \in 0 .. 2 * p - 1 /\ x % p = a % p

(* A lazy residue subtracted from once is the remainder.                   *)
LEMMA ReducedLazy ==
    ASSUME NEW p \in Nat \ {0}, NEW a \in Int, NEW x, LazyOf(x, a, p)
    PROVE  Reduce1(x, p) = a % p /\ a % p \in 0 .. p - 1
<1>1. x \in Int /\ 0 <= x /\ x < 2 * p /\ x % p = a % p
  BY DEF LazyOf
<1> QED
  BY <1>1, ReducedOnce

(* lazy_reduce is the double word's reduction for a high word of 0.        *)
LEMMA LazyReduceExact ==
    ASSUME NEW p \in Nat, NewModulusOk(p), NEW a \in Word
    PROVE  LazyOf(LazyReduce(NewModulus(p), a), a, p)
<1> DEFINE m == NewModulus(p)
           h == m.hi
           l == m.lo
           g == a * h + ((a * l) \div B)
<1>1. p \in Nat \ {0} /\ B \in Nat \ {0} /\ B >= 16 /\ B * B \in Nat \ {0}
  BY ModulusSize, WordTypes
<1>2. m.p = p /\ h \in Nat /\ l \in Nat /\ h + l < B
  BY Reciprocal
<1>3. a \in Nat /\ a < B /\ a \in DoubleWord
  <2>1. a \in Nat /\ a < B
    BY <1>1 DEF Word
  <2>2. (B - 1) * B >= 0 /\ (B - 1) * B = B * B - B
    BY <1>1
  <2> QED
    BY <1>1, <2>1, <2>2 DEF DoubleWord
<1>4. LazyReduce(m, a) = (a - (g \div B) * m.p) % B
  BY DEF LazyReduce
<1>5. LazyReduceU128(m, a)
        = (a - ((((a % B) * h + (a \div B) * l + (((a % B) * l) \div B)) % (B * B)) \div B
                + (a \div B) * h) * m.p) % B
  BY DEF LazyReduceU128
<1> HIDE DEF m, h, l
<1>6. a % B = a
  BY <1>1, <1>3, OwnRemainder
<1>7. a \div B = 0
  <2>1. a = 0 * B + a
    BY <1>1, <1>3
  <2> QED
    BY <1>1, <1>3, <2>1, QuotientUnique
<1>8. 0 * l = 0 /\ 0 * h = 0 /\ 0 \in Nat /\ 0 < B
  BY <1>1, <1>2
<1>9. a * h + 0 * l + ((a * l) \div B) \in Nat /\ a * h + 0 * l + ((a * l) \div B) < B * B
  BY <1>1, <1>2, <1>3, <1>8, PartialProducts
<1>10. a * h + 0 * l + ((a * l) \div B) = g
  <2>1. a * h \in Int /\ (a * l) \div B \in Int /\ a * l \in Int
    BY <1>1, <1>2, <1>3, Remainder
  <2> DEFINE y == a * h
             z == (a * l) \div B
  <2> HIDE DEF y, z
  <2>2. y + 0 * l + z = y + z
    BY <1>8, <2>1 DEF y, z
  <2> QED
    BY <2>2 DEF y, z
<1>11. g % (B * B) = g
  <2> DEFINE n == B * B
  <2>1. n \in Nat \ {0} /\ g \in Int /\ 0 <= g /\ g < n
    BY <1>1, <1>9, <1>10
  <2> HIDE DEF n, g
  <2>2. g % n = g
    BY <2>1, OwnRemainder
  <2> QED
    BY <2>2 DEF n
<1>12. g \div B \in Int
  <2>1. g \in Int
    BY <1>9, <1>10
  <2> HIDE DEF g
  <2> QED
    BY <1>1, <2>1, Remainder
<1>13. LazyReduceU128(m, a) = LazyReduce(m, a)
  <2>1. LazyReduceU128(m, a)
          = (a - (((a * h + 0 * l + ((a * l) \div B)) % (B * B)) \div B + 0 * h) * m.p) % B
    BY <1>5, <1>6, <1>7
  <2>2. LazyReduceU128(m, a) = (a - ((g % (B * B)) \div B + 0) * m.p) % B
    BY <1>8, <1>10, <2>1
  <2> HIDE DEF g
  <2>3. (g \div B) + 0 = g \div B
    BY <1>12
  <2> QED
    BY <1>4, <1>11, <2>2, <2>3
<1> QED
  BY <1>3, <1>13, LazyReduceU128Exact DEF LazyOf, m

(* Every reduction, and its lazy form.                                     *)
THEOREM ReductionsExact ==
    ASSUME NEW p \in Nat, NewModulusOk(p), NEW m, m = NewModulus(p)
    PROVE  /\ \A a \in Word : /\ LazyOf(LazyReduceEntry(m, a), a, p)
                              /\ Reduce(m, a) = a % p
                              /\ m.opt => ReduceOpt(m, a) = a % p
           /\ \A a \in DoubleWord : /\ LazyOf(LazyReduceU128(m, a), a, p)
                                    /\ ReduceU128(m, a) = a % p
           /\ \A a \in Nat : m.opt /\ a < p * p =>
                    /\ LazyOf(LazyReduceOptU128(m, a), a, p)
                    /\ ReduceOptU128(m, a) = a % p
<1>1. m.p = p /\ m.opt = SupportsOpt(p) /\ p \in Nat \ {0} /\ B \in Nat \ {0} /\ B * B \in Nat
  BY ModulusSize, WordTypes DEF NewModulus
<1>2. ASSUME NEW a \in Word
      PROVE  /\ LazyOf(LazyReduceEntry(m, a), a, p)
             /\ Reduce(m, a) = a % p
             /\ m.opt => ReduceOpt(m, a) = a % p
  <2>1. a \in Int
    BY <1>1 DEF Word
  <2>2. LazyOf(LazyReduce(m, a), a, p)
    BY LazyReduceExact
  <2>3. m.opt => LazyOf(LazyReduceOpt(m, a), a, p)
    BY <1>1, LazyReduceOptExact DEF LazyOf
  <2>4. Reduce(m, a) = a % p
    BY <1>1, <2>1, <2>2, ReducedLazy DEF Reduce
  <2>5. m.opt => ReduceOpt(m, a) = a % p
    BY <1>1, <2>1, <2>3, ReducedLazy DEF ReduceOpt
  <2>6. LazyOf(LazyReduceEntry(m, a), a, p)
    BY <2>2, <2>3 DEF LazyReduceEntry
  <2> QED
    BY <2>4, <2>5, <2>6
<1>3. ASSUME NEW a \in DoubleWord
      PROVE  LazyOf(LazyReduceU128(m, a), a, p) /\ ReduceU128(m, a) = a % p
  BY <1>3, LazyReduceU128Exact, ReduceU128Exact DEF LazyOf
<1>4. ASSUME NEW a \in Nat, m.opt, a < p * p
      PROVE  LazyOf(LazyReduceOptU128(m, a), a, p) /\ ReduceOptU128(m, a) = a % p
  <2>1. LazyOf(LazyReduceOptU128(m, a), a, p)
    BY <1>1, <1>4, LazyReduceOptU128Exact DEF LazyOf
  <2> QED
    BY <1>1, <2>1, ReducedLazy DEF ReduceOptU128
<1> QED
  BY <1>2, <1>3, <1>4

(* A signed word with p * 2^W added is a double word of the same residue.  *)
LEMMA ReduceI64Exact ==
    ASSUME NEW p \in Nat, NewModulusOk(p), NEW a \in Int, -B <= a, a < B
    PROVE  ReduceI64(NewModulus(p), a) = a % p
<1> DEFINE m == NewModulus(p)
           x == m.p * B + a
<1>1. m.p = p /\ p \in Nat \ {0} /\ p >= 2 /\ 4 * p < B /\ B \in Nat \ {0} /\ B * B \in Nat
  BY ModulusSize, WordTypes DEF NewModulus
<1> HIDE DEF m
<1>2. x \in DoubleWord /\ Same(x, a, p)
  <2>1. (p - 1) * B >= 0 /\ (p - 1) * B = p * B - B
    BY <1>1
  <2>2. (B - p - 1) * B >= 0 /\ (B - p - 1) * B = B * B - p * B - B
    BY <1>1
  <2>3. p * B \in Int /\ x = p * B + a
    BY <1>1
  <2>4. x \in Nat /\ x < B * B
    BY <1>1, <2>1, <2>2, <2>3
  <2>5. x = a + B * p /\ B \in Int
    BY <1>1, <2>3
  <2>6. x \in Int
    BY <2>4
  <2>7. x \in DoubleWord
    BY <1>1, <2>4 DEF DoubleWord
  <2> HIDE DEF x
  <2> QED
    BY <2>5, <2>6, <2>7 DEF Same
<1>3. ReduceI64(m, a) = ReduceU128(m, x)
  BY DEF ReduceI64
<1> HIDE DEF x
<1>4. ReduceU128(m, x) = x % p
  BY <1>2, ReduceU128Exact DEF m
<1> QED
  BY <1>1, <1>2, <1>3, <1>4, SameEqual DEF m

(* Sums, differences and negatives of residues.                            *)
LEMMA SumsExact ==
    ASSUME NEW p \in Nat \ {0}, NEW m, m.p = p, NEW x \in 0 .. p - 1, NEW b \in 0 .. p - 1
    PROVE  /\ Add(m, x, b) = (x + b) % p
           /\ Sub(m, x, b) = (x - b) % p
           /\ Neg(m, x) = (-x) % p
<1>1. Add(m, x, b) = (x + b) % p
  BY ReducedOnce DEF Add
<1>2. ASSUME NEW y \in Int, NEW z \in Int, y = z + p, 0 <= y, y < 2 * p
      PROVE  Reduce1(y, p) = z % p
  <2>1. Same(y, z, p)
    <3>1. y = z + 1 * p /\ 1 \in Int
      BY <1>2
    <3> QED
      BY <1>2, <3>1 DEF Same
  <2> QED
    BY <1>2, <2>1, ReducedOnce, SameEqual
<1>3. Sub(m, x, b) = (x - b) % p
  <2>1. x + p - b \in Int /\ x - b \in Int /\ x + p - b = (x - b) + p
        /\ 0 <= x + p - b /\ x + p - b < 2 * p
    OBVIOUS
  <2> QED
    BY <1>2, <2>1 DEF Sub
<1>4. Neg(m, x) = (-x) % p
  <2>1. p - x \in Int /\ -x \in Int /\ p - x = (-x) + p /\ 0 <= p - x /\ p - x < 2 * p
    OBVIOUS
  <2> QED
    BY <1>2, <2>1 DEF Neg
<1> QED
  BY <1>1, <1>3, <1>4

(* Products of residues, by either reduction.                              *)
LEMMA ProductExact ==
    ASSUME NEW p \in Nat, NewModulusOk(p), NEW m, m = NewModulus(p),
           NEW x \in 0 .. p - 1, NEW b \in 0 .. p - 1
    PROVE  Mul(m, x, b) = (x * b) % p /\ MulEntry(m, x, b) = (x * b) % p
<1>1. p \in Nat \ {0} /\ 4 * p < B /\ B \in Nat \ {0} /\ B * B \in Nat
  BY ModulusSize, WordTypes
<1> DEFINE a == x * b
<1>2. a \in Nat /\ a <= (p - 1) * (p - 1)
  BY <1>1, ProductOfResidues
<1>3. a < p * p /\ a \in DoubleWord
  <2>1. (p - 1) * (p - 1) = p * p - 2 * p + 1 /\ p * p \in Int
    BY <1>1
  <2>2. (B - p) * (B + p) >= 0 /\ (B - p) * (B + p) = B * B - p * p
    BY <1>1
  <2> HIDE DEF a
  <2>3. a < p * p
    BY <1>1, <1>2, <2>1
  <2> QED
    BY <1>1, <1>2, <2>1, <2>2, <2>3 DEF DoubleWord
<1> HIDE DEF a
<1>4. ReduceU128(m, a) = a % p /\ (m.opt => ReduceOptU128(m, a) = a % p)
  BY <1>2, <1>3, ReductionsExact
<1> QED
  BY <1>4 DEF a, Mul, MulOpt, MulEntry

-----------------------------------------------------------------------------
(* Powers and inverses. *)

(* n shifted right by i + 1 bits is half of n shifted by i bits, and the   *)
(* highest bit is 1.                                                       *)
LEMMA WordShifts ==
    ASSUME NEW n \in Word, n # 0, NEW top, top = W - 1 - LeadingZeros[n]
    PROVE  /\ top \in 0 .. W - 1 /\ n \div Pow2[0] = n /\ n \div Pow2[top] = 1
           /\ \A i \in 0 .. W : n \div Pow2[i] \in Nat
           /\ \A i \in 0 .. W - 1 : n \div Pow2[i]
                    = 2 * (n \div Pow2[i + 1]) + ((n \div Pow2[i]) % 2)
<1> DEFINE z == LeadingZeros[n]
<1>1. W \in Nat /\ W >= 4 /\ n \in Nat \ {0}
  BY WordsAssumption, WordTypes DEF Word
<1>2. z \in 0 .. W /\ n < Pow2[W - z] /\ (z = W \/ Pow2[W - z - 1] <= n)
  BY BitsOfWord
<1>3. z # W
  <2>1. CASE z = W
    <3>1. W - z = 0
      BY <1>1, <2>1
    <3>2. n < 1
      BY <1>2, <3>1, PowersDouble
    <3> QED
      BY <1>1, <3>2
  <2> QED
    BY <2>1
<1> HIDE DEF z
<1>4. top \in 0 .. W - 1 /\ Pow2[top] <= n /\ n < 2 * Pow2[top]
  <2>1. top \in 0 .. W - 1 /\ W - z - 1 = top /\ W - z = top + 1 /\ top \in 0 .. 4 * W - 1
    BY <1>1, <1>2, <1>3 DEF z
  <2>2. Pow2[top + 1] = 2 * Pow2[top]
    BY <2>1, PowersDouble
  <2> QED
    BY <1>2, <1>3, <2>1, <2>2
<1>5. ASSUME NEW i \in 0 .. W
      PROVE  /\ Pow2[i] \in Nat \ {0} /\ n \div Pow2[i] \in Nat /\ n % Pow2[i] \in Nat
             /\ n % Pow2[i] < Pow2[i] /\ n = (n \div Pow2[i]) * Pow2[i] + (n % Pow2[i])
  <2> DEFINE d == Pow2[i]
  <2>1. d \in Nat \ {0}
    BY <1>1, PowerTypes
  <2> HIDE DEF d
  <2> DEFINE e == n \div d
             r == n % d
  <2>2. e \in Int /\ r \in Int /\ 0 <= r /\ r < d /\ n = e * d + r
    BY <1>1, <2>1, Remainder
  <2> HIDE DEF e, r
  <2>3. (e + 1) * d > 0
    BY <1>1, <2>1, <2>2
  <2>4. e + 1 >= 1
    BY <2>1, <2>2, <2>3, Positive
  <2> QED
    BY <2>1, <2>2, <2>4 DEF d, e, r
<1>6. n \div Pow2[0] = n
  <2>1. Pow2[0] = 1
    BY PowersDouble
  <2> QED
    BY <1>1, <2>1
<1>7. n \div Pow2[top] = 1
  <2> DEFINE d == Pow2[top]
             r == n - d
  <2>1. d \in Nat \ {0}
    BY <1>1, <1>4, <1>5
  <2>2. r \in Int /\ n = 1 * d + r /\ 0 <= r /\ r < d
    BY <1>1, <1>4, <2>1
  <2> HIDE DEF d, r
  <2>3. n \div d = 1
    BY <1>1, <2>1, <2>2, QuotientUnique
  <2> QED
    BY <2>3 DEF d
<1>8. ASSUME NEW i \in 0 .. W - 1
      PROVE  n \div Pow2[i] = 2 * (n \div Pow2[i + 1]) + ((n \div Pow2[i]) % 2)
  <2> DEFINE d == Pow2[i]
             e == n \div d
             r == n % d
             k == e \div 2
             b == e % 2
  <2>1. d \in Nat \ {0} /\ e \in Nat /\ r \in Nat /\ r < d /\ n = e * d + r
    BY <1>1, <1>5
  <2>2. Pow2[i + 1] = 2 * d
    BY <1>1, PowersDouble
  <2> HIDE DEF d, r, e
  <2>3. k \in Int /\ b \in Int /\ 0 <= b /\ b < 2 /\ e = k * 2 + b
    BY <2>1
  <2> HIDE DEF k, b
  <2> DEFINE s == b * d + r
             c == 2 * d
  <2>4. 0 <= b * d /\ b * d <= d /\ b * d \in Int
    <3>1. b = 0 \/ b = 1
      BY <2>3
    <3>2. 0 * d = 0 /\ 1 * d = d
      BY <2>1
    <3> QED
      BY <2>1, <3>1, <3>2
  <2>5. s \in Int /\ 0 <= s /\ s < c /\ c \in Nat \ {0}
    BY <2>1, <2>4
  <2>6. n = k * c + s
    BY <2>1, <2>3
  <2> HIDE DEF s, c
  <2>7. n \div c = k
    BY <1>1, <2>3, <2>5, <2>6, QuotientUnique
  <2>8. n \div Pow2[i + 1] = k
    BY <2>2, <2>7 DEF c
  <2>9. e = 2 * k + b
    BY <2>1, <2>3
  <2> QED
    BY <2>8, <2>9 DEF e, d, b
<1> QED
  BY <1>4, <1>5, <1>6, <1>7, <1>8

(* One step of square and multiply. *)
SquareMultiply(m, a, n, f, i) ==
    LET s == Mul(m, f[i + 1], f[i + 1])
    IN  IF (n \div Pow2[i]) % 2 = 1 THEN Mul(m, s, a) ELSE s

Squares(m, a, n, top, f) ==
    f = [i \in 0 .. W |-> IF i >= top THEN a ELSE SquareMultiply(m, a, n, f, i)]

(* Square and multiply makes the powers of a.                              *)
LEMMA SquaresExact ==
    ASSUME NEW p \in Nat, NewModulusOk(p), NEW m, m = NewModulus(p), NEW a \in 0 .. p - 1,
           NEW n \in Word, n # 0, NEW top, top = W - 1 - LeadingZeros[n],
           NEW g, PowersOf(g, a)
    PROVE  \E f : /\ Squares(m, a, n, top, f)
                  /\ \A i \in 0 .. W : i <= top => f[i] = g[n \div Pow2[i]] % p
<1> DEFINE e(i) == n \div Pow2[i]
           f == [i \in 0 .. W |-> IF i >= top THEN a ELSE g[e(i)] % p]
<1>1. /\ top \in 0 .. W - 1 /\ e(top) = 1 /\ W \in Nat
      /\ \A i \in 0 .. W : e(i) \in Nat
      /\ \A i \in 0 .. W - 1 : e(i) = 2 * e(i + 1) + (e(i) % 2)
  BY WordShifts, WordsAssumption
<1>2. p \in Nat \ {0} /\ a \in Int /\ a % p = a
  BY ModulusSize, OwnRemainder
<1>3. g[1] = a
  <2>1. g[0 + 1] = a * g[0] /\ g[0] = 1 /\ 0 \in Nat
    BY DEF PowersOf
  <2> QED
    BY <1>2, <2>1
<1> HIDE DEF e
<1>4. ASSUME NEW i \in 0 .. W PROVE g[e(i)] \in Int /\ g[e(i)] % p \in 0 .. p - 1
  <2>1. g[e(i)] \in Int
    BY <1>1 DEF PowersOf
  <2> QED
    BY <1>2, <2>1, Remainder
<1>5. ASSUME NEW i \in 0 .. W, i <= top PROVE f[i] = g[e(i)] % p
  <2>1. CASE i = top
    BY <1>1, <1>2, <1>3, <2>1
  <2>2. CASE i # top
    BY <1>1, <1>5, <2>2
  <2> QED
    BY <2>1, <2>2
<1>6. ASSUME NEW i \in 0 .. W, ~(i >= top) PROVE f[i] = SquareMultiply(m, a, n, f, i)
  <2>1. i \in 0 .. W - 1 /\ i + 1 \in 0 .. W /\ i + 1 <= top /\ i <= top
    BY <1>1, <1>6
  <2> DEFINE k == e(i + 1)
             x == g[k]
             s == Mul(m, f[i + 1], f[i + 1])
  <2>2. f[i + 1] = x % p /\ x \in Int /\ x % p \in 0 .. p - 1 /\ k \in Nat
    BY <1>1, <1>4, <1>5, <2>1
  <2> HIDE DEF k
  <2>3. g[k + k] = x * x
    BY <1>2, <2>2, PowersAdd
  <2> HIDE DEF f, x
  <2>4. s = (x * x) % p
    <3>1. s = ((x % p) * (x % p)) % p
      BY <2>2, ProductExact
    <3>2. Same(x % p, x, p)
      BY <1>2, <2>2, SameMod
    <3>3. Same((x % p) * (x % p), x * x, p)
      BY <1>2, <3>2, SameTimes
    <3> QED
      BY <1>2, <3>1, <3>3, SameEqual
  <2>5. x * x \in Int /\ (x * x) % p \in 0 .. p - 1
    <3> DEFINE y == x * x
    <3>1. y \in Int
      BY <2>2
    <3> HIDE DEF y
    <3>2. y % p \in 0 .. p - 1
      BY <1>2, <3>1, Remainder
    <3> QED
      BY <3>1, <3>2 DEF y
  <2>6. CASE e(i) % 2 = 1
    <3>1. e(i) = (k + k) + 1 /\ k + k \in Nat
      BY <1>1, <2>1, <2>2, <2>6 DEF k
    <3>2. g[e(i)] = a * (x * x)
      BY <2>3, <3>1 DEF PowersOf
    <3> DEFINE y == x * x
    <3> HIDE DEF y, s
    <3>3. y \in Int /\ s = y % p /\ s \in 0 .. p - 1 /\ g[e(i)] = a * y
      BY <2>4, <2>5, <3>2 DEF y
    <3>4. Mul(m, s, a) = (s * a) % p
      BY <3>3, ProductExact
    <3>5. Same(s * a, y * a, p)
      <4>1. Same(s, y, p) /\ Same(a, a, p)
        BY <1>2, <3>3, SameMod, SameReflexive
      <4> QED
        BY <1>2, <4>1, SameTimes
    <3>6. y * a = a * y
      BY <1>2, <3>3
    <3>7. Mul(m, s, a) = g[e(i)] % p
      BY <1>2, <3>3, <3>4, <3>5, <3>6, SameEqual
    <3> QED
      BY <1>5, <2>1, <2>6, <3>7 DEF SquareMultiply, e, s
  <2>7. CASE e(i) % 2 # 1
    <3>1. e(i) = k + k
      <4>1. e(i) \in Nat
        BY <1>1
      <4>2. e(i) % 2 = 0
        BY <2>7, <4>1
      <4> QED
        BY <1>1, <2>1, <2>2, <4>2 DEF k
    <3>2. s = g[e(i)] % p
      BY <2>3, <2>4, <3>1
    <3> QED
      BY <1>5, <2>1, <2>7, <3>2 DEF SquareMultiply, e, s
  <2> QED
    BY <2>6, <2>7
<1>7. Squares(m, a, n, top, f)
  <2>1. ASSUME NEW i \in 0 .. W
        PROVE  f[i] = IF i >= top THEN a ELSE SquareMultiply(m, a, n, f, i)
    <3>1. CASE i >= top
      BY <3>1
    <3>2. CASE ~(i >= top)
      <4>1. f[i] = SquareMultiply(m, a, n, f, i)
        BY <1>6, <3>2
      <4> HIDE DEF f
      <4> QED
        BY <3>2, <4>1
    <3> QED
      BY <3>1, <3>2
  <2>2. f = [i \in 0 .. W |-> f[i]]
    OBVIOUS
  <2> HIDE DEF f
  <2>3. f = [i \in 0 .. W |-> IF i >= top THEN a ELSE SquareMultiply(m, a, n, f, i)]
    BY <2>1, <2>2
  <2> QED
    BY <2>3 DEF Squares
<1> HIDE DEF f
<1> QED
  BY <1>5, <1>7 DEF e

(* The definition by recursion has one solution up to the highest bit.     *)
LEMMA SquaresAgree ==
    ASSUME NEW m, NEW a, NEW n, NEW top, top \in 0 .. W - 1,
           NEW f, Squares(m, a, n, top, f), NEW h, Squares(m, a, n, top, h)
    PROVE  f[0] = h[0]
<1> DEFINE S == {k \in 0 .. W : f[W - k] = h[W - k]}
<1>1. W \in Nat
  BY WordsAssumption
<1>2. ASSUME NEW i \in 0 .. W
      PROVE  /\ f[i] = IF i >= top THEN a ELSE SquareMultiply(m, a, n, f, i)
             /\ h[i] = IF i >= top THEN a ELSE SquareMultiply(m, a, n, h, i)
  BY DEF Squares
<1>3. 0 \in S
  <2>1. W - 0 = W /\ W \in 0 .. W /\ W >= top
    BY <1>1
  <2>2. f[W] = a /\ h[W] = a
    BY <1>2, <2>1
  <2> QED
    BY <1>1, <2>1, <2>2
<1>4. ASSUME NEW k \in 0 .. W - 1, k \in S PROVE k + 1 \in S
  <2> DEFINE i == W - (k + 1)
  <2>1. i \in 0 .. W /\ i + 1 = W - k /\ k + 1 \in 0 .. W
    BY <1>1
  <2>2. f[i + 1] = h[i + 1]
    BY <1>4, <2>1
  <2> HIDE DEF i
  <2>3. SquareMultiply(m, a, n, f, i) = SquareMultiply(m, a, n, h, i)
    BY <2>2 DEF SquareMultiply
  <2>4. f[i] = h[i]
    BY <1>2, <2>1, <2>3
  <2> QED
    BY <2>1, <2>4 DEF i
<1> HIDE DEF S
<1>5. \A k \in 0 .. W : k \in S
  BY <1>1, <1>3, <1>4, InductionUpTo
<1>6. W \in S /\ W - W = 0
  BY <1>1, <1>5
<1> QED
  BY <1>6 DEF S

(* Modulus::pow is repeated multiplication.                                *)
LEMMA PowerExact ==
    ASSUME NEW p \in Nat, NewModulusOk(p), NEW m, m = NewModulus(p), NEW a \in 0 .. p - 1,
           NEW n \in Word, NEW g, PowersOf(g, a)
    PROVE  Power(m, a, n) = g[n] % p
<1> DEFINE top == W - 1 - LeadingZeros[n]
           w == CHOOSE r : Squares(m, a, n, top, r)
<1>1. Power(m, a, n) = IF n = 0 THEN 1 ELSE w[0]
  BY DEF Power, Squares, SquareMultiply
<1>2. CASE n = 0
  <2>1. p \in Nat \ {0} /\ p >= 2
    BY ModulusSize
  <2>2. 1 % p = 1
    BY <2>1
  <2>3. g[0] = 1
    BY DEF PowersOf
  <2> QED
    BY <1>1, <1>2, <2>2, <2>3
<1>3. CASE n # 0
  <2>1. top \in 0 .. W - 1 /\ n \div Pow2[0] = n
    BY <1>3, WordShifts
  <2>2. PICK f : /\ Squares(m, a, n, top, f)
                 /\ \A i \in 0 .. W : i <= top => f[i] = g[n \div Pow2[i]] % p
    <3> HIDE DEF top
    <3> QED
      BY <1>3, SquaresExact DEF top
  <2> HIDE DEF top
  <2>3. Squares(m, a, n, top, w)
    BY <2>2
  <2> HIDE DEF w
  <2>4. w[0] = f[0]
    BY <2>1, <2>2, <2>3, SquaresAgree
  <2>5. 0 \in 0 .. W /\ 0 <= top
    BY <2>1, WordsAssumption
  <2>6. f[0] = g[n] % p
    BY <2>1, <2>2, <2>5
  <2> QED
    BY <1>1, <1>3, <2>4, <2>6
<1> QED
  BY <1>2, <1>3

(* Modulus::inv is the inverse, by Fermat's theorem: no other residue is.  *)
LEMMA InverseExact ==
    ASSUME NEW p \in Nat, NewModulusOk(p), NEW m, m = NewModulus(p),
           NEW a \in 0 .. p - 1, InverseOk(m, a)
    PROVE  /\ InverseOf(m, a) \in 0 .. p - 1
           /\ (InverseOf(m, a) * a) % p = 1
           /\ InverseOf(m, a) = CHOOSE y \in 0 .. p - 1 : (y * a) % p = 1
<1>1. p \in Nat \ {0} /\ p >= 2 /\ 4 * p < B /\ p \in Word /\ m.p = p
  BY ModulusSize DEF NewModulus
<1>2. a \in 1 .. p - 1 /\ NoDivisor(p)
  <2>1. PrimeTable[p] /\ a # 0
    BY <1>1 DEF InverseOk, IsPrime
  <2>2. p >= 2 /\ \A d \in 2 .. p - 1 : d * d > p \/ p % d # 0
    BY <1>1, <2>1 DEF PrimeTable
  <2> QED
    BY <1>1, <2>1, <2>2 DEF NoDivisor
<1>3. PICK g : PowersOf(g, a)
  <2>1. a \in Int
    BY <1>1
  <2> QED
    BY <2>1, PowersExist
<1> DEFINE n == p - 2
           x == InverseOf(m, a)
<1>4. n \in Nat /\ n \in Word /\ n + 1 = p - 1
  BY <1>1, WordTypes DEF Word
<1>5. x = g[n] % p
  BY <1>1, <1>3, <1>4, PowerExact DEF InverseOf
<1>6. g[n] \in Int /\ g[n + 1] = a * g[n]
  BY <1>3, <1>4 DEF PowersOf
<1> HIDE DEF x, n
<1>7. x \in 0 .. p - 1
  BY <1>1, <1>5, <1>6, Remainder
<1>8. (x * a) % p = 1
  <2>1. (a * g[n]) % p = 1
    BY <1>2, <1>3, <1>4, <1>6, Fermat
  <2> DEFINE y == g[n]
  <2>2. y \in Int /\ x = y % p /\ a \in Int
    BY <1>5, <1>6
  <2> HIDE DEF y
  <2>3. Same(x, y, p) /\ Same(a, a, p) /\ y \in Int
    <3>1. Same(y % p, y, p)
      BY <1>1, <2>2, SameMod
    <3>2. Same(a, a, p)
      BY <1>1, <2>2, SameReflexive
    <3> QED
      BY <2>2, <3>1, <3>2
  <2>4. Same(x * a, y * a, p) /\ y * a = a * y
    BY <1>1, <2>3, SameTimes
  <2> QED
    BY <1>1, <2>1, <2>4, SameEqual DEF y
<1>9. ASSUME NEW y \in 0 .. p - 1, (y * a) % p = 1 PROVE y = x
  <2>1. Same(a * y, a * x, p)
    <3> DEFINE u == y * a
               v == x * a
    <3>1. u \in Int /\ v \in Int /\ u % p = v % p /\ a * y = u /\ a * x = v
      BY <1>1, <1>7, <1>8, <1>9
    <3> HIDE DEF u, v
    <3>2. Same(u, u % p, p) /\ Same(v % p, v, p)
      <4>1. p \in Nat \ {0} /\ p \in Int /\ u \in Int /\ v \in Int
        BY <1>1, <3>1
      <4>2. Same(u % p, u, p) /\ Same(v % p, v, p) /\ p \in Int
        BY <4>1, SameMod
      <4> QED
        BY <4>2, SameSymmetric
    <3>3. Same(u, v, p)
      BY <1>1, <3>1, <3>2, SameTransitive
    <3> QED
      BY <3>1, <3>3
  <2>2. y % p = y /\ x % p = x /\ a % p = a
    BY <1>1, <1>7, OwnRemainder
  <2>3. a % p # 0 /\ y \in Int /\ x \in Int /\ a \in Int
    BY <1>1, <1>2, <1>7, <2>2
  <2>4. y % p = x % p
    BY <1>2, <2>1, <2>3, Cancel, ZenonT(60)
  <2> QED
    BY <2>2, <2>4
<1>10. (CHOOSE y \in 0 .. p - 1 : (y * a) % p = 1) = x
  BY <1>7, <1>8, <1>9
<1> QED
  BY <1>7, <1>8, <1>10 DEF x

-----------------------------------------------------------------------------
(* Sums and products of sequences.                                         *)

(* s holds the sums of the first numbers of f.                             *)
PartialSums(s, f, n) == s[0] = 0 /\ \A k \in 1 .. n : s[k] = s[k - 1] + f[k]

LEMMA PartialSumsExist ==
    ASSUME NEW n \in Nat, NEW f, \A k \in 1 .. n : f[k] \in Int
    PROVE  \E s \in [0 .. n -> Int] : PartialSums(s, f, n)
<1> DEFINE step == [p \in (1 .. n) \X Int |-> p[2] + f[p[1]]]
<1>1. step \in [(1 .. n) \X Int -> Int]
  OBVIOUS
<1>5. \A k \in 1 .. n, x \in Int : step[<< k, x >>] = x + f[k]
  OBVIOUS
<1>6. 0 \in Int
  OBVIOUS
<1> HIDE DEF step
<1>2. PICK s \in [0 .. n -> Int] : Steps(s, n, 0, step)
  BY <1>1, <1>6, RecursionExists
<1>3. ASSUME NEW k \in 1 .. n PROVE s[k] = s[k - 1] + f[k]
  <2>1. s[k] = step[<< k, s[k - 1] >>]
    BY <1>2 DEF Steps
  <2>2. k - 1 \in 0 .. n
    OBVIOUS
  <2>3. s[k - 1] \in Int
    BY <2>2
  <2> QED
    BY <1>5, <2>1, <2>3
<1>4. s[0] = 0
  BY <1>2 DEF Steps
<1> QED
  BY <1>2, <1>3, <1>4 DEF PartialSums

LEMMA PartialSumsAgree ==
    ASSUME NEW n \in Nat, NEW f, NEW s, NEW r, PartialSums(s, f, n), PartialSums(r, f, n)
    PROVE  \A k \in 0 .. n : s[k] = r[k]
<1> DEFINE S == {k \in 0 .. n : s[k] = r[k]}
<1>1. 0 \in S
  BY DEF PartialSums
<1>2. ASSUME NEW k \in 0 .. n - 1, k \in S PROVE k + 1 \in S
  <2>1. k + 1 \in 1 .. n /\ (k + 1) - 1 = k
    OBVIOUS
  <2> QED
    BY <1>2, <2>1 DEF PartialSums
<1> QED
  BY <1>1, <1>2, InductionUpTo

LEMMA SumOfIsPartial ==
    ASSUME NEW n \in Nat, NEW f, \A k \in 1 .. n : f[k] \in Int,
           NEW s, PartialSums(s, f, n), NEW m \in 0 .. n
    PROVE  SumOf(f, m) = s[m]
<1> DEFINE E(h) == h = [k \in 0 .. m |-> IF k = 0 THEN 0 ELSE h[k - 1] + f[k]]
           w == CHOOSE h : E(h)
           h0 == [k \in 0 .. m |-> s[k]]
<1>1. SumOf(f, m) = w[m]
  BY DEF SumOf
<1>2. m \in Nat /\ 0 .. m \subseteq 0 .. n
  OBVIOUS
<1>3. E(h0)
  <2>1. ASSUME NEW k \in 0 .. m PROVE h0[k] = IF k = 0 THEN 0 ELSE h0[k - 1] + f[k]
    <3>1. CASE k = 0
      BY <3>1 DEF PartialSums
    <3>2. CASE k # 0
      <4>1. k - 1 \in 0 .. m /\ k \in 1 .. n
        BY <1>2, <3>2
      <4> QED
        BY <3>2, <4>1 DEF PartialSums
    <3> QED
      BY <3>1, <3>2
  <2> HIDE DEF h0
  <2>2. h0 = [k \in 0 .. m |-> h0[k]]
    BY DEF h0
  <2> QED
    BY <2>1, <2>2
<1> HIDE DEF h0
<1>4. E(w)
  BY <1>3
<1> HIDE DEF w
<1>5. ASSUME NEW h, E(h) PROVE PartialSums(h, f, m)
  <2>1. h[0] = 0 /\ \A k \in 1 .. m : h[k] = h[k - 1] + f[k]
    <3>1. \A k \in 0 .. m : h[k] = IF k = 0 THEN 0 ELSE h[k - 1] + f[k]
      BY <1>5
    <3>2. 0 \in 0 .. m /\ \A k \in 1 .. m : k \in 0 .. m /\ k # 0
      BY <1>2
    <3> QED
      BY <3>1, <3>2
  <2> QED
    BY <2>1 DEF PartialSums
<1>6. PartialSums(w, f, m) /\ PartialSums(s, f, m)
  <2>1. PartialSums(s, f, m)
    BY <1>2 DEF PartialSums
  <2> QED
    BY <1>4, <1>5, <2>1
<1>7. m \in 0 .. m
  BY <1>2
<1> QED
  BY <1>1, <1>2, <1>6, <1>7, PartialSumsAgree

LEMMA SumOfNothing == ASSUME NEW f PROVE SumOf(f, 0) = 0
<1>0. 0 \in Nat /\ 0 \in 0 .. 0 /\ \A k \in 1 .. 0 : f[k] \in Int
  OBVIOUS
<1>1. PICK s \in [0 .. 0 -> Int] : PartialSums(s, f, 0)
  BY <1>0, PartialSumsExist
<1>2. SumOf(f, 0) = s[0]
  BY <1>0, <1>1, SumOfIsPartial
<1> QED
  BY <1>1, <1>2 DEF PartialSums

LEMMA SumOfNext ==
    ASSUME NEW n \in Nat, NEW f, \A k \in 1 .. n + 1 : f[k] \in Int
    PROVE  SumOf(f, n) \in Int /\ SumOf(f, n + 1) = SumOf(f, n) + f[n + 1]
<1>1. PICK s \in [0 .. n + 1 -> Int] : PartialSums(s, f, n + 1)
  BY PartialSumsExist
<1>2. SumOf(f, n) = s[n] /\ SumOf(f, n + 1) = s[n + 1]
  BY <1>1, SumOfIsPartial
<1>3. n + 1 \in 1 .. n + 1 /\ (n + 1) - 1 = n /\ n \in 0 .. n + 1
  OBVIOUS
<1> QED
  BY <1>1, <1>2, <1>3 DEF PartialSums

LEMMA SumOfInt ==
    ASSUME NEW n \in Nat, NEW f, \A k \in 1 .. n : f[k] \in Int
    PROVE  SumOf(f, n) \in Int
<1>1. PICK s \in [0 .. n -> Int] : PartialSums(s, f, n)
  BY PartialSumsExist
<1>2. SumOf(f, n) = s[n]
  BY <1>1, SumOfIsPartial
<1> QED
  BY <1>1, <1>2

(* A sum along the indices is the sum over their set.                      *)
LEMMA SumOfIsSum ==
    ASSUME NEW n \in Nat, NEW f, \A k \in 1 .. n : f[k] \in Int
    PROVE  Terms(f, 1 .. n) /\ SumOf(f, n) = SumFunctionOnSet(f, 1 .. n)
<1> DEFINE S == {k \in 0 .. n : SumOf(f, k) = SumFunctionOnSet(f, 1 .. k)}
<1>1. ASSUME NEW k \in 0 .. n PROVE Terms(f, 1 .. k)
  <2>1. IsFiniteSet(1 .. k)
    BY FS_Interval
  <2> QED
    BY <2>1 DEF Terms
<1>2. 0 \in S
  <2>1. 1 .. 0 = {}
    OBVIOUS
  <2> QED
    BY <2>1, SumOfNothing, SumEmpty
<1>3. ASSUME NEW k \in 0 .. n - 1, k \in S PROVE k + 1 \in S
  <2>1. 1 .. k + 1 = (1 .. k) \cup {k + 1} /\ k + 1 \notin 1 .. k /\ k + 1 \in 0 .. n /\ k \in Nat
    OBVIOUS
  <2>2. Terms(f, (1 .. k) \cup {k + 1})
    BY <1>1, <2>1
  <2>3. SumFunctionOnSet(f, 1 .. k + 1) = f[k + 1] + SumFunctionOnSet(f, 1 .. k)
    BY <2>1, <2>2, SumAdd
  <2>4. \A i \in 1 .. k + 1 : f[i] \in Int
    OBVIOUS
  <2>5. SumOf(f, k) \in Int /\ SumOf(f, k + 1) = SumOf(f, k) + f[k + 1]
    BY <2>1, <2>4, SumOfNext
  <2>6. f[k + 1] \in Int
    BY <2>1
  <2> QED
    BY <1>3, <2>1, <2>3, <2>5, <2>6
<1> HIDE DEF S
<1>5. \A k \in 0 .. n : k \in S
  BY <1>2, <1>3, InductionUpTo
<1>4. n \in S /\ n \in 0 .. n
  BY <1>5
<1> QED
  BY <1>1, <1>4 DEF S

(* g holds the products of the first moduli of q. *)
RunningProducts(g, q) == g[0] = 1 /\ \A k \in 1 .. Len(q) : g[k] = q[k] * g[k - 1]

LEMMA RunningProductsExist ==
    ASSUME NEW q \in Seq(Nat \ {0})
    PROVE  \E g \in [0 .. Len(q) -> Nat \ {0}] : RunningProducts(g, q)
<1> DEFINE n == Len(q)
           step == [p \in (1 .. n) \X (Nat \ {0}) |-> q[p[1]] * p[2]]
<1>1. n \in Nat /\ \A k \in 1 .. n : q[k] \in Nat \ {0}
  OBVIOUS
<1>2. step \in [(1 .. n) \X (Nat \ {0}) -> Nat \ {0}]
  <2>1. \A x, y \in Nat \ {0} : x * y \in Nat \ {0}
    OBVIOUS
  <2> QED
    BY <1>1, <2>1
<1>3. \A k \in 1 .. n, x \in Nat \ {0} : step[<< k, x >>] = q[k] * x
  OBVIOUS
<1>4. 1 \in Nat \ {0}
  OBVIOUS
<1> HIDE DEF step, n
<1>5. PICK g \in [0 .. n -> Nat \ {0}] : Steps(g, n, 1, step)
  BY <1>1, <1>2, <1>4, RecursionExists
<1>6. ASSUME NEW k \in 1 .. n PROVE g[k] = q[k] * g[k - 1]
  <2>1. g[k] = step[<< k, g[k - 1] >>]
    BY <1>5 DEF Steps
  <2>2. k - 1 \in 0 .. n
    BY <1>1
  <2>3. g[k - 1] \in Nat \ {0}
    BY <2>2
  <2> QED
    BY <1>3, <2>1, <2>3
<1>7. g[0] = 1
  BY <1>5 DEF Steps
<1> QED
  BY <1>5, <1>6, <1>7 DEF RunningProducts, n

(* The product of a prefix of the moduli. *)
LEMMA ProductOfPrefix ==
    ASSUME NEW q \in Seq(Nat \ {0}), NEW g, RunningProducts(g, q),
           NEW p \in Seq(Nat \ {0}), Len(p) <= Len(q), \A k \in 1 .. Len(p) : p[k] = q[k]
    PROVE  ProductOf(p) = g[Len(p)]
<1> DEFINE m == Len(p)
           E(h) == h = [k \in 0 .. m |-> IF k = 0 THEN 1 ELSE p[k] * h[k - 1]]
           w == CHOOSE h : E(h)
           h0 == [k \in 0 .. m |-> g[k]]
<1>1. ProductOf(p) = w[m]
  BY DEF ProductOf
<1>2. m \in Nat /\ 1 .. m \subseteq 1 .. Len(q) /\ \A k \in 1 .. m : p[k] = q[k]
  OBVIOUS
<1> HIDE DEF m
<1>3. E(h0)
  <2>1. ASSUME NEW k \in 0 .. m PROVE h0[k] = IF k = 0 THEN 1 ELSE p[k] * h0[k - 1]
    <3>1. CASE k = 0
      BY <3>1 DEF RunningProducts
    <3>2. CASE k # 0
      <4>1. k - 1 \in 0 .. m /\ k \in 1 .. m /\ k \in 1 .. Len(q)
        BY <1>2, <3>2
      <4>2. g[k] = q[k] * g[k - 1] /\ p[k] = q[k]
        BY <1>2, <4>1 DEF RunningProducts
      <4> QED
        BY <3>2, <4>1, <4>2
    <3> QED
      BY <3>1, <3>2
  <2> HIDE DEF h0
  <2>2. h0 = [k \in 0 .. m |-> h0[k]]
    BY DEF h0
  <2> QED
    BY <2>1, <2>2
<1> HIDE DEF h0
<1>4. E(w)
  BY <1>3
<1> HIDE DEF w
<1> DEFINE S == {k \in 0 .. m : w[k] = g[k]}
<1>5. \A k \in 0 .. m : w[k] = IF k = 0 THEN 1 ELSE p[k] * w[k - 1]
  BY <1>4
<1>6. 0 \in S
  BY <1>2, <1>5 DEF RunningProducts
<1>7. ASSUME NEW k \in 0 .. m - 1, k \in S PROVE k + 1 \in S
  <2>1. k + 1 \in 0 .. m /\ k + 1 # 0 /\ (k + 1) - 1 = k /\ k + 1 \in 1 .. m /\ k + 1 \in 1 .. Len(q)
    BY <1>2
  <2>2. w[k + 1] = p[k + 1] * w[k]
    BY <1>5, <2>1
  <2>3. g[k + 1] = q[k + 1] * g[k] /\ p[k + 1] = q[k + 1]
    BY <1>2, <2>1 DEF RunningProducts
  <2> QED
    BY <1>7, <2>1, <2>2, <2>3
<1> HIDE DEF S
<1>8. \A k \in 0 .. m : k \in S
  BY <1>2, <1>6, <1>7, InductionUpTo
<1>9. m \in 0 .. m
  BY <1>2
<1> QED
  BY <1>1, <1>8, <1>9 DEF S, m

LEMMA ProductOfAll ==
    ASSUME NEW q \in Seq(Nat \ {0}), NEW g, RunningProducts(g, q)
    PROVE  ProductOf(q) = g[Len(q)]
  BY ProductOfPrefix

LEMMA ProductOfPositive == ASSUME NEW q \in Seq(Nat \ {0}) PROVE ProductOf(q) \in Nat \ {0}
<1>1. PICK g \in [0 .. Len(q) -> Nat \ {0}] : RunningProducts(g, q)
  BY RunningProductsExist
<1>2. ProductOf(q) = g[Len(q)] /\ Len(q) \in 0 .. Len(q)
  BY <1>1, ProductOfAll
<1> QED
  BY <1>1, <1>2

(* The product of all moduli but the last, and the last. *)
LEMMA ProductOfFront ==
    ASSUME NEW q \in Seq(Nat \ {0}), q # << >>
    PROVE  /\ SubSeq(q, 1, Len(q) - 1) \in Seq(Nat \ {0})
           /\ ProductOf(q) = q[Len(q)] * ProductOf(SubSeq(q, 1, Len(q) - 1))
<1> DEFINE p == SubSeq(q, 1, Len(q) - 1)
<1>1. Len(q) \in 1 .. Len(q) /\ Len(q) \in Nat
  OBVIOUS
<1>2. p \in Seq(Nat \ {0}) /\ Len(p) = Len(q) - 1 /\ \A k \in 1 .. Len(p) : p[k] = q[k]
  <2>1. \A k \in 1 .. Len(q) - 1 : q[k] \in Nat \ {0}
    BY <1>1
  <2>2. Len(q) - 1 \in Nat /\ Len(q) - 1 \in Int /\ 1 \in Int
    BY <1>1
  <2>3. /\ p \in Seq(Nat \ {0}) /\ Len(p) = IF 1 <= Len(q) - 1 THEN Len(q) - 1 - 1 + 1 ELSE 0
        /\ \A k \in 1 .. Len(q) - 1 - 1 + 1 : p[k] = q[1 + k - 1]
    BY <2>1, <2>2, SubSeqProperties
  <2> HIDE DEF p
  <2>4. Len(p) = Len(q) - 1
    <3>1. ASSUME NEW m \in Nat, m >= 1, NEW l, l = IF 1 <= m - 1 THEN m - 1 - 1 + 1 ELSE 0
          PROVE  l = m - 1
      BY <3>1
    <3>2. Len(q) \in Nat /\ Len(q) >= 1
      BY <1>1
    <3> QED
      BY <2>3, <3>1, <3>2
  <2>5. \A k \in 1 .. Len(q) - 1 : p[k] = q[k]
    <3>1. Len(q) - 1 - 1 + 1 = Len(q) - 1 /\ \A k \in 1 .. Len(q) - 1 : 1 + k - 1 = k
      BY <1>1
    <3> QED
      BY <2>3, <3>1
  <2> QED
    BY <2>3, <2>4, <2>5
<1> HIDE DEF p
<1>3. PICK g \in [0 .. Len(q) -> Nat \ {0}] : RunningProducts(g, q)
  BY RunningProductsExist
<1>4. ProductOf(q) = g[Len(q)] /\ ProductOf(p) = g[Len(q) - 1]
  <2>1. ProductOf(q) = g[Len(q)]
    BY <1>3, ProductOfAll
  <2>2. Len(p) <= Len(q)
    BY <1>1, <1>2
  <2>3. ProductOf(p) = g[Len(p)]
    BY <1>2, <1>3, <2>2, ProductOfPrefix
  <2> QED
    BY <1>2, <2>1, <2>3
<1>5. g[Len(q)] = q[Len(q)] * g[Len(q) - 1]
  BY <1>1, <1>3 DEF RunningProducts
<1> QED
  BY <1>2, <1>4, <1>5 DEF p

-----------------------------------------------------------------------------
(* Coprime moduli.                                                         *)

LEMMA IsSame ==
    ASSUME NEW x \in Int, NEW y \in Int, NEW k \in Int, NEW q \in Int, x = y + k * q
    PROVE  Same(x, y, q)
  BY DEF Same

(* b has an inverse modulo a. *)
Unit(b, a) == b \in Int /\ \E u \in Int : Same(u * b, 1, a)

LEMMA IsUnit ==
    ASSUME NEW b \in Int, NEW a, NEW u \in Int, Same(u * b, 1, a)
    PROVE  Unit(b, a)
  BY DEF Unit

LEMMA Bezout ==
    ASSUME NEW a \in Nat \ {0}, NEW b \in Nat, Coprime(a, b)
    PROVE  Unit(b, a)
<1> DEFINE S == {d \in Nat \ {0} : \E x, y \in Int : d = x * a + y * b}
<1>1. a \in S
  <2>1. a = 1 * a + 0 * b
    OBVIOUS
  <2> QED
    BY <2>1
<1>2. S \in SUBSET Nat /\ S # {}
  BY <1>1
<1>3. PICK d \in S : \A m \in S : d <= m
  <2> HIDE DEF S
  <2> QED
    BY <1>2, LeastElement
<1>4. PICK x \in Int, y \in Int : d = x * a + y * b
  BY <1>3
<1>5. d \in Nat \ {0} /\ d <= a
  BY <1>1, <1>3
<1>6. ASSUME NEW c \in Int, NEW k \in Int, NEW l \in Int, c = k * a + l * b
      PROVE  c % d = 0
  <2> DEFINE r == c % d
             f == c \div d
  <2>1. r \in Int /\ f \in Int /\ 0 <= r /\ r < d /\ c = f * d + r
    BY <1>5, Remainder
  <2> HIDE DEF r, f
  <2>2. f * d = (f * x) * a + (f * y) * b
    BY <1>4, <2>1
  <2>3. r = (k - f * x) * a + (l - f * y) * b
    <3>1. r = c - f * d
      BY <1>5, <2>1
    <3>2. (k - f * x) * a = k * a - (f * x) * a /\ (l - f * y) * b = l * b - (f * y) * b
      BY <2>1
    <3> QED
      BY <1>6, <2>1, <2>2, <3>1, <3>2
  <2>4. k - f * x \in Int /\ l - f * y \in Int
    BY <2>1
  <2>5. CASE r # 0
    <3>1. r \in Nat \ {0}
      BY <2>1, <2>5
    <3>2. r \in S
      BY <2>3, <2>4, <3>1
    <3>3. d <= r
      BY <1>3, <3>2
    <3> QED
      BY <1>5, <2>1, <3>3
  <2> QED
    BY <2>5 DEF r
<1>7. a % d = 0 /\ b % d = 0
  <2>1. a = 1 * a + 0 * b /\ b = 0 * a + 1 * b
    OBVIOUS
  <2>2. a \in Int /\ b \in Int /\ 1 \in Int /\ 0 \in Int
    OBVIOUS
  <2> HIDE DEF S
  <2>3. a % d = 0
    BY <1>6, <2>1, <2>2
  <2>4. b % d = 0
    BY <1>6, <2>1, <2>2
  <2> QED
    BY <2>3, <2>4
<1>8. d = 1
  <2>1. d \notin 2 .. a
    BY <1>7 DEF Coprime
  <2> QED
    BY <1>5, <2>1
<1>9. Same(y * b, 1, a)
  <2>1. /\ y * b = 1 + (-x) * a /\ y * b \in Int /\ -x \in Int
        /\ a \in Int /\ 1 \in Int
    BY <1>4, <1>8
  <2> QED
    BY <2>1, IsSame
<1>10. b \in Int /\ y \in Int
  OBVIOUS
<1> QED
  BY <1>9, <1>10, IsUnit

LEMMA UnitTimes ==
    ASSUME NEW a \in Int, NEW b, NEW c, Unit(b, a), Unit(c, a)
    PROVE  Unit(b * c, a)
<1>1. PICK u \in Int : Same(u * b, 1, a)
  BY DEF Unit
<1>2. PICK v \in Int : Same(v * c, 1, a)
  BY DEF Unit
<1>3. b \in Int /\ c \in Int
  BY DEF Unit
<1>4. Same((u * b) * (v * c), 1 * 1, a)
  BY <1>1, <1>2, SameTimes
<1>5. (u * b) * (v * c) = (u * v) * (b * c) /\ 1 * 1 = 1 /\ u * v \in Int /\ b * c \in Int
  BY <1>3
<1>6. Same((u * v) * (b * c), 1, a)
  BY <1>4, <1>5
<1> QED
  BY <1>5, <1>6, IsUnit

LEMMA UnitOne == ASSUME NEW a \in Int PROVE Unit(1, a)
<1>1. Same(1 * 1, 1, a)
  BY SameReflexive
<1> QED
  BY <1>1 DEF Unit

(* What a unit times a number leaves no rest, the number leaves none. *)
LEMMA UnitCancels ==
    ASSUME NEW a \in Int, NEW b, Unit(b, a), NEW x \in Int, Same(b * x, 0, a)
    PROVE  Same(x, 0, a)
<1>1. PICK u \in Int : Same(u * b, 1, a)
  BY DEF Unit
<1>2. b \in Int
  BY DEF Unit
<1>3. Same(x * (u * b), x * 1, a)
  BY <1>1, SameScaled
<1>4. Same(u * (b * x), u * 0, a)
  BY SameScaled
<1>5. x * (u * b) = u * (b * x) /\ x * 1 = x /\ u * 0 = 0
  BY <1>2
<1>6. Same(x, x * (u * b), a)
  BY <1>3, <1>5, SameSymmetric
<1> QED
  BY <1>4, <1>5, <1>6, SameTransitive

LEMMA SameBoth ==
    ASSUME NEW a \in Int, NEW b \in Int, Unit(a, b), NEW x \in Int, NEW y \in Int,
           Same(x, y, a), Same(x, y, b)
    PROVE  Same(x, y, a * b)
<1>1. PICK k \in Int : x = y + k * a
  BY DEF Same
<1>2. PICK l \in Int : x = y + l * b
  BY DEF Same
<1>3. Same(a * k, 0, b)
  <2>1. a * k = 0 + l * b /\ a * k \in Int /\ 0 \in Int
    BY <1>1, <1>2
  <2> QED
    BY <2>1, IsSame
<1>6. Same(k, 0, b)
  BY <1>3, UnitCancels
<1>4. PICK m \in Int : k = 0 + m * b
  BY <1>6 DEF Same
<1>5. x = y + m * (a * b)
  <2>1. k * a = m * (a * b)
    BY <1>4
  <2> QED
    BY <1>1, <2>1
<1>7. a * b \in Int
  OBVIOUS
<1> QED
  BY <1>5, <1>7, IsSame

-----------------------------------------------------------------------------
(* Numbers held as residues.                                               *)

(* What RnsContext::new accepts. *)
IsContext(q) == q \in Seq(Nat) /\ RnsContextOk(q)

LEMMA ContextTypes ==
    ASSUME NEW q, IsContext(q)
    PROVE  /\ q \in Seq(Nat \ {0}) /\ Len(q) \in Nat \ {0} /\ DOMAIN q = 1 .. Len(q)
           /\ ProductOf(q) \in Nat \ {0}
           /\ \A i \in 1 .. Len(q) : q[i] \in Nat \ {0} /\ q[i] >= 2 /\ NewModulusOk(q[i])
           /\ \A i, j \in 1 .. Len(q) : i # j => Unit(q[j], q[i])
<1>1. q \in Seq(Nat) /\ q # << >>
  BY DEF IsContext, RnsContextOk
<1>2. Len(q) \in Nat \ {0} /\ DOMAIN q = 1 .. Len(q) /\ \A i \in 1 .. Len(q) : q[i] \in Nat
  BY <1>1
<1>3. \A i \in 1 .. Len(q) : NewModulusOk(q[i]) /\ q[i] >= 2
  BY <1>2 DEF IsContext, RnsContextOk, NewModulusOk
<1>4. \A i \in 1 .. Len(q) : q[i] \in Nat \ {0}
  BY <1>2, <1>3
<1>5. q \in Seq(Nat \ {0})
  <2>1. q = [i \in 1 .. Len(q) |-> q[i]]
    BY <1>1
  <2>2. q \in [1 .. Len(q) -> Nat \ {0}]
    BY <1>4, <2>1
  <2> QED
    BY <1>2, <2>2 DEF Seq
<1>6. ASSUME NEW i \in 1 .. Len(q), NEW j \in 1 .. Len(q), i # j PROVE Unit(q[j], q[i])
  <2>1. Coprime(q[i], q[j])
    BY <1>2, <1>6 DEF IsContext, RnsContextOk
  <2> QED
    BY <1>2, <1>4, <2>1, Bezout
<1> QED
  BY <1>2, <1>3, <1>4, <1>5, <1>6, ProductOfPositive

(* The products of the other moduli are units of each. *)
LEMMA UnitProducts ==
    ASSUME NEW q, IsContext(q), NEW g \in [0 .. Len(q) -> Nat \ {0}], RunningProducts(g, q),
           NEW i \in 1 .. Len(q)
    PROVE  \A k \in 0 .. Len(q) :
              IF k < i THEN Unit(g[k], q[i])
              ELSE \E r \in Nat \ {0} : g[k] = q[i] * r /\ Unit(r, q[i])
<1> DEFINE n == Len(q)
           P(k) == IF k < i THEN Unit(g[k], q[i])
                   ELSE \E r \in Nat \ {0} : g[k] = q[i] * r /\ Unit(r, q[i])
           S == {k \in 0 .. n : P(k)}
<1>1. /\ n \in Nat \ {0} /\ \A k \in 1 .. n : q[k] \in Nat \ {0} /\ (k # i => Unit(q[k], q[i]))
      /\ i \in 1 .. n
  BY ContextTypes
<1>2. g[0] = 1 /\ \A k \in 1 .. n : g[k] = q[k] * g[k - 1]
  BY DEF RunningProducts
<1> HIDE DEF n
<1>3. 0 \in S
  <2>1. Unit(1, q[i])
    BY <1>1, UnitOne
  <2> QED
    BY <1>1, <1>2, <2>1
<1>4. ASSUME NEW k \in 0 .. n - 1, k \in S PROVE k + 1 \in S
  <2>1. k + 1 \in 0 .. n /\ k + 1 \in 1 .. n /\ (k + 1) - 1 = k /\ P(k)
    BY <1>1, <1>4
  <2>2. g[k + 1] = q[k + 1] * g[k]
    BY <1>2, <2>1
  <2>3. CASE k + 1 < i
    <3>1. k < i /\ k + 1 # i
      BY <1>1, <2>1, <2>3
    <3>2. Unit(g[k], q[i]) /\ Unit(q[k + 1], q[i])
      BY <1>1, <2>1, <3>1
    <3>3. q[i] \in Int
      BY <1>1
    <3>4. Unit(q[k + 1] * g[k], q[i])
      BY <3>2, <3>3, UnitTimes
    <3> QED
      BY <2>1, <2>2, <2>3, <3>4
  <2>4. CASE k + 1 = i
    <3>1. k < i /\ ~(k + 1 < i) /\ g[k] \in Nat \ {0}
      BY <1>1, <2>1, <2>4 DEF n
    <3>2. Unit(g[k], q[i]) /\ g[k + 1] = q[i] * g[k]
      BY <2>1, <2>2, <2>4, <3>1
    <3>3. P(k + 1)
      BY <3>1, <3>2
    <3> QED
      BY <2>1, <3>3
  <2>5. CASE k + 1 > i
    <3>1. ~(k < i) /\ ~(k + 1 < i) /\ k + 1 # i
      BY <1>1, <2>1, <2>5
    <3>2. PICK r \in Nat \ {0} : g[k] = q[i] * r /\ Unit(r, q[i])
      BY <2>1, <3>1
    <3>3. q[i] \in Nat \ {0} /\ q[k + 1] \in Nat \ {0} /\ Unit(q[k + 1], q[i])
      BY <1>1, <2>1, <3>1
    <3>4. Unit(q[k + 1] * r, q[i]) /\ q[k + 1] * r \in Nat \ {0}
      <4>1. q[k + 1] * r \in Nat \ {0}
        BY <3>2, <3>3
      <4> QED
        BY <3>2, <3>3, <4>1, UnitTimes
    <3>5. g[k + 1] = q[i] * (q[k + 1] * r)
      BY <2>2, <3>2, <3>3
    <3>6. P(k + 1)
      BY <3>1, <3>4, <3>5
    <3> QED
      BY <2>1, <3>6
  <2> QED
    BY <1>1, <2>1, <2>3, <2>4, <2>5
<1> HIDE DEF S
<1>5. \A k \in 0 .. n : k \in S
  BY <1>1, <1>3, <1>4, InductionUpTo
<1> QED
  BY <1>5 DEF S, n

LEMMA StarUnit ==
    ASSUME NEW q, IsContext(q), NEW i \in 1 .. Len(q)
    PROVE  /\ QStar(q, i) \in Nat \ {0} /\ ProductOf(q) = q[i] * QStar(q, i)
           /\ Unit(QStar(q, i), q[i])
<1>1. q \in Seq(Nat \ {0}) /\ Len(q) \in Nat \ {0} /\ q[i] \in Nat \ {0}
  BY ContextTypes
<1>2. PICK g \in [0 .. Len(q) -> Nat \ {0}] : RunningProducts(g, q)
  BY <1>1, RunningProductsExist
<1>3. ProductOf(q) = g[Len(q)]
  BY <1>1, <1>2, ProductOfAll
<1>4. Len(q) \in 0 .. Len(q) /\ ~(Len(q) < i)
  BY <1>1
<1>5. PICK r \in Nat \ {0} : g[Len(q)] = q[i] * r /\ Unit(r, q[i])
  BY <1>2, <1>4, UnitProducts
<1>6. (q[i] * r) \div q[i] = r
  <2> DEFINE p == q[i]
             x == p * r
  <2>1. p \in Nat \ {0} /\ x \in Int /\ x = r * p + 0 /\ 0 < p
    BY <1>1
  <2> HIDE DEF p, x
  <2>2. x \div p = r
    BY <2>1, QuotientUnique
  <2> QED
    BY <2>2 DEF x, p
<1> QED
  BY <1>3, <1>5, <1>6 DEF QStar

(* A garner is one modulo its modulus and zero modulo the others. *)
LEMMA GarnerRests ==
    ASSUME NEW q, IsContext(q), NEW i \in 1 .. Len(q)
    PROVE  /\ GarnerOf(q, i) \in Nat
           /\ Same(GarnerOf(q, i), 1, q[i])
           /\ \A j \in 1 .. Len(q) : j # i => Same(GarnerOf(q, i), 0, q[j])
<1> DEFINE s == QStar(q, i)
           t == QTilde(q, i)
           p == q[i]
<1>1. s \in Nat \ {0} /\ ProductOf(q) = p * s /\ Unit(s, p)
  BY StarUnit
<1>2. p \in Nat \ {0} /\ p >= 2
  BY ContextTypes
<1> HIDE DEF s, p
<1>3. PICK u \in Int : Same(u * s, 1, p)
  BY <1>1 DEF Unit
<1>4. (u % p) \in 0 .. p - 1 /\ ((u % p) * s) % p = 1 % p
  <2>0. p \in Int /\ s \in Int
    BY <1>1, <1>2
  <2>4. Same(u % p, u, p)
    BY <1>2, SameMod
  <2>1. Same(u % p, u, p) /\ u % p \in 0 .. p - 1
    BY <1>2, <2>4
  <2>2. Same(s * (u % p), s * u, p)
    BY <2>0, <2>1, SameScaled
  <2>3. s * (u % p) = (u % p) * s /\ s * u = u * s
    BY <1>1, <2>1
  <2>5. Same((u % p) * s, 1, p)
    BY <1>2, <1>3, <2>2, <2>3, SameTransitive
  <2> QED
    BY <1>2, <2>1, <2>5, SameEqual
<1>5. t \in 0 .. p - 1 /\ (t * s) % p = 1 % p
  <2>1. t = CHOOSE w \in 0 .. p - 1 : (w * s) % p = 1 % p
    BY DEF QTilde, s, p
  <2> QED
    BY <1>4, <2>1
<1>6. GarnerOf(q, i) = s * t
  BY DEF GarnerOf, s
<1> HIDE DEF t
<1>7. Same(s * t, 1, p)
  <2>1. s * t = t * s /\ t * s \in Int
    BY <1>1, <1>2, <1>5
  <2>4. Same((t * s) % p, t * s, p)
    BY <1>2, <2>1, SameMod
  <2>5. Same(1 % p, 1, p)
    BY <1>2, SameMod
  <2>2. Same((t * s) % p, t * s, p) /\ Same(1 % p, 1, p)
    BY <2>4, <2>5
  <2>3. Same(t * s, (t * s) % p, p)
    BY <1>2, <2>2, SameSymmetric
  <2> QED
    BY <1>2, <1>5, <2>1, <2>2, <2>3, SameTransitive
<1>8. ASSUME NEW j \in 1 .. Len(q), j # i PROVE Same(s * t, 0, q[j])
  <2>1. q[j] \in Nat \ {0} /\ Unit(p, q[j])
    BY <1>8, ContextTypes DEF p
  <2>2. QStar(q, j) \in Nat /\ ProductOf(q) = q[j] * QStar(q, j)
    BY StarUnit
  <2>3. Same(p * s, 0, q[j])
    <3>1. p * s = 0 + QStar(q, j) * q[j] /\ p * s \in Int
      BY <1>1, <1>2, <2>1, <2>2
    <3> QED
      BY <2>2, <3>1 DEF Same
  <2>4. Same(s, 0, q[j])
    BY <1>1, <2>1, <2>3, UnitCancels
  <2>7. t \in Int /\ q[j] \in Int
    BY <1>2, <1>5, <2>1
  <2>5. Same(t * s, t * 0, q[j])
    BY <2>4, <2>7, SameScaled
  <2>6. t * s = s * t /\ t * 0 = 0
    BY <1>1, <1>5
  <2> QED
    BY <2>5, <2>6
<1>9. s * t \in Nat
  BY <1>1, <1>2, <1>5
<1> QED
  BY <1>6, <1>7, <1>8, <1>9 DEF p

(* Numbers with the same residues are the same modulo the product.         *)
LEMMA ChineseRemainders ==
    ASSUME NEW q, IsContext(q), NEW x \in Int, NEW y \in Int,
           \A i \in 1 .. Len(q) : Same(x, y, q[i])
    PROVE  Same(x, y, ProductOf(q))
<1>1. q \in Seq(Nat \ {0}) /\ Len(q) \in Nat \ {0}
  BY ContextTypes
<1>2. PICK g \in [0 .. Len(q) -> Nat \ {0}] : RunningProducts(g, q)
  BY <1>1, RunningProductsExist
<1> DEFINE S == {k \in 0 .. Len(q) : Same(x, y, g[k])}
<1>3. 0 \in S
  <2>1. x = y + (x - y) * 1 /\ x - y \in Int /\ 1 \in Int
    OBVIOUS
  <2>2. Same(x, y, 1)
    BY <2>1, IsSame
  <2> QED
    BY <1>1, <1>2, <2>2 DEF RunningProducts
<1>4. ASSUME NEW k \in 0 .. Len(q) - 1, k \in S PROVE k + 1 \in S
  <2>1. k + 1 \in 1 .. Len(q) /\ k \in 0 .. Len(q) /\ k < k + 1 /\ (k + 1) - 1 = k
    BY <1>1
  <2>2. Unit(g[k], q[k + 1])
    BY <1>2, <2>1, UnitProducts
  <2>3. g[k + 1] = q[k + 1] * g[k]
    BY <1>2, <2>1 DEF RunningProducts
  <2>4. q[k + 1] \in Int /\ g[k] \in Int
    BY <1>1, <2>1
  <2>5. Same(x, y, g[k] * q[k + 1])
    BY <1>4, <2>1, <2>2, <2>4, SameBoth
  <2>6. g[k] * q[k + 1] = g[k + 1]
    BY <2>3, <2>4
  <2> QED
    BY <2>1, <2>5, <2>6
<1> HIDE DEF S
<1>5. \A k \in 0 .. Len(q) : k \in S
  BY <1>1, <1>3, <1>4, InductionUpTo
<1>6. Len(q) \in 0 .. Len(q) /\ ProductOf(q) = g[Len(q)]
  BY <1>1, <1>2, ProductOfAll
<1> QED
  BY <1>5, <1>6 DEF S

(* Lifted residues have these residues. *)
LEMMA LiftExact ==
    ASSUME NEW q, IsContext(q), NEW rests, \A i \in 1 .. Len(q) : rests[i] \in Int
    PROVE  /\ Lift(q, rests) \in 0 .. ProductOf(q) - 1
           /\ \A i \in 1 .. Len(q) : Same(Lift(q, rests), rests[i], q[i])
<1> DEFINE n == Len(q)
           f == [i \in DOMAIN q |-> rests[i] * GarnerOf(q, i)]
           Q1 == ProductOf(q)
           sum == SumOf(f, n)
<1>1. /\ n \in Nat /\ DOMAIN q = 1 .. n /\ Q1 \in Nat \ {0}
      /\ \A i \in 1 .. n : q[i] \in Nat \ {0}
  BY ContextTypes
<1>2. \A i \in 1 .. n : GarnerOf(q, i) \in Nat /\ f[i] = rests[i] * GarnerOf(q, i)
  BY <1>1, GarnerRests
<1>3. Lift(q, rests) = sum % Q1
  BY DEF Lift
<1> HIDE DEF f, Q1, n
<1>4. \A i \in 1 .. n : f[i] \in Int
  BY <1>2 DEF n
<1>5. sum \in Int /\ Terms(f, 1 .. n) /\ sum = SumFunctionOnSet(f, 1 .. n)
  BY <1>1, <1>4, SumOfIsSum, SumOfInt
<1> HIDE DEF sum
<1>8. sum % Q1 \in 0 .. Q1 - 1
  BY <1>1, <1>5
<1>9. Same(sum % Q1, sum, Q1)
  BY <1>1, <1>5, SameMod
<1>6. sum % Q1 \in 0 .. Q1 - 1 /\ Same(sum % Q1, sum, Q1)
  BY <1>8, <1>9
<1>7. ASSUME NEW j \in 1 .. n PROVE Same(sum % Q1, rests[j], q[j])
  <2> DEFINE h == [i \in 1 .. n |-> IF i = j THEN rests[j] ELSE 0]
  <2>1. rests[j] \in Int /\ q[j] \in Nat \ {0}
    BY <1>1 DEF n
  <2>2. IsFiniteSet(1 .. n)
    BY <1>1, FS_Interval
  <2>3. Terms(h, 1 .. n)
    BY <2>1, <2>2 DEF Terms
  <2>4. \A i \in 1 .. n : i # j => h[i] = 0
    OBVIOUS
  <2>5. h[j] = rests[j]
    OBVIOUS
  <2>6. ASSUME NEW i \in 1 .. n PROVE Same(f[i], h[i], q[j])
    <3>1. rests[i] \in Int /\ GarnerOf(q, i) \in Nat /\ f[i] = rests[i] * GarnerOf(q, i)
      BY <1>2 DEF n
    <3>2. CASE i = j
      <4>1. Same(GarnerOf(q, i), 1, q[j])
        BY <3>2, GarnerRests DEF n
      <4>2. Same(rests[i] * GarnerOf(q, i), rests[i] * 1, q[j])
        BY <2>1, <3>1, <4>1, SameScaled
      <4> QED
        BY <2>5, <3>1, <3>2, <4>2
    <3>3. CASE i # j
      <4>1. Same(GarnerOf(q, i), 0, q[j])
        BY <3>3, GarnerRests DEF n
      <4>2. Same(rests[i] * GarnerOf(q, i), rests[i] * 0, q[j])
        BY <2>1, <3>1, <4>1, SameScaled
      <4>3. rests[i] * 0 = 0
        BY <3>1
      <4> QED
        BY <2>4, <3>1, <3>3, <4>2, <4>3
    <3> QED
      BY <3>2, <3>3
  <2> HIDE DEF h
  <2>7. SumFunctionOnSet(h, 1 .. n) = rests[j]
    BY <2>3, <2>4, <2>5, SumOnly
  <2>10. q[j] \in Int /\ Terms(f, 1 .. n) /\ \A i \in 1 .. n : Same(f[i], h[i], q[j])
    BY <1>5, <2>1, <2>6
  <2>11. Same(SumFunctionOnSet(f, 1 .. n), SumFunctionOnSet(h, 1 .. n), q[j])
    BY <2>3, <2>10, SumCongruent
  <2>8. Same(sum, rests[j], q[j])
    BY <1>5, <2>7, <2>11
  <2>9. Same(sum % Q1, sum, q[j])
    <3>1. QStar(q, j) \in Nat /\ Q1 = q[j] * QStar(q, j)
      BY StarUnit DEF n, Q1
    <3>2. PICK k \in Int : sum % Q1 = sum + k * Q1
      BY <1>6 DEF Same
    <3>3. k * Q1 = (k * QStar(q, j)) * q[j] /\ k * QStar(q, j) \in Int
      BY <2>1, <3>1
    <3>4. sum % Q1 = sum + (k * QStar(q, j)) * q[j] /\ sum % Q1 \in Int
      BY <1>6, <3>2, <3>3
    <3> QED
      BY <1>5, <3>3, <3>4 DEF Same
  <2> QED
    BY <2>1, <2>8, <2>9, SameTransitive
<1> QED
  BY <1>3, <1>6, <1>7 DEF n, Q1

(* Residues of a number lift to it. *)
LEMMA LiftProjected ==
    ASSUME NEW q, IsContext(q), NEW x \in Int
    PROVE  Lift(q, Project(q, x)) = x % ProductOf(q)
<1> DEFINE r == Project(q, x)
           Q1 == ProductOf(q)
<1>1. /\ DOMAIN q = 1 .. Len(q) /\ Q1 \in Nat \ {0}
      /\ \A i \in 1 .. Len(q) : q[i] \in Nat \ {0}
  BY ContextTypes
<1>2. \A i \in 1 .. Len(q) : r[i] = x % q[i] /\ r[i] \in Int
  BY <1>1 DEF Project
<1> HIDE DEF r
<1>3. /\ Lift(q, r) \in 0 .. Q1 - 1
      /\ \A i \in 1 .. Len(q) : Same(Lift(q, r), r[i], q[i])
  BY <1>2, LiftExact
<1>4. ASSUME NEW i \in 1 .. Len(q) PROVE Same(Lift(q, r), x, q[i])
  <2>1. Same(x % q[i], x, q[i])
    BY <1>1, SameMod
  <2> QED
    BY <1>1, <1>2, <1>3, <2>1, SameTransitive
<1>7. Lift(q, r) \in Int /\ \A i \in 1 .. Len(q) : Same(Lift(q, r), x, q[i])
  BY <1>1, <1>3, <1>4
<1>5. Same(Lift(q, r), x, Q1)
  BY <1>7, ChineseRemainders
<1>6. Lift(q, r) % Q1 = x % Q1 /\ Lift(q, r) % Q1 = Lift(q, r)
  BY <1>1, <1>3, <1>5, SameEqual, OwnRemainder
<1> QED
  BY <1>6 DEF r
=============================================================================
