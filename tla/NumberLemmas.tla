----------------------------- MODULE NumberLemmas ----------------------------
(***************************************************************************)
(* Facts that the proofs share: division with remainder, numbers that are  *)
(* near each other or the same modulo q, induction, functions defined by   *)
(* recursion, powers and products, sums over finite sets, and Fermat's     *)
(* theorem.                                                                *)
(***************************************************************************)
EXTENDS Integers, FiniteSetTheorems, TLAPS

-----------------------------------------------------------------------------
(* Division. *)

LEMMA Remainder ==
    ASSUME NEW x \in Int, NEW q \in Nat \ {0}
    PROVE  /\ x % q \in Int /\ x \div q \in Int
           /\ 0 <= x % q /\ x % q < q
           /\ x = (x \div q) * q + (x % q)
  OBVIOUS

LEMMA Distributes ==
    ASSUME NEW a \in Int, NEW x \in Int, NEW y \in Int
    PROVE  /\ a * x \in Int /\ a * y \in Int /\ a * (x + y) \in Int
           /\ a * x + a * y = a * (x + y)
  OBVIOUS

(* What lies between -q and q and is a multiple of q is 0.                 *)
LEMMA SmallMultiple ==
    ASSUME NEW k \in Int, NEW q \in Nat \ {0}, -q < k * q, k * q < q
    PROVE  k = 0
<1>1. k * q \in Int
  OBVIOUS
<1>2. CASE k >= 1
  <2>1. (k - 1) * q >= 0
    BY <1>2
  <2>2. (k - 1) * q = k * q - q
    OBVIOUS
  <2> QED
    BY <2>1, <2>2, <1>1
<1>3. CASE k <= -1
  <2>1. (-k - 1) * q >= 0
    BY <1>3
  <2>2. (-k - 1) * q = -(k * q) - q
    OBVIOUS
  <2> QED
    BY <2>1, <2>2, <1>1
<1> QED
  BY <1>2, <1>3

(* The remainder is the only number below q that differs by a multiple.    *)
LEMMA RemainderUnique ==
    ASSUME NEW x \in Int, NEW k \in Int, NEW r \in Int, NEW q \in Nat \ {0},
           x = k * q + r, 0 <= r, r < q
    PROVE  x % q = r
<1> DEFINE s == x % q
           d == x \div q
<1>1. s \in Int /\ d \in Int /\ 0 <= s /\ s < q /\ x = d * q + s
  BY Remainder
<1> HIDE DEF s, d
<1> DEFINE j == k - d
<1>2. j \in Int /\ j * q = k * q - d * q
  BY <1>1
<1> HIDE DEF j
<1>3. j * q = s - r
  BY <1>1, <1>2
<1>4. j = 0
  BY <1>1, <1>2, <1>3, SmallMultiple
<1>5. s = r
  BY <1>1, <1>3, <1>4
<1> QED
  BY <1>5 DEF s

LEMMA QuotientUnique ==
    ASSUME NEW x \in Int, NEW k \in Int, NEW r \in Int, NEW q \in Nat \ {0},
           x = k * q + r, 0 <= r, r < q
    PROVE  x \div q = k
<1> DEFINE s == x % q
           d == x \div q
<1>1. s \in Int /\ d \in Int /\ 0 <= s /\ s < q /\ x = d * q + s
  BY Remainder
<1>2. s = r
  BY RemainderUnique
<1> HIDE DEF s, d
<1>3. (k - d) * q = 0
  BY <1>1, <1>2
<1>4. k - d = 0
  BY <1>1, <1>3, SmallMultiple
<1>5. d = k
  BY <1>1, <1>4
<1> QED
  BY <1>5 DEF d

(* Numbers that differ by a multiple of q have the same remainder.         *)
LEMMA SameRemainder ==
    ASSUME NEW x \in Int, NEW y \in Int, NEW k \in Int, NEW q \in Nat \ {0}, x = k * q + y
    PROVE  x % q = y % q
<1> DEFINE r == y % q
           d == y \div q
<1>1. r \in Int /\ d \in Int /\ 0 <= r /\ r < q /\ y = d * q + r
  BY Remainder
<1> HIDE DEF r, d
<1>2. (k + d) * q = k * q + d * q /\ k + d \in Int
  BY <1>1
<1>3. x = (k + d) * q + r
  BY <1>1, <1>2
<1>4. x % q = r
  BY <1>1, <1>2, <1>3, RemainderUnique
<1> QED
  BY <1>4 DEF r

(* A quotient of a quotient. *)
LEMMA QuotientOfQuotient ==
    ASSUME NEW x \in Int, NEW y \in Int, NEW q \in Nat \ {0}
    PROVE  (x + (y \div q)) \div q = (x * q + y) \div (q * q)
<1> DEFINE d == y \div q
           r == y % q
           e == (x + d) \div q
           s == (x + d) % q
<1>1. d \in Int /\ r \in Int /\ 0 <= r /\ r < q /\ y = d * q + r
  BY Remainder
<1>2. e \in Int /\ s \in Int /\ 0 <= s /\ s < q /\ x + d = e * q + s
  <2> HIDE DEF d
  <2> QED
    BY <1>1, Remainder
<1> HIDE DEF d, r, e, s
<1>3. x * q + y = (x + d) * q + r
  BY <1>1
<1>4. (x + d) * q = e * (q * q) + s * q
  BY <1>1, <1>2
<1>5. s * q + r >= 0 /\ s * q + r < q * q
  <2>1. (q - 1 - s) * q >= 0 /\ s * q >= 0
    BY <1>2
  <2>2. (q - 1 - s) * q = q * q - q - s * q
    BY <1>2
  <2> QED
    BY <1>1, <1>2, <2>1, <2>2
<1>6. x * q + y = e * (q * q) + (s * q + r)
  BY <1>1, <1>2, <1>3, <1>4
<1> DEFINE z == x * q + y
           qq == q * q
           t == s * q + r
<1>7. z \in Int /\ t \in Int /\ qq \in Nat \ {0} /\ z = e * qq + t /\ 0 <= t /\ t < qq
  <2>1. q * q > 0
    OBVIOUS
  <2> QED
    BY <1>1, <1>2, <1>5, <1>6, <2>1
<1> HIDE DEF z, qq, t
<1>8. z \div qq = e
  BY <1>2, <1>7, QuotientUnique
<1> QED
  BY <1>8 DEF z, qq, e, d

(* A product with a positive factor keeps the sign of the other.           *)
LEMMA Positive ==
    ASSUME NEW x \in Int, NEW n \in Nat \ {0}, x * n > 0
    PROVE  x >= 1
<1>1. CASE x <= 0
  <2>1. (-x) * n >= 0 /\ (-x) * n = -(x * n) /\ x * n \in Int
    BY <1>1
  <2> QED
    BY <2>1
<1> QED
  BY <1>1

LEMMA NotNegative ==
    ASSUME NEW x \in Int, NEW n \in Nat \ {0}, x * n >= 0
    PROVE  x >= 0
<1>1. CASE x <= -1
  <2>1. (-x) * n >= n /\ (-x) * n = -(x * n) /\ x * n \in Int
    BY <1>1
  <2> QED
    BY <2>1
<1> QED
  BY <1>1

(* A multiple of the modulus leaves no remainder.                          *)
LEMMA MultipleRemainder ==
    ASSUME NEW x \in Int, NEW k \in Int, NEW q \in Nat \ {0}, x = k * q
    PROVE  x % q = 0
<1> DEFINE r == x % q
           d == x \div q
<1>1. r \in Int /\ d \in Int /\ 0 <= r /\ r < q /\ x = d * q + r
  BY Remainder
<1> HIDE DEF r, d
<1>2. (k - d) * q = k * q - d * q
  BY <1>1
<1>3. (k - d) * q = r
  BY <1>1, <1>2
<1>4. k - d = 0
  BY <1>1, <1>3, SmallMultiple
<1>5. r = 0
  BY <1>3, <1>4, <1>1
<1> QED
  BY <1>5 DEF r

(* A number below the modulus is its own remainder. *)
LEMMA OwnRemainder ==
    ASSUME NEW q \in Nat \ {0}, NEW x \in Int, 0 <= x, x < q
    PROVE  x % q = x
<1> DEFINE k == 0
<1>1. k * q = k /\ k = 0 /\ k \in Int
  OBVIOUS
<1> HIDE DEF k
<1>2. x = k * q + x
  BY <1>1
<1> QED
  BY <1>1, <1>2, RemainderUnique

(* The remainder of a sum from the remainder of a summand. *)
LEMMA RemainderOfSum ==
    ASSUME NEW q \in Nat \ {0}, NEW x \in Int, NEW y \in Int
    PROVE  ((x % q) + y) % q = (x + y) % q
<1> DEFINE r == x % q
           g == x \div q
           s == r + y
           t == x + y
<1>1. r \in Int /\ g \in Int /\ x = g * q + r
  BY Remainder
<1> HIDE DEF r, g
<1>2. s \in Int /\ t \in Int /\ g \in Int /\ q \in Nat \ {0} /\ t = g * q + s
  BY <1>1
<1> DEFINE e == s \div q
           u == s % q
<1> HIDE DEF s, t
<1>3. u \in Int /\ e \in Int /\ 0 <= u /\ u < q /\ s = e * q + u
  BY <1>2, Remainder
<1> HIDE DEF e, u
<1>4. (g + e) * q = g * q + e * q /\ g + e \in Int
  BY <1>2, <1>3
<1> DEFINE h == g + e
<1>5. h \in Int /\ t = h * q + u
  BY <1>2, <1>3, <1>4
<1> HIDE DEF h
<1>6. t % q = u
  BY <1>2, <1>3, <1>5, RemainderUnique, ZenonT(60)
<1> QED
  BY <1>6 DEF s, t, r, u

-----------------------------------------------------------------------------
(* Numbers that differ by an error of at most b and a multiple of q.       *)
Near(x, y, b, q) ==
    \E e, k \in Int : /\ -b <= e
                      /\ e <= b
                      /\ x = y + e + k * q

LEMMA NearMod ==
    ASSUME NEW x \in Int, NEW y \in Int, NEW b \in Int, NEW q \in Nat \ {0}, Near(x, y, b, q)
    PROVE  Near(x % q, y, b, q)
<1>1. PICK e \in Int, k \in Int : -b <= e /\ e <= b /\ x = y + e + k * q
  BY DEF Near
<1> DEFINE r == x % q
           d == x \div q
<1>2. r \in Int /\ d \in Int /\ x = d * q + r
  BY Remainder
<1> HIDE DEF r, d
<1>3. (k - d) * q = k * q - d * q
  BY <1>2
<1>4. r = y + e + (k - d) * q
  BY <1>1, <1>2, <1>3
<1>5. k - d \in Int
  BY <1>2
<1>6. Near(r, y, b, q)
  BY <1>1, <1>4, <1>5 DEF Near
<1> QED
  BY <1>6 DEF r

LEMMA NearSame ==
    ASSUME NEW x \in Int, NEW e \in Int, NEW b \in Int, NEW q \in Nat \ {0}, -b <= e, e <= b
    PROVE  Near(x + e, x, b, q)
<1>1. x + e = x + e + 0 * q
  OBVIOUS
<1> QED
  BY <1>1 DEF Near

LEMMA NearAdd ==
    ASSUME NEW x1 \in Int, NEW y1 \in Int, NEW b1 \in Int,
           NEW x2 \in Int, NEW y2 \in Int, NEW b2 \in Int,
           NEW q \in Nat \ {0}, Near(x1, y1, b1, q), Near(x2, y2, b2, q)
    PROVE  Near(x1 + x2, y1 + y2, b1 + b2, q)
<1>1. PICK e1 \in Int, k1 \in Int : -b1 <= e1 /\ e1 <= b1 /\ x1 = y1 + e1 + k1 * q
  BY DEF Near
<1>2. PICK e2 \in Int, k2 \in Int : -b2 <= e2 /\ e2 <= b2 /\ x2 = y2 + e2 + k2 * q
  BY DEF Near
<1>3. (k1 + k2) * q = k1 * q + k2 * q
  OBVIOUS
<1>4. x1 + x2 = (y1 + y2) + (e1 + e2) + (k1 + k2) * q
  BY <1>1, <1>2, <1>3
<1>5. -(b1 + b2) <= e1 + e2 /\ e1 + e2 <= b1 + b2
  BY <1>1, <1>2
<1>6. e1 + e2 \in Int /\ k1 + k2 \in Int
  OBVIOUS
<1> QED
  BY <1>4, <1>5, <1>6 DEF Near

LEMMA NearTrans ==
    ASSUME NEW x \in Int, NEW y \in Int, NEW z \in Int, NEW b1 \in Int, NEW b2 \in Int,
           NEW q \in Nat \ {0}, Near(x, y, b1, q), Near(y, z, b2, q)
    PROVE  Near(x, z, b1 + b2, q)
<1>1. PICK e1 \in Int, k1 \in Int : -b1 <= e1 /\ e1 <= b1 /\ x = y + e1 + k1 * q
  BY DEF Near
<1>2. PICK e2 \in Int, k2 \in Int : -b2 <= e2 /\ e2 <= b2 /\ y = z + e2 + k2 * q
  BY DEF Near
<1>3. (k1 + k2) * q = k1 * q + k2 * q
  OBVIOUS
<1>4. x = z + (e1 + e2) + (k1 + k2) * q
  BY <1>1, <1>2, <1>3
<1>5. -(b1 + b2) <= e1 + e2 /\ e1 + e2 <= b1 + b2
  BY <1>1, <1>2
<1>6. e1 + e2 \in Int /\ k1 + k2 \in Int
  OBVIOUS
<1> QED
  BY <1>4, <1>5, <1>6 DEF Near

-----------------------------------------------------------------------------
(* x and y are the same modulo q; modulo 0 they are equal.                 *)
Same(x, y, q) == x \in Int /\ y \in Int /\ \E k \in Int : x = y + k * q

LEMMA SameReflexive == ASSUME NEW x \in Int, NEW q \in Int PROVE Same(x, x, q)
<1>1. 0 \in Int /\ x = x + 0 * q
  OBVIOUS
<1> QED
  BY <1>1 DEF Same

LEMMA SameSymmetric == ASSUME NEW x, NEW y, NEW q \in Int, Same(x, y, q) PROVE Same(y, x, q)
<1>1. PICK k \in Int : x = y + k * q
  BY DEF Same
<1>2. x \in Int /\ y \in Int /\ -k \in Int
  BY DEF Same
<1> DEFINE p == k * q
           r == (-k) * q
<1>3. p \in Int /\ r = -p /\ x = y + p
  BY <1>1, <1>2
<1>4. y = x + r
  <2> HIDE DEF p, r
  <2> QED
    BY <1>2, <1>3
<1> QED
  BY <1>2, <1>4 DEF Same

LEMMA SameTransitive ==
    ASSUME NEW x, NEW y, NEW z, NEW q \in Int, Same(x, y, q), Same(y, z, q)
    PROVE  Same(x, z, q)
<1>1. PICK k \in Int : x = y + k * q
  BY DEF Same
<1>2. PICK l \in Int : y = z + l * q
  BY DEF Same
<1>3. x \in Int /\ y \in Int /\ z \in Int
  BY DEF Same
<1>4. k * q \in Int /\ l * q \in Int /\ (k + l) * q = k * q + l * q /\ k + l \in Int
  <2>1. q * k + q * l = q * (k + l) /\ q * k \in Int /\ q * l \in Int
    BY Distributes
  <2> QED
    BY <2>1
<1>5. x = z + (k + l) * q
  BY <1>1, <1>2, <1>3, <1>4
<1> QED
  BY <1>3, <1>4, <1>5 DEF Same

LEMMA SameAdd ==
    ASSUME NEW x1, NEW y1, NEW x2, NEW y2, NEW q \in Int, Same(x1, y1, q), Same(x2, y2, q)
    PROVE  Same(x1 + x2, y1 + y2, q)
<1>1. PICK k \in Int : x1 = y1 + k * q
  BY DEF Same
<1>2. PICK l \in Int : x2 = y2 + l * q
  BY DEF Same
<1>3. x1 \in Int /\ y1 \in Int /\ x2 \in Int /\ y2 \in Int
  BY DEF Same
<1>4. k * q \in Int /\ l * q \in Int /\ (k + l) * q = k * q + l * q /\ k + l \in Int
  <2>1. q * k + q * l = q * (k + l) /\ q * k \in Int /\ q * l \in Int
    BY Distributes
  <2> QED
    BY <2>1
<1>5. x1 + x2 = (y1 + y2) + (k + l) * q
  BY <1>1, <1>2, <1>3, <1>4
<1>6. x1 + x2 \in Int /\ y1 + y2 \in Int
  BY <1>3
<1> QED
  BY <1>4, <1>5, <1>6 DEF Same

LEMMA SameScaled ==
    ASSUME NEW x, NEW y, NEW c \in Int, NEW q \in Int, Same(x, y, q)
    PROVE  Same(c * x, c * y, q)
<1>1. PICK k \in Int : x = y + k * q
  BY DEF Same
<1>2. x \in Int /\ y \in Int /\ k * q \in Int
  BY DEF Same
<1>3. c * x = c * y + c * (k * q) /\ c * x \in Int /\ c * y \in Int
  BY <1>1, <1>2, Distributes
<1>4. c * (k * q) = (c * k) * q /\ c * k \in Int
  OBVIOUS
<1> QED
  BY <1>3, <1>4 DEF Same

LEMMA SameTimes ==
    ASSUME NEW x1, NEW y1, NEW x2, NEW y2, NEW q \in Int, Same(x1, y1, q), Same(x2, y2, q)
    PROVE  Same(x1 * x2, y1 * y2, q)
<1>1. x1 \in Int /\ y1 \in Int /\ x2 \in Int /\ y2 \in Int
  BY DEF Same
<1>2. Same(x1 * x2, x1 * y2, q)
  BY <1>1, SameScaled
<1>3. Same(y2 * x1, y2 * y1, q)
  BY <1>1, SameScaled
<1>4. y2 * x1 = x1 * y2 /\ y2 * y1 = y1 * y2
  BY <1>1
<1>5. Same(x1 * y2, y1 * y2, q)
  BY <1>3, <1>4
<1> QED
  BY <1>2, <1>5, SameTransitive

LEMMA SameNegated ==
    ASSUME NEW x, NEW y, NEW q \in Int, Same(x, y, q)
    PROVE  Same(-x, -y, q)
<1>1. Same((-1) * x, (-1) * y, q)
  BY SameScaled
<1>2. x \in Int /\ y \in Int
  BY DEF Same
<1>3. (-1) * x = -x /\ (-1) * y = -y
  BY <1>2
<1> QED
  BY <1>1, <1>3

LEMMA SameMod == ASSUME NEW x \in Int, NEW q \in Nat \ {0} PROVE Same(x % q, x, q)
<1>1. x % q \in Int /\ x \div q \in Int /\ x = (x \div q) * q + (x % q)
  BY Remainder
<1>2. x = (x % q) + (x \div q) * q
  BY <1>1
<1>3. Same(x, x % q, q)
  BY <1>1, <1>2 DEF Same
<1> QED
  BY <1>3, SameSymmetric

LEMMA SameEqual ==
    ASSUME NEW x, NEW y, NEW q \in Nat \ {0}, Same(x, y, q)
    PROVE  x % q = y % q
<1>1. PICK k \in Int : x = y + k * q
  BY DEF Same
<1>2. x \in Int /\ y \in Int
  BY DEF Same
<1> DEFINE d == y \div q
           r == y % q
<1>3. d \in Int /\ r \in Int /\ 0 <= r /\ r < q /\ y = d * q + r
  BY <1>2, Remainder
<1> HIDE DEF d, r
<1>4. (k + d) * q = k * q + d * q /\ k * q \in Int /\ d * q \in Int /\ k + d \in Int
  <2>1. q * k + q * d = q * (k + d) /\ q * k \in Int /\ q * d \in Int
    BY <1>3, Distributes
  <2> QED
    BY <1>3, <2>1
<1>5. x = (k + d) * q + r
  BY <1>1, <1>2, <1>3, <1>4
<1>6. x % q = r
  <2> DEFINE c == k + d
  <2>1. c \in Int /\ x = c * q + r
    BY <1>4, <1>5
  <2> HIDE DEF c
  <2> QED
    BY <1>2, <1>3, <2>1, RemainderUnique
<1> QED
  BY <1>6 DEF r

-----------------------------------------------------------------------------
(* Induction, for sets of numbers.                                         *)

LEMMA SetInduction ==
    ASSUME NEW S, 0 \in S, \A n \in Nat : n \in S => n + 1 \in S
    PROVE  Nat \subseteq S
<1> SUFFICES ASSUME Nat \ S # {} PROVE FALSE
  OBVIOUS
<1> DEFINE R == OpToRel(<, Nat)
           U == Nat \ S
<1>1. IsWellFoundedOn(R, Nat)
  BY NatLessThanWellFounded, Zenon
<1>2. \A m, n \in Nat : m < n => << m, n >> \in R
  BY DEF OpToRel
<1>3. U \subseteq Nat /\ U # {}
  OBVIOUS
<1> HIDE DEF R, U
<1>4. PICK n \in U : \A m \in U : ~(<< m, n >> \in R)
  BY <1>1, <1>3, WFMin
<1>5. n \in Nat /\ n \notin S
  BY DEF U
<1>6. n # 0 /\ n - 1 \in Nat /\ n - 1 < n /\ (n - 1) + 1 = n
  BY <1>5
<1>7. n - 1 \notin U
  BY <1>2, <1>4, <1>5, <1>6
<1>8. n - 1 \in S
  BY <1>6, <1>7 DEF U
<1> QED
  BY <1>5, <1>6, <1>8

LEMMA InductionUpTo ==
    ASSUME NEW M \in Nat, NEW S, 0 \in S, \A n \in 0 .. M - 1 : n \in S => n + 1 \in S
    PROVE  \A n \in 0 .. M : n \in S
<1> DEFINE U == {n \in Nat : n <= M => n \in S}
<1>1. 0 \in U
  OBVIOUS
<1>2. ASSUME NEW n \in Nat, n \in U PROVE n + 1 \in U
  <2>1. CASE n + 1 <= M
    <3>1. n \in 0 .. M - 1 /\ n \in S
      BY <1>2, <2>1
    <3> QED
      BY <3>1
  <2> QED
    BY <2>1
<1> HIDE DEF U
<1>3. Nat \subseteq U
  BY <1>1, <1>2, SetInduction
<1> QED
  BY <1>3 DEF U

(* A function defined by a first value and a step exists.  step takes a    *)
(* number and the value before it.                                         *)
Steps(g, M, a, step) == g[0] = a /\ \A k \in 1 .. M : g[k] = step[<< k, g[k - 1] >>]

LEMMA RecursionExists ==
    ASSUME NEW M \in Nat, NEW S, NEW a, a \in S, NEW step, step \in [(1 .. M) \X S -> S]
    PROVE  \E g \in [0 .. M -> S] : Steps(g, M, a, step)
<1> DEFINE Upto(g, n) == g[0] = a /\ \A k \in 1 .. n : g[k] = step[<< k, g[k - 1] >>]
           U == {n \in 0 .. M : \E g \in [0 .. M -> S] : Upto(g, n)}
<1>1. 0 \in U
  <2> DEFINE g == [k \in 0 .. M |-> a]
  <2>1. g \in [0 .. M -> S] /\ Upto(g, 0)
    OBVIOUS
  <2> HIDE DEF g, Upto
  <2>2. 0 \in 0 .. M
    OBVIOUS
  <2> QED
    BY <2>1, <2>2
<1>2. ASSUME NEW n \in 0 .. M - 1, n \in U PROVE n + 1 \in U
  <2>1. PICK g \in [0 .. M -> S] : Upto(g, n)
    BY <1>2
  <2> DEFINE h == [k \in 0 .. M |-> IF k = n + 1 THEN step[<< n + 1, g[n] >>] ELSE g[k]]
  <2>2. n + 1 \in 1 .. M /\ n \in 0 .. M
    OBVIOUS
  <2>3. g[n] \in S
    BY <2>2
  <2>4. << n + 1, g[n] >> \in (1 .. M) \X S
    BY <2>2, <2>3
  <2>5. step[<< n + 1, g[n] >>] \in S
    BY <2>4
  <2> HIDE DEF U, Upto
  <2>6. h \in [0 .. M -> S]
    BY <2>5
  <2>7. h[0] = a
    BY <2>1 DEF Upto
  <2>8. ASSUME NEW k \in 1 .. n + 1 PROVE h[k] = step[<< k, h[k - 1] >>]
    <3>1. CASE k = n + 1
      <4>1. h[k] = step[<< n + 1, g[n] >>] /\ h[n] = g[n]
        BY <2>2, <3>1
      <4>2. k - 1 = n
        BY <3>1
      <4> QED
        BY <3>1, <4>1, <4>2
    <3>2. CASE k # n + 1
      <4>1. k \in 1 .. n /\ h[k] = g[k] /\ h[k - 1] = g[k - 1]
        BY <2>2, <3>2
      <4> QED
        BY <2>1, <4>1 DEF Upto
    <3> QED
      BY <3>1, <3>2
  <2> HIDE DEF h
  <2>9. Upto(h, n + 1)
    BY <2>7, <2>8 DEF Upto
  <2> QED
    BY <2>2, <2>6, <2>9 DEF U
<1> HIDE DEF U
<1>3. M \in U
  BY <1>1, <1>2, InductionUpTo
<1> QED
  BY <1>3 DEF U, Steps

(* Two functions that take the same steps are equal as far as both go.     *)
LEMMA StepsAgree ==
    ASSUME NEW M \in Nat, NEW L \in Nat, L <= M, NEW f, NEW g, NEW a, NEW step,
           Steps(f, L, a, step), Steps(g, M, a, step)
    PROVE  \A k \in 0 .. L : f[k] = g[k]
<1> DEFINE U == {k \in 0 .. L : f[k] = g[k]}
<1>1. 0 \in U
  BY DEF Steps
<1>2. ASSUME NEW n \in 0 .. L - 1, n \in U PROVE n + 1 \in U
  <2>1. n + 1 \in 1 .. L /\ n + 1 \in 1 .. M /\ (n + 1) - 1 = n
    OBVIOUS
  <2>2. f[n + 1] = step[<< n + 1, f[n] >>] /\ g[n + 1] = step[<< n + 1, g[n] >>]
    BY <2>1 DEF Steps
  <2> QED
    BY <1>2, <2>1, <2>2
<1> HIDE DEF U
<1>3. \A n \in 0 .. L : n \in U
  BY <1>1, <1>2, InductionUpTo
<1> QED
  BY <1>3 DEF U

(* The same without an end.                                                *)
StepsForever(g, a, step) ==
    g[0] = a /\ \A k \in Nat \ {0} : g[k] = step[<< k, g[k - 1] >>]

LEMMA EndlessRecursion ==
    ASSUME NEW S, NEW a, a \in S, NEW step, step \in [(Nat \ {0}) \X S -> S]
    PROVE  \E g \in [Nat -> S] : StepsForever(g, a, step)
<1> DEFINE First(n) == CHOOSE g \in [0 .. n -> S] : Steps(g, n, a, step)
           G == [n \in Nat |-> First(n)[n]]
<1>1. ASSUME NEW n \in Nat
      PROVE  First(n) \in [0 .. n -> S] /\ Steps(First(n), n, a, step)
  <2> DEFINE s == [x \in (1 .. n) \X S |-> step[x]]
  <2>1. s \in [(1 .. n) \X S -> S]
    OBVIOUS
  <2>2. \A k \in 1 .. n, y \in S : s[<< k, y >>] = step[<< k, y >>]
    OBVIOUS
  <2> HIDE DEF s
  <2>3. PICK g \in [0 .. n -> S] : Steps(g, n, a, s)
    BY <2>1, RecursionExists
  <2>4. Steps(g, n, a, step)
    <3>1. ASSUME NEW k \in 1 .. n PROVE g[k] = step[<< k, g[k - 1] >>]
      <4>1. g[k - 1] \in S
        OBVIOUS
      <4> QED
        BY <2>2, <2>3, <4>1 DEF Steps
    <3> QED
      BY <2>3, <3>1 DEF Steps
  <2> QED
    BY <2>4
<1> HIDE DEF First
<1>2. G \in [Nat -> S]
  <2>1. ASSUME NEW n \in Nat PROVE First(n)[n] \in S
    <3>1. n \in 0 .. n
      OBVIOUS
    <3> QED
      BY <1>1, <3>1
  <2> QED
    BY <2>1
<1>3. G[0] = a
  BY <1>1 DEF Steps
<1>4. ASSUME NEW k \in Nat \ {0} PROVE G[k] = step[<< k, G[k - 1] >>]
  <2>1. k - 1 \in Nat /\ k - 1 <= k /\ k \in 1 .. k /\ k - 1 \in 0 .. k - 1
    OBVIOUS
  <2>2. Steps(First(k - 1), k - 1, a, step) /\ Steps(First(k), k, a, step)
    BY <1>1, <2>1
  <2>3. First(k - 1)[k - 1] = First(k)[k - 1]
    BY <2>1, <2>2, StepsAgree
  <2>4. First(k)[k] = step[<< k, First(k)[k - 1] >>]
    BY <2>1, <2>2 DEF Steps
  <2> QED
    BY <2>1, <2>3, <2>4
<1> HIDE DEF G
<1> QED
  BY <1>2, <1>3, <1>4 DEF StepsForever

-----------------------------------------------------------------------------
(* A sum over a finite set, as the fold of the community modules computes  *)
(* it: one term after the other, in the order CHOOSE takes them.           *)
Summed(h, S, g) ==
    h = [s \in SUBSET S |-> IF s = {} THEN 0
                            ELSE LET x == CHOOSE x \in s : TRUE IN g[x] + h[s \ {x}]]

LEMMA SumExists ==
    ASSUME NEW S, IsFiniteSet(S), NEW g, g \in [S -> Int]
    PROVE  \E h \in [SUBSET S -> Int] : Summed(h, S, g)
<1> DEFINE One(s) == CHOOSE x \in s : TRUE
           Sub(n) == {s \in SUBSET S : Cardinality(s) <= n}
           Upto(h, n) == \A s \in Sub(n) :
                            h[s] = IF s = {} THEN 0 ELSE g[One(s)] + h[s \ {One(s)}]
           U == {n \in Nat : \E h \in [SUBSET S -> Int] : Upto(h, n)}
<1>1. ASSUME NEW s \in SUBSET S
      PROVE  /\ IsFiniteSet(s) /\ Cardinality(s) \in Nat /\ Cardinality(s) <= Cardinality(S)
             /\ Cardinality(s) = 0 <=> s = {}
  BY FS_Subset, FS_CardinalityType, FS_EmptySet
<1>2. ASSUME NEW s \in SUBSET S, s # {}
      PROVE  /\ One(s) \in S /\ s \ {One(s)} \in SUBSET S
             /\ Cardinality(s \ {One(s)}) = Cardinality(s) - 1
  <2>1. One(s) \in s
    BY <1>2
  <2> HIDE DEF One
  <2> QED
    BY <1>1, <2>1, FS_RemoveElement
<1> HIDE DEF One
<1>3. 0 \in U
  <2> DEFINE h == [s \in SUBSET S |-> 0]
  <2>1. Upto(h, 0)
    BY <1>1
  <2>2. h \in [SUBSET S -> Int]
    OBVIOUS
  <2> HIDE DEF h, Upto
  <2> QED
    BY <2>1, <2>2
<1>4. ASSUME NEW n \in Nat, n \in U PROVE n + 1 \in U
  <2>1. PICK h \in [SUBSET S -> Int] : Upto(h, n)
    BY <1>4
  <2> DEFINE i == [s \in SUBSET S |->
                    IF s = {} THEN 0 ELSE g[One(s)] + h[s \ {One(s)}]]
  <2>2. i \in [SUBSET S -> Int]
    <3>1. ASSUME NEW s \in SUBSET S, s # {} PROVE g[One(s)] + h[s \ {One(s)}] \in Int
      <4>1. g[One(s)] \in Int /\ h[s \ {One(s)}] \in Int
        BY <1>2, <3>1
      <4> QED
        BY <4>1
    <3> QED
      BY <3>1
  <2>3. ASSUME NEW s \in Sub(n) PROVE i[s] = h[s]
    BY <2>1, <2>3
  <2>4. ASSUME NEW s \in Sub(n + 1) PROVE i[s] = IF s = {} THEN 0 ELSE g[One(s)] + i[s \ {One(s)}]
    <3>1. CASE s = {}
      BY <3>1
    <3>2. CASE s # {}
      <4>1. s \ {One(s)} \in Sub(n)
        BY <1>1, <1>2, <3>2
      <4>2. i[s \ {One(s)}] = h[s \ {One(s)}]
        BY <2>3, <4>1
      <4> QED
        BY <3>2, <4>2
    <3> QED
      BY <3>1, <3>2
  <2> HIDE DEF i
  <2>5. Upto(i, n + 1)
    BY <2>4
  <2> HIDE DEF Upto
  <2> QED
    BY <2>2, <2>5
<1> HIDE DEF U
<1>5. Cardinality(S) \in U
  <2>1. Nat \subseteq U
    BY <1>3, <1>4, SetInduction
  <2> QED
    BY <1>1, <2>1
<1>6. PICK h \in [SUBSET S -> Int] : Upto(h, Cardinality(S))
  BY <1>5 DEF U
<1>7. Sub(Cardinality(S)) = SUBSET S
  BY <1>1
<1>8. \A s \in SUBSET S : h[s] = IF s = {} THEN 0 ELSE g[One(s)] + h[s \ {One(s)}]
  BY <1>6, <1>7
<1>9. Summed(h, S, g)
  BY <1>8 DEF Summed, One
<1> QED
  BY <1>9

(* Induction on the subsets of a finite set, for sets of subsets.          *)
LEMMA SubsetInduction ==
    ASSUME NEW S, IsFiniteSet(S), NEW U, {} \in U,
           \A s \in SUBSET S : \A x \in S \ s : s \in U => s \cup {x} \in U
    PROVE  S \in U
<1> DEFINE V == {n \in Nat : \A s \in SUBSET S : Cardinality(s) = n => s \in U}
<1>1. ASSUME NEW s \in SUBSET S
      PROVE  /\ IsFiniteSet(s) /\ Cardinality(s) \in Nat
             /\ Cardinality(s) = 0 <=> s = {}
  BY FS_Subset, FS_CardinalityType, FS_EmptySet
<1>2. 0 \in V
  BY <1>1
<1>3. ASSUME NEW n \in Nat, n \in V PROVE n + 1 \in V
  <2>1. ASSUME NEW s \in SUBSET S, Cardinality(s) = n + 1 PROVE s \in U
    <3>1. s # {}
      BY <1>1, <2>1
    <3>2. PICK x \in s : TRUE
      BY <3>1
    <3>3. s \ {x} \in SUBSET S /\ x \in S \ (s \ {x}) /\ (s \ {x}) \cup {x} = s
      BY <3>2
    <3>4. Cardinality(s \ {x}) = (n + 1) - 1
      <4>1. IsFiniteSet(s)
        BY <1>1
      <4> QED
        BY <2>1, <4>1, FS_RemoveElement
    <3>5. s \ {x} \in U
      BY <1>3, <3>3, <3>4
    <3> QED
      BY <3>3, <3>5
  <2> QED
    BY <2>1
<1> HIDE DEF V
<1>4. Nat \subseteq V
  BY <1>2, <1>3, SetInduction
<1>5. S \in SUBSET S
  OBVIOUS
<1> QED
  BY <1>1, <1>4, <1>5 DEF V

(* Such a function is the only one.                                        *)
LEMMA SummedUnique ==
    ASSUME NEW S, IsFiniteSet(S), NEW g, NEW h, NEW i, Summed(h, S, g), Summed(i, S, g)
    PROVE  h = i
<1> DEFINE One(s) == CHOOSE x \in s : TRUE
           V == {n \in Nat : \A s \in SUBSET S : Cardinality(s) = n => h[s] = i[s]}
<1>1. ASSUME NEW s \in SUBSET S
      PROVE  /\ IsFiniteSet(s) /\ Cardinality(s) \in Nat
             /\ Cardinality(s) = 0 <=> s = {}
  BY FS_Subset, FS_CardinalityType, FS_EmptySet
<1>2. ASSUME NEW s \in SUBSET S, s # {}
      PROVE  /\ h[s] = g[One(s)] + h[s \ {One(s)}] /\ i[s] = g[One(s)] + i[s \ {One(s)}]
             /\ One(s) \in s
  BY <1>2 DEF Summed
<1>3. h[{}] = 0 /\ i[{}] = 0
  <2>1. {} \in SUBSET S
    OBVIOUS
  <2> QED
    BY <2>1 DEF Summed
<1> HIDE DEF One
<1>4. 0 \in V
  BY <1>1, <1>3
<1>5. ASSUME NEW n \in Nat, n \in V PROVE n + 1 \in V
  <2>1. ASSUME NEW s \in SUBSET S, Cardinality(s) = n + 1 PROVE h[s] = i[s]
    <3>1. s # {}
      BY <1>1, <2>1
    <3>2. s \ {One(s)} \in SUBSET S
      OBVIOUS
    <3>3. Cardinality(s \ {One(s)}) = (n + 1) - 1
      <4>1. IsFiniteSet(s) /\ One(s) \in s
        BY <1>1, <1>2, <3>1
      <4> QED
        BY <2>1, <4>1, FS_RemoveElement
    <3>4. h[s \ {One(s)}] = i[s \ {One(s)}]
      BY <1>5, <3>2, <3>3
    <3> QED
      BY <1>2, <3>1, <3>4
  <2> QED
    BY <2>1
<1> HIDE DEF V
<1>6. Nat \subseteq V
  BY <1>4, <1>5, SetInduction
<1>7. \A s \in SUBSET S : h[s] = i[s]
  BY <1>1, <1>6 DEF V
<1>8. /\ h = [s \in SUBSET S |-> h[s]] /\ i = [s \in SUBSET S |-> i[s]]
  BY DEF Summed
<1>9. [s \in SUBSET S |-> h[s]] = [s \in SUBSET S |-> i[s]]
  BY <1>7
<1> QED
  BY <1>8, <1>9, Zenon

(* The terms of a sum are integers.                                        *)
Terms(f, S) == IsFiniteSet(S) /\ \A x \in S : f[x] \in Int

LEMMA SumIsSummed ==
    ASSUME NEW f, NEW S, Terms(f, S)
    PROVE  \E h \in [SUBSET S -> Int] :
              Summed(h, S, f) /\ \A s \in SUBSET S : SumFunctionOnSet(f, s) = h[s]
<1> DEFINE One(s) == CHOOSE x \in s : TRUE
           g == [x \in S |-> f[x]]
<1>1. \A s \in SUBSET S : s # {} => One(s) \in S /\ s \ {One(s)} \in SUBSET S
  OBVIOUS
<1>2. g \in [S -> Int] /\ IsFiniteSet(S)
  BY DEF Terms
<1>3. \A x \in S : g[x] = f[x]
  OBVIOUS
<1> HIDE DEF One, g
<1>4. PICK h \in [SUBSET S -> Int] : Summed(h, S, g)
  BY <1>2, SumExists
<1>5. h = [s \in SUBSET S |-> IF s = {} THEN 0 ELSE g[One(s)] + h[s \ {One(s)}]]
  BY <1>4 DEF Summed, One
<1>6. [s \in SUBSET S |-> IF s = {} THEN 0 ELSE g[One(s)] + h[s \ {One(s)}]]
        = [s \in SUBSET S |-> IF s = {} THEN 0 ELSE f[One(s)] + h[s \ {One(s)}]]
  BY <1>1, <1>3
<1>7. h = [s \in SUBSET S |-> IF s = {} THEN 0 ELSE f[One(s)] + h[s \ {One(s)}]]
  BY <1>5, <1>6
<1>8. Summed(h, S, f)
  BY <1>7 DEF Summed, One
<1>9. ASSUME NEW s \in SUBSET S PROVE SumFunctionOnSet(f, s) = h[s]
  <2> DEFINE i == [t \in SUBSET s |-> h[t]]
             E(j) == j = [t \in SUBSET s |-> IF t = {} THEN 0
                                             ELSE f[One(t)] + j[t \ {One(t)}]]
             w == CHOOSE j : E(j)
  <2>1. i = [t \in SUBSET s |-> IF t = {} THEN 0 ELSE f[One(t)] + i[t \ {One(t)}]]
    <3>1. ASSUME NEW t \in SUBSET s
          PROVE  i[t] = IF t = {} THEN 0 ELSE f[One(t)] + i[t \ {One(t)}]
      <4>1. t \in SUBSET S /\ i[t] = h[t]
        OBVIOUS
      <4>2. h[t] = IF t = {} THEN 0 ELSE f[One(t)] + h[t \ {One(t)}]
        BY <1>7, <4>1
      <4>3. t \ {One(t)} \in SUBSET s
        OBVIOUS
      <4>4. i[t \ {One(t)}] = h[t \ {One(t)}]
        BY <4>3
      <4> QED
        BY <4>1, <4>2, <4>4
    <3> QED
      BY <3>1
  <2>2. E(w)
    <3>1. E(i)
      BY <2>1
    <3> HIDE DEF E
    <3> QED
      BY <3>1
  <2>3. SumFunctionOnSet(f, s) = w[s]
    BY DEF SumFunctionOnSet, FoldFunctionOnSet, MapThenFoldSet, One
  <2> HIDE DEF w, i
  <2>4. Summed(i, s, f)
    BY <2>1 DEF Summed, One
  <2>5. Summed(w, s, f)
    BY <2>2 DEF Summed, One
  <2>6. i = w
    BY <1>2, <2>4, <2>5, SummedUnique, FS_Subset
  <2>7. i[s] = h[s]
    BY DEF i
  <2> QED
    BY <2>3, <2>6, <2>7
<1> QED
  BY <1>8, <1>9

LEMMA SumInt ==
    ASSUME NEW f, NEW S, Terms(f, S)
    PROVE  SumFunctionOnSet(f, S) \in Int
<1>1. PICK h \in [SUBSET S -> Int] :
        Summed(h, S, f) /\ \A s \in SUBSET S : SumFunctionOnSet(f, s) = h[s]
  BY SumIsSummed
<1>2. S \in SUBSET S
  OBVIOUS
<1> QED
  BY <1>1, <1>2

LEMMA SumEmpty == ASSUME NEW f PROVE SumFunctionOnSet(f, {}) = 0
<1>1. Terms(f, {})
  BY FS_EmptySet DEF Terms
<1>2. PICK h \in [SUBSET {} -> Int] :
        Summed(h, {}, f) /\ \A s \in SUBSET {} : SumFunctionOnSet(f, s) = h[s]
  BY <1>1, SumIsSummed
<1>3. {} \in SUBSET {}
  OBVIOUS
<1>4. h[{}] = 0
  BY <1>2, <1>3 DEF Summed
<1> QED
  BY <1>2, <1>3, <1>4

(* Any term may be taken out first.                                        *)
LEMMA SumRemove ==
    ASSUME NEW f, NEW S, Terms(f, S), NEW x \in S
    PROVE  SumFunctionOnSet(f, S) = f[x] + SumFunctionOnSet(f, S \ {x})
<1> DEFINE One(s) == CHOOSE y \in s : TRUE
<1>1. PICK h \in [SUBSET S -> Int] :
        Summed(h, S, f) /\ \A s \in SUBSET S : SumFunctionOnSet(f, s) = h[s]
  BY SumIsSummed
<1>2. ASSUME NEW s \in SUBSET S, s # {}
      PROVE  h[s] = f[One(s)] + h[s \ {One(s)}] /\ One(s) \in s
  BY <1>1, <1>2 DEF Summed
<1> HIDE DEF One
<1> DEFINE V == {n \in Nat : \A s \in SUBSET S : Cardinality(s) = n =>
                                \A y \in s : h[s] = f[y] + h[s \ {y}]}
<1>3. ASSUME NEW s \in SUBSET S
      PROVE  /\ IsFiniteSet(s) /\ Cardinality(s) \in Nat
             /\ Cardinality(s) = 0 <=> s = {}
  BY FS_Subset, FS_CardinalityType, FS_EmptySet DEF Terms
<1>4. 0 \in V
  BY <1>3
<1>5. ASSUME NEW n \in Nat, n \in V PROVE n + 1 \in V
  <2>1. ASSUME NEW s \in SUBSET S, Cardinality(s) = n + 1, NEW y \in s
        PROVE  h[s] = f[y] + h[s \ {y}]
    <3>1. s # {}
      OBVIOUS
    <3> DEFINE z == One(s)
    <3>2. h[s] = f[z] + h[s \ {z}] /\ z \in s
      BY <1>2, <3>1
    <3>3. CASE y = z
      BY <3>2, <3>3
    <3>4. CASE y # z
      <4>1. Cardinality(s \ {z}) = n /\ Cardinality(s \ {y}) = n
        <5>1. /\ Cardinality(s \ {z}) = (n + 1) - 1
              /\ Cardinality(s \ {y}) = (n + 1) - 1
          <6>1. IsFiniteSet(s) /\ Cardinality(s) = n + 1 /\ z \in s /\ y \in s
            BY <1>3, <2>1, <3>2
          <6> HIDE DEF z
          <6>2. Cardinality(s \ {z}) = (n + 1) - 1
            BY <6>1, FS_RemoveElement
          <6>3. Cardinality(s \ {y}) = (n + 1) - 1
            BY <6>1, FS_RemoveElement
          <6> QED
            BY <6>2, <6>3
        <5> QED
          BY <5>1
      <4>2. /\ s \ {z} \in SUBSET S /\ y \in s \ {z}
            /\ s \ {y} \in SUBSET S /\ z \in s \ {y}
            /\ (s \ {z}) \ {y} = (s \ {y}) \ {z} /\ (s \ {y}) \ {z} \in SUBSET S
        BY <3>2, <3>4
      <4>3. h[s \ {z}] = f[y] + h[(s \ {z}) \ {y}]
        BY <1>5, <4>1, <4>2
      <4>4. h[s \ {y}] = f[z] + h[(s \ {y}) \ {z}]
        BY <1>5, <4>1, <4>2
      <4>5. f[y] \in Int /\ f[z] \in Int /\ h[(s \ {y}) \ {z}] \in Int
        <5>1. y \in S /\ z \in S
          BY <3>2
        <5>2. f[y] \in Int /\ f[z] \in Int
          BY <5>1 DEF Terms
        <5>3. h[(s \ {y}) \ {z}] \in Int
          BY <4>2
        <5> QED
          BY <5>2, <5>3
      <4> DEFINE a == h[(s \ {y}) \ {z}]
      <4>6. h[s \ {z}] = f[y] + a /\ h[s \ {y}] = f[z] + a
        BY <4>2, <4>3, <4>4
      <4> HIDE DEF z, a
      <4>7. a \in Int
        BY <4>5 DEF a
      <4> QED
        BY <3>2, <4>5, <4>6, <4>7
    <3> QED
      BY <3>3, <3>4
  <2> QED
    BY <2>1
<1> HIDE DEF V
<1>6. Nat \subseteq V
  BY <1>4, <1>5, SetInduction
<1>7. S \in SUBSET S /\ S \ {x} \in SUBSET S
  OBVIOUS
<1>8. Cardinality(S) \in V
  BY <1>3, <1>6, <1>7
<1>9. h[S] = f[x] + h[S \ {x}]
  BY <1>7, <1>8 DEF V
<1> QED
  BY <1>1, <1>7, <1>9

LEMMA SumAdd ==
    ASSUME NEW f, NEW S, NEW x, x \notin S, Terms(f, S \cup {x})
    PROVE  SumFunctionOnSet(f, S \cup {x}) = f[x] + SumFunctionOnSet(f, S)
<1>1. (S \cup {x}) \ {x} = S /\ x \in S \cup {x}
  OBVIOUS
<1> QED
  BY <1>1, SumRemove

(* Sums of terms that are the same, in any order.                          *)
LEMMA SumSame ==
    ASSUME NEW f, NEW S, Terms(f, S), NEW g, NEW R, Terms(g, R), NEW q \in Int,
           NEW b, \A x \in S : b[x] \in R /\ Same(f[x], g[b[x]], q),
           \A x, y \in S : b[x] = b[y] => x = y,
           \A y \in R : \E x \in S : b[x] = y
    PROVE  Same(SumFunctionOnSet(f, S), SumFunctionOnSet(g, R), q)
<1> DEFINE Image(s) == {b[x] : x \in s}
           U == {s \in SUBSET S : Same(SumFunctionOnSet(f, s), SumFunctionOnSet(g, Image(s)), q)}
<1>1. {} \in U
  <2>1. Image({}) = {}
    OBVIOUS
  <2>2. SumFunctionOnSet(f, {}) = 0 /\ SumFunctionOnSet(g, {}) = 0
    BY SumEmpty
  <2>3. Same(0, 0, q)
    BY SameReflexive
  <2> QED
    BY <2>1, <2>2, <2>3
<1>2. ASSUME NEW s \in SUBSET S, NEW x \in S \ s, s \in U PROVE s \cup {x} \in U
  <2>1. Image(s \cup {x}) = Image(s) \cup {b[x]} /\ b[x] \notin Image(s)
    OBVIOUS
  <2>2. Image(s) \cup {b[x]} \in SUBSET R /\ s \cup {x} \in SUBSET S
    OBVIOUS
  <2>3. Same(SumFunctionOnSet(f, s), SumFunctionOnSet(g, Image(s)), q)
    BY <1>2
  <2> HIDE DEF Image
  <2>4. Terms(f, s \cup {x}) /\ Terms(g, Image(s) \cup {b[x]})
    BY <2>2, FS_Subset DEF Terms
  <2>5. SumFunctionOnSet(f, s \cup {x}) = f[x] + SumFunctionOnSet(f, s)
    BY <2>4, SumAdd
  <2>6. SumFunctionOnSet(g, Image(s) \cup {b[x]}) = g[b[x]] + SumFunctionOnSet(g, Image(s))
    BY <2>1, <2>4, SumAdd
  <2>7. Same(f[x], g[b[x]], q)
    OBVIOUS
  <2>8. Same(f[x] + SumFunctionOnSet(f, s), g[b[x]] + SumFunctionOnSet(g, Image(s)), q)
    BY <2>3, <2>7, SameAdd
  <2>9. Same(SumFunctionOnSet(f, s \cup {x}), SumFunctionOnSet(g, Image(s \cup {x})), q)
    BY <2>1, <2>5, <2>6, <2>8
  <2> QED
    BY <2>2, <2>9
<1>3. Image(S) = R
  OBVIOUS
<1> HIDE DEF U, Image
<1>4. S \in U
  BY <1>1, <1>2, SubsetInduction DEF Terms
<1> QED
  BY <1>3, <1>4 DEF U

LEMMA SumCongruent ==
    ASSUME NEW f, NEW g, NEW S, Terms(f, S), Terms(g, S), NEW q \in Int,
           \A x \in S : Same(f[x], g[x], q)
    PROVE  Same(SumFunctionOnSet(f, S), SumFunctionOnSet(g, S), q)
<1> DEFINE b == [x \in S |-> x]
<1>1. \A x \in S : b[x] = x
  OBVIOUS
<1> HIDE DEF b
<1> QED
  BY <1>1, SumSame

LEMMA SumEqual ==
    ASSUME NEW f, NEW g, NEW S, Terms(f, S), \A x \in S : f[x] = g[x]
    PROVE  SumFunctionOnSet(f, S) = SumFunctionOnSet(g, S)
<1>1. Terms(g, S)
  BY DEF Terms
<1>2. \A x \in S : Same(f[x], g[x], 0)
  BY SameReflexive DEF Terms
<1>3. Same(SumFunctionOnSet(f, S), SumFunctionOnSet(g, S), 0)
  BY <1>1, <1>2, SumCongruent
<1> QED
  BY <1>3 DEF Same

LEMMA SumZero ==
    ASSUME NEW f, NEW S, IsFiniteSet(S), \A x \in S : f[x] = 0
    PROVE  SumFunctionOnSet(f, S) = 0
<1> DEFINE U == {s \in SUBSET S : SumFunctionOnSet(f, s) = 0}
<1>1. {} \in U
  BY SumEmpty
<1>2. ASSUME NEW s \in SUBSET S, NEW x \in S \ s, s \in U PROVE s \cup {x} \in U
  <2>1. s \cup {x} \in SUBSET S
    OBVIOUS
  <2>2. Terms(f, s \cup {x})
    BY <2>1, FS_Subset DEF Terms
  <2>3. SumFunctionOnSet(f, s \cup {x}) = f[x] + SumFunctionOnSet(f, s)
    BY <2>2, SumAdd
  <2> QED
    BY <1>2, <2>1, <2>3
<1> HIDE DEF U
<1>3. S \in U
  BY <1>1, <1>2, SubsetInduction
<1> QED
  BY <1>3 DEF U

(* All terms but one are zero.                                             *)
LEMMA SumOnly ==
    ASSUME NEW f, NEW S, Terms(f, S), NEW x \in S, \A y \in S : y # x => f[y] = 0
    PROVE  SumFunctionOnSet(f, S) = f[x]
<1>1. SumFunctionOnSet(f, S) = f[x] + SumFunctionOnSet(f, S \ {x})
  BY SumRemove
<1>2. IsFiniteSet(S \ {x})
  BY FS_RemoveElement DEF Terms
<1>3. SumFunctionOnSet(f, S \ {x}) = 0
  BY <1>2, SumZero
<1>4. f[x] \in Int
  BY DEF Terms
<1> QED
  BY <1>1, <1>3, <1>4

LEMMA SumPlus ==
    ASSUME NEW f, NEW g, NEW h, NEW S, Terms(f, S), Terms(g, S),
           \A x \in S : h[x] = f[x] + g[x]
    PROVE  SumFunctionOnSet(h, S) = SumFunctionOnSet(f, S) + SumFunctionOnSet(g, S)
<1> DEFINE U == {s \in SUBSET S : SumFunctionOnSet(h, s)
                                    = SumFunctionOnSet(f, s) + SumFunctionOnSet(g, s)}
<1>1. {} \in U
  <2>1. SumFunctionOnSet(f, {}) = 0 /\ SumFunctionOnSet(g, {}) = 0 /\ SumFunctionOnSet(h, {}) = 0
    BY SumEmpty
  <2> QED
    BY <2>1
<1>2. ASSUME NEW s \in SUBSET S, NEW x \in S \ s, s \in U PROVE s \cup {x} \in U
  <2>1. s \cup {x} \in SUBSET S /\ s \in SUBSET S
    OBVIOUS
  <2>2. /\ Terms(f, s \cup {x}) /\ Terms(g, s \cup {x}) /\ Terms(f, s) /\ Terms(g, s)
    BY <2>1, FS_Subset DEF Terms
  <2>3. Terms(h, s \cup {x})
    <3>1. ASSUME NEW y \in s \cup {x} PROVE h[y] \in Int
      <4>1. f[y] \in Int /\ g[y] \in Int /\ h[y] = f[y] + g[y]
        BY <2>1 DEF Terms
      <4> QED
        BY <4>1
    <3> QED
      BY <2>2, <3>1 DEF Terms
  <2> DEFINE F == SumFunctionOnSet(f, s)
             G == SumFunctionOnSet(g, s)
             H == SumFunctionOnSet(h, s)
  <2>4. /\ SumFunctionOnSet(f, s \cup {x}) = f[x] + F
        /\ SumFunctionOnSet(g, s \cup {x}) = g[x] + G
        /\ SumFunctionOnSet(h, s \cup {x}) = h[x] + H
    BY <2>2, <2>3, SumAdd
  <2>5. H = F + G
    BY <1>2
  <2>6. F \in Int /\ G \in Int /\ f[x] \in Int /\ g[x] \in Int /\ h[x] = f[x] + g[x]
    BY <2>2, SumInt DEF Terms
  <2> HIDE DEF F, G, H
  <2>7. h[x] + H = (f[x] + F) + (g[x] + G)
    BY <2>5, <2>6
  <2> QED
    BY <2>1, <2>4, <2>7
<1> HIDE DEF U
<1>3. S \in U
  BY <1>1, <1>2, SubsetInduction DEF Terms
<1> QED
  BY <1>3 DEF U

(* A constant factor. *)
LEMMA SumScaled ==
    ASSUME NEW f, NEW h, NEW S, Terms(f, S), NEW c \in Int, \A x \in S : h[x] = c * f[x]
    PROVE  SumFunctionOnSet(h, S) = c * SumFunctionOnSet(f, S)
<1> DEFINE U == {s \in SUBSET S : SumFunctionOnSet(h, s) = c * SumFunctionOnSet(f, s)}
<1>1. {} \in U
  <2>1. SumFunctionOnSet(f, {}) = 0 /\ SumFunctionOnSet(h, {}) = 0 /\ c * 0 = 0
    BY SumEmpty
  <2> QED
    BY <2>1
<1>2. ASSUME NEW s \in SUBSET S, NEW x \in S \ s, s \in U PROVE s \cup {x} \in U
  <2>1. s \cup {x} \in SUBSET S /\ s \in SUBSET S
    OBVIOUS
  <2>2. Terms(f, s \cup {x}) /\ Terms(f, s)
    BY <2>1, FS_Subset DEF Terms
  <2>3. Terms(h, s \cup {x})
    <3>1. ASSUME NEW y \in s \cup {x} PROVE h[y] \in Int
      <4>1. f[y] \in Int /\ h[y] = c * f[y]
        BY <2>1 DEF Terms
      <4> QED
        BY <4>1
    <3> QED
      BY <2>2, <3>1 DEF Terms
  <2> DEFINE F == SumFunctionOnSet(f, s)
             H == SumFunctionOnSet(h, s)
  <2>4. /\ SumFunctionOnSet(f, s \cup {x}) = f[x] + F
        /\ SumFunctionOnSet(h, s \cup {x}) = h[x] + H
    BY <2>2, <2>3, SumAdd
  <2>5. H = c * F
    BY <1>2
  <2>6. F \in Int /\ f[x] \in Int /\ h[x] = c * f[x]
    BY <2>2, SumInt DEF Terms
  <2> HIDE DEF F, H
  <2>7. h[x] + H = c * (f[x] + F)
    BY <2>5, <2>6, Distributes
  <2> QED
    BY <2>1, <2>4, <2>7
<1> HIDE DEF U
<1>3. S \in U
  BY <1>1, <1>2, SubsetInduction DEF Terms
<1> QED
  BY <1>3 DEF U

(* Rows and columns: h[x][y] = v[y][x] is summed by rows or by columns.    *)
LEMMA SumSwap ==
    ASSUME NEW S, NEW R, IsFiniteSet(S), IsFiniteSet(R), NEW h, NEW v,
           \A x \in S, y \in R : h[x][y] \in Int /\ v[y][x] = h[x][y],
           NEW f, \A x \in S : f[x] = SumFunctionOnSet(h[x], R),
           NEW g, \A y \in R : g[y] = SumFunctionOnSet(v[y], S)
    PROVE  SumFunctionOnSet(f, S) = SumFunctionOnSet(g, R)
<1> DEFINE col(s) == [y \in R |-> SumFunctionOnSet(v[y], s)]
           U == {s \in SUBSET S : SumFunctionOnSet(f, s) = SumFunctionOnSet(col(s), R)}
<1>1. ASSUME NEW s \in SUBSET S, NEW y \in R PROVE Terms(v[y], s)
  BY FS_Subset DEF Terms
<1>2. ASSUME NEW x \in S PROVE Terms(h[x], R) /\ f[x] \in Int
  <2>1. Terms(h[x], R)
    BY DEF Terms
  <2> QED
    BY <2>1, SumInt
<1>3. ASSUME NEW s \in SUBSET S
      PROVE  Terms(col(s), R) /\ Terms(f, s)
  <2>1. ASSUME NEW y \in R PROVE col(s)[y] \in Int
    <3>1. SumFunctionOnSet(v[y], s) \in Int
      BY <1>1, SumInt
    <3> QED
      BY <3>1
  <2>2. IsFiniteSet(s)
    BY FS_Subset
  <2>3. \A x \in s : f[x] \in Int
    BY <1>2
  <2>4. \A y \in R : col(s)[y] \in Int
    BY <2>1
  <2> QED
    BY <2>2, <2>3, <2>4 DEF Terms
<1>4. {} \in U
  <2>1. \A y \in R : col({})[y] = 0
    BY SumEmpty
  <2> HIDE DEF col
  <2>2. SumFunctionOnSet(col({}), R) = 0
    BY <2>1, SumZero
  <2>3. SumFunctionOnSet(f, {}) = 0
    BY SumEmpty
  <2> QED
    BY <2>2, <2>3
<1>5. ASSUME NEW s \in SUBSET S, NEW x \in S \ s, s \in U PROVE s \cup {x} \in U
  <2>1. s \cup {x} \in SUBSET S /\ x \in S
    OBVIOUS
  <2>2. SumFunctionOnSet(f, s \cup {x}) = f[x] + SumFunctionOnSet(f, s)
    <3>1. Terms(f, s \cup {x}) /\ x \notin s
      BY <1>3, <2>1
    <3> QED
      BY <3>1, SumAdd
  <2>3. ASSUME NEW y \in R PROVE col(s \cup {x})[y] = h[x][y] + col(s)[y]
    <3>1. Terms(v[y], s \cup {x}) /\ x \notin s
      BY <1>1, <2>1
    <3>2. SumFunctionOnSet(v[y], s \cup {x}) = v[y][x] + SumFunctionOnSet(v[y], s)
      BY <3>1, SumAdd
    <3> QED
      BY <3>2
  <2>4. Terms(h[x], R) /\ Terms(col(s), R)
    BY <1>2, <1>3, <2>1
  <2> DEFINE A == col(s \cup {x})
             C == col(s)
             E == h[x]
  <2>5. SumFunctionOnSet(A, R) = SumFunctionOnSet(E, R) + SumFunctionOnSet(C, R)
    <3>1. \A y \in R : A[y] = E[y] + C[y]
      BY <2>3
    <3>2. Terms(E, R) /\ Terms(C, R)
      BY <2>4
    <3> HIDE DEF A, C, E
    <3> QED
      BY <3>1, <3>2, SumPlus
  <2>6. f[x] = SumFunctionOnSet(h[x], R)
    BY <2>1
  <2>7. SumFunctionOnSet(f, s) = SumFunctionOnSet(col(s), R)
    BY <1>5
  <2> QED
    BY <2>1, <2>2, <2>5, <2>6, <2>7
<1>6. S \in U
  <2> HIDE DEF U
  <2> QED
    BY <1>4, <1>5, SubsetInduction
<1>7. SumFunctionOnSet(f, S) = SumFunctionOnSet(col(S), R)
  BY <1>6
<1>8. \A y \in R : col(S)[y] = g[y]
  OBVIOUS
<1>9. Terms(col(S), R)
  BY <1>3
<1> HIDE DEF col
<1>10. SumFunctionOnSet(col(S), R) = SumFunctionOnSet(g, R)
  BY <1>8, <1>9, SumEqual
<1> QED
  BY <1>7, <1>10

(* A sum over two disjoint sets.                                           *)
LEMMA SumUnion ==
    ASSUME NEW f, NEW S, NEW R, Terms(f, S \cup R), S \cap R = {}
    PROVE  SumFunctionOnSet(f, S \cup R) = SumFunctionOnSet(f, S) + SumFunctionOnSet(f, R)
<1>1. ASSUME NEW r \in SUBSET R PROVE Terms(f, S \cup r) /\ Terms(f, r)
  <2>1. S \cup r \in SUBSET (S \cup R) /\ r \in SUBSET (S \cup R)
    OBVIOUS
  <2> QED
    BY <2>1, FS_Subset DEF Terms
<1> DEFINE U == {r \in SUBSET R : SumFunctionOnSet(f, S \cup r)
                                    = SumFunctionOnSet(f, S) + SumFunctionOnSet(f, r)}
<1>2. Terms(f, S) /\ IsFiniteSet(R) /\ SumFunctionOnSet(f, S) \in Int
  <2>1. S \in SUBSET (S \cup R) /\ R \in SUBSET (S \cup R)
    OBVIOUS
  <2>2. Terms(f, S) /\ IsFiniteSet(R)
    BY <2>1, FS_Subset DEF Terms
  <2> QED
    BY <2>2, SumInt
<1>3. {} \in U
  <2>1. S \cup {} = S
    OBVIOUS
  <2> QED
    BY <1>2, <2>1, SumEmpty
<1>4. ASSUME NEW r \in SUBSET R, NEW x \in R \ r, r \in U PROVE r \cup {x} \in U
  <2>1. r \cup {x} \in SUBSET R /\ S \cup (r \cup {x}) = (S \cup r) \cup {x} /\ x \notin S \cup r
    OBVIOUS
  <2> DEFINE A == SumFunctionOnSet(f, S)
             B == SumFunctionOnSet(f, r)
             C == SumFunctionOnSet(f, S \cup r)
  <2>2. SumFunctionOnSet(f, S \cup (r \cup {x})) = f[x] + C
    BY <1>1, <2>1, SumAdd
  <2>3. SumFunctionOnSet(f, r \cup {x}) = f[x] + B
    BY <1>1, <2>1, SumAdd
  <2>4. C = A + B
    BY <1>4
  <2>5. A \in Int /\ B \in Int /\ f[x] \in Int
    BY <1>1, <1>2, <2>1, SumInt DEF Terms
  <2> HIDE DEF A, B, C
  <2>6. f[x] + C = A + (f[x] + B)
    BY <2>4, <2>5
  <2> QED
    BY <2>1, <2>2, <2>3, <2>6 DEF A
<1> HIDE DEF U
<1>5. R \in U
  BY <1>2, <1>3, <1>4, SubsetInduction
<1> QED
  BY <1>5 DEF U

-----------------------------------------------------------------------------
(* Powers, primes, and Fermat's theorem. *)

(* A set of natural numbers has a least element. *)
LEMMA LeastElement ==
    ASSUME NEW S \in SUBSET Nat, S # {}
    PROVE  \E n \in S : \A m \in S : n <= m
<1> SUFFICES ASSUME \A n \in S : \E m \in S : m < n
             PROVE  FALSE
  OBVIOUS
<1> DEFINE V == {n \in Nat : \A m \in 0 .. n : m \notin S}
<1>1. 0 \in V
  OBVIOUS
<1>2. ASSUME NEW n \in Nat, n \in V PROVE n + 1 \in V
  <2>1. n + 1 \notin S
    BY <1>2
  <2> QED
    BY <1>2, <2>1
<1> HIDE DEF V
<1>3. Nat \subseteq V
  BY <1>1, <1>2, SetInduction
<1>4. PICK m \in S : TRUE
  OBVIOUS
<1>5. m \in Nat /\ m \in 0 .. m
  OBVIOUS
<1> QED
  BY <1>3, <1>4, <1>5 DEF V

(* g[k] is the k-th power of a. *)
PowersOf(g, a) ==
    g \in [Nat -> Int] /\ g[0] = 1 /\ \A k \in Nat : g[k + 1] = a * g[k]

LEMMA PowersExist == ASSUME NEW a \in Int PROVE \E g : PowersOf(g, a)
<1> DEFINE step == [c \in (Nat \ {0}) \X Int |-> a * c[2]]
<1>1. step \in [(Nat \ {0}) \X Int -> Int]
  OBVIOUS
<1>2. \A k \in Nat \ {0}, x \in Int : step[<< k, x >>] = a * x
  OBVIOUS
<1> HIDE DEF step
<1>3. 1 \in Int
  OBVIOUS
<1>4. PICK g \in [Nat -> Int] : StepsForever(g, 1, step)
  BY <1>1, <1>3, EndlessRecursion
<1>5. ASSUME NEW k \in Nat PROVE g[k + 1] = a * g[k]
  <2>1. k + 1 \in Nat \ {0} /\ (k + 1) - 1 = k /\ g[k] \in Int
    OBVIOUS
  <2>2. g[k + 1] = step[<< k + 1, g[(k + 1) - 1] >>]
    BY <1>4, <2>1 DEF StepsForever
  <2> QED
    BY <1>2, <2>1, <2>2
<1>6. g[0] = 1
  BY <1>4 DEF StepsForever
<1> QED
  BY <1>5, <1>6 DEF PowersOf

LEMMA PowersAdd ==
    ASSUME NEW a \in Int, NEW g, PowersOf(g, a), NEW i \in Nat, NEW j \in Nat
    PROVE  g[i + j] = g[i] * g[j]
<1> DEFINE V == {k \in Nat : g[i + k] = g[i] * g[k]}
<1>1. 0 \in V
  <2>1. i + 0 = i /\ g[i] \in Int /\ g[0] = 1 /\ g[i] * 1 = g[i]
    BY DEF PowersOf
  <2> QED
    BY <2>1
<1>2. ASSUME NEW k \in Nat, k \in V PROVE k + 1 \in V
  <2>1. g[i + k] = g[i] * g[k] /\ i + (k + 1) = (i + k) + 1 /\ i + k \in Nat
    BY <1>2
  <2>2. g[(i + k) + 1] = a * g[i + k] /\ g[k + 1] = a * g[k] /\ g[i] \in Int /\ g[k] \in Int
    BY <2>1 DEF PowersOf
  <2> DEFINE x == g[i]
             y == g[k]
  <2> HIDE DEF x, y
  <2>3. a * (x * y) = x * (a * y)
    <3>1. x \in Int /\ y \in Int
      BY <2>2 DEF x, y
    <3> QED
      BY <3>1
  <2>4. g[i + (k + 1)] = g[i] * g[k + 1]
    BY <2>1, <2>2, <2>3 DEF x, y
  <2> QED
    BY <2>4
<1> HIDE DEF V
<1>3. Nat \subseteq V
  BY <1>1, <1>2, SetInduction
<1> QED
  BY <1>3 DEF V

(* h[s] is the product of the numbers in s. *)
ProductsOf(h, S) ==
    /\ h \in [SUBSET S -> Int] /\ h[{}] = 1
    /\ \A s \in SUBSET S, x \in S : x \in s => h[s] = x * h[s \ {x}]

LEMMA ProductsExist ==
    ASSUME NEW S \in SUBSET Int, IsFiniteSet(S)
    PROVE  \E h : ProductsOf(h, S)
<1> DEFINE One(s) == CHOOSE x \in s : TRUE
           Sub(n) == {s \in SUBSET S : Cardinality(s) <= n}
           Upto(h, n) == /\ h \in [SUBSET S -> Int] /\ h[{}] = 1
                         /\ \A s \in Sub(n) : \A x \in s : h[s] = x * h[s \ {x}]
           U == {n \in Nat : \E h : Upto(h, n)}
<1>1. ASSUME NEW s \in SUBSET S
      PROVE  /\ IsFiniteSet(s) /\ Cardinality(s) \in Nat /\ Cardinality(s) <= Cardinality(S)
             /\ Cardinality(s) = 0 <=> s = {}
  BY FS_Subset, FS_CardinalityType, FS_EmptySet
<1>2. ASSUME NEW s \in SUBSET S, NEW x \in s
      PROVE  /\ One(s) \in s /\ s # {} /\ s \ {x} \in SUBSET S
             /\ Cardinality(s \ {x}) = Cardinality(s) - 1
  <2>1. One(s) \in s
    OBVIOUS
  <2> HIDE DEF One
  <2> QED
    BY <1>1, <2>1, FS_RemoveElement
<1> HIDE DEF One
<1>3. 0 \in U
  <2> DEFINE h == [s \in SUBSET S |-> 1]
  <2>1. \A s \in Sub(0) : s = {}
    BY <1>1
  <2> HIDE DEF Sub
  <2>2. Upto(h, 0)
    BY <2>1
  <2> QED
    BY <2>2
<1>4. ASSUME NEW n \in Nat, n \in U PROVE n + 1 \in U
  <2>1. PICK h : Upto(h, n)
    BY <1>4
  <2> DEFINE i == [s \in SUBSET S |-> IF s = {} THEN 1 ELSE One(s) * h[s \ {One(s)}]]
  <2>2. ASSUME NEW s \in SUBSET S PROVE h[s] \in Int
    BY <2>1
  <2>3. i \in [SUBSET S -> Int] /\ i[{}] = 1
    <3>1. ASSUME NEW s \in SUBSET S, s # {} PROVE One(s) * h[s \ {One(s)}] \in Int
      <4>1. PICK x \in s : TRUE
        BY <3>1
      <4>2. One(s) \in Int /\ s \ {One(s)} \in SUBSET S
        BY <1>2, <4>1
      <4>3. h[s \ {One(s)}] \in Int
        BY <2>2, <4>2
      <4> QED
        BY <4>2, <4>3
    <3> QED
      BY <3>1
  <2>4. ASSUME NEW s \in Sub(n) PROVE i[s] = h[s]
    <3>1. CASE s = {}
      BY <2>1, <3>1
    <3>2. CASE s # {}
      <4>1. One(s) \in s
        BY <1>2, <3>2
      <4>2. h[s] = One(s) * h[s \ {One(s)}]
        BY <2>1, <4>1
      <4> QED
        BY <3>2, <4>2
    <3> QED
      BY <3>1, <3>2
  <2>5. ASSUME NEW s \in Sub(n + 1), NEW x \in s PROVE i[s] = x * i[s \ {x}]
    <3> DEFINE o == One(s)
               r == s \ {x, o}
    <3>1. o \in s /\ s # {} /\ s \in SUBSET S
      BY <1>2
    <3>2. i[s] = o * h[s \ {o}]
      BY <3>1
    <3>3. s \ {x} \in Sub(n) /\ s \ {o} \in Sub(n)
      <4>1. ASSUME NEW y \in s PROVE s \ {y} \in Sub(n)
        <5>1. Cardinality(s \ {y}) = Cardinality(s) - 1 /\ Cardinality(s) \in Nat
          BY <1>1, <1>2, <3>1
        <5>2. Cardinality(s) <= n + 1 /\ s \ {y} \in SUBSET S
          BY <3>1
        <5> QED
          BY <5>1, <5>2
      <4> HIDE DEF Sub, o
      <4> QED
        BY <3>1, <4>1
    <3>4. i[s \ {x}] = h[s \ {x}]
      BY <2>4, <3>3
    <3>5. CASE x = o
      BY <3>2, <3>4, <3>5
    <3>6. CASE x # o
      <4>1. /\ o \in s \ {x} /\ x \in s \ {o}
            /\ (s \ {x}) \ {o} = r /\ (s \ {o}) \ {x} = r
        BY <3>1, <3>6
      <4> HIDE DEF o, r, Sub, i
      <4>2. h[s \ {x}] = o * h[r] /\ h[s \ {o}] = x * h[r]
        BY <2>1, <3>3, <4>1
      <4>3. x \in Int /\ o \in Int /\ h[r] \in Int
        <5>1. r \in SUBSET S
          BY <3>1 DEF r
        <5> QED
          BY <2>2, <3>1, <5>1
      <4> DEFINE y == h[r]
      <4> HIDE DEF y
      <4>4. o * (x * y) = x * (o * y)
        BY <4>3 DEF y
      <4> QED
        BY <3>2, <3>4, <4>2, <4>4 DEF y
    <3> QED
      BY <3>5, <3>6
  <2> HIDE DEF i, Sub
  <2>6. Upto(i, n + 1)
    BY <2>3, <2>5
  <2> HIDE DEF Upto
  <2> QED
    BY <2>6
<1> HIDE DEF U
<1>5. Cardinality(S) \in U
  <2>1. Nat \subseteq U
    BY <1>3, <1>4, SetInduction
  <2> QED
    BY <1>1, <2>1
<1>6. PICK h : Upto(h, Cardinality(S))
  BY <1>5 DEF U
<1>7. Sub(Cardinality(S)) = SUBSET S
  BY <1>1
<1> HIDE DEF Sub
<1>8. ProductsOf(h, S)
  BY <1>6, <1>7 DEF ProductsOf
<1> QED
  BY <1>8

(* No number from 2 up to the root of p divides it. *)
NoDivisor(p) == p \in Nat /\ p >= 2 /\ \A d \in 2 .. p - 1 : d * d > p \/ p % d # 0

(* Euclid: a prime divides no product of smaller numbers. *)
LEMMA Euclid ==
    ASSUME NEW p, NoDivisor(p), NEW a \in 1 .. p - 1, NEW b \in 1 .. p - 1
    PROVE  (a * b) % p # 0
<1>1. p \in Nat \ {0} /\ p >= 2 /\ b \in Nat \ {0}
  BY DEF NoDivisor
<1> DEFINE S == {c \in 1 .. p - 1 : (c * b) % p = 0}
<1> SUFFICES ASSUME S # {}
             PROVE  FALSE
  OBVIOUS
<1>2. PICK c \in S : \A d \in S : c <= d
  <2>1. S \in SUBSET Nat
    BY <1>1
  <2> HIDE DEF S
  <2> QED
    BY <2>1, LeastElement
<1>3. c \in Nat \ {0} /\ c < p /\ (c * b) % p = 0
  BY <1>1, <1>2
<1> DEFINE q == p \div c
           r == p % c
<1>4. q \in Int /\ r \in Int /\ 0 <= r /\ r < c /\ p = q * c + r
  BY <1>1, <1>3, Remainder
<1>5. CASE r # 0
  <2> HIDE DEF q, r
  <2>1. r \in 1 .. p - 1
    BY <1>1, <1>3, <1>4, <1>5
  <2>2. Same(c * b, 0, p)
    <3>1. c * b \in Int
      BY <1>1, <1>3
    <3>2. Same((c * b) % p, c * b, p)
      BY <1>1, <3>1, SameMod
    <3> QED
      BY <1>1, <1>3, <3>2, SameSymmetric
  <2>3. r * b = p * b - q * (c * b)
    BY <1>1, <1>3, <1>4
  <2>4. (r * b) % p = 0
    <3> DEFINE y == c * b
    <3>1. PICK k \in Int : y = 0 + k * p
      BY <2>2 DEF Same
    <3>2. y \in Int
      BY <1>1, <1>3
    <3> HIDE DEF y
    <3>3. r * b = (b - q * k) * p
      <4>1. r * b = p * b - q * y
        BY <2>3 DEF y
      <4>2. q * y = (q * k) * p
        BY <1>1, <1>4, <3>1
      <4>3. (b - q * k) * p = p * b - (q * k) * p
        BY <1>1, <1>4
      <4> QED
        BY <4>1, <4>2, <4>3
    <3> DEFINE l == b - q * k
               z == r * b
    <3>4. l \in Int /\ z \in Int /\ z = l * p
      BY <1>1, <1>4, <3>3
    <3> HIDE DEF l, z
    <3>5. z % p = 0
      BY <1>1, <3>4, MultipleRemainder
    <3> QED
      BY <3>5 DEF z
  <2>5. r \in S
    BY <2>1, <2>4
  <2> HIDE DEF S
  <2> QED
    BY <1>2, <1>3, <1>4, <2>5
<1>6. CASE r = 0
  <2>1. p = q * c
    BY <1>3, <1>4, <1>6
  <2>2. CASE c = 1
    <3>1. b % p = 0
      BY <1>1, <1>3, <2>2
    <3>2. b < p /\ 0 <= b
      BY <1>1
    <3>3. b % p = b
      <4>1. b = 0 * p + b
        BY <1>1
      <4> QED
        BY <1>1, <3>2, <4>1, RemainderUnique
    <3> QED
      BY <1>1, <3>1, <3>3
  <2>3. CASE c >= 2
    <3>1. c \in 2 .. p - 1 /\ c * c > p
      <4>1. c \in 2 .. p - 1 /\ p % c = 0
        BY <1>1, <1>3, <1>6, <2>3
      <4>2. c * c > p \/ p % c # 0
        BY <4>1 DEF NoDivisor
      <4> QED
        BY <4>1, <4>2
    <3> HIDE DEF q, r
    <3>2. q < c
      <4>1. (c - q) * c > 0
        BY <1>3, <1>4, <2>1, <3>1
      <4>2. c - q >= 1
        BY <1>3, <1>4, <4>1, Positive
      <4> QED
        BY <1>3, <1>4, <4>2
    <3>3. q >= 2
      <4>1. (q - 1) * c > 0
        BY <1>1, <1>3, <1>4, <2>1
      <4>2. q - 1 >= 1
        BY <1>3, <1>4, <4>1, Positive
      <4> QED
        BY <1>4, <4>2
    <3>4. q * q < p
      <4>1. q * (c - q) > 0
        BY <1>3, <1>4, <3>2, <3>3
      <4>2. q * (c - q) = q * c - q * q
        BY <1>3, <1>4
      <4> QED
        BY <1>4, <2>1, <4>1, <4>2
    <3>5. p % q = 0
      <4>1. p = c * q /\ q \in Nat \ {0}
        BY <1>3, <1>4, <2>1, <3>3
      <4> QED
        BY <1>1, <1>3, <4>1, MultipleRemainder
    <3>6. q \in 2 .. p - 1
      BY <1>1, <1>3, <1>4, <3>2, <3>3
    <3>7. q * q > p \/ p % q # 0
      BY <3>6 DEF NoDivisor
    <3>8. q * q \in Int
      BY <1>4
    <3> QED
      BY <1>1, <3>4, <3>5, <3>7, <3>8
  <2> QED
    BY <1>3, <2>2, <2>3
<1> QED
  BY <1>5, <1>6

(* Nor a product of any numbers it does not divide. *)
LEMMA EuclidAny ==
    ASSUME NEW p, NoDivisor(p), NEW u \in Int, NEW v \in Int, u % p # 0, v % p # 0
    PROVE  (u * v) % p # 0
<1> DEFINE a == u % p
           b == v % p
<1>1. p \in Nat \ {0}
  BY DEF NoDivisor
<1>2. a \in 1 .. p - 1 /\ b \in 1 .. p - 1
  BY <1>1, Remainder
<1>3. Same(a, u, p) /\ Same(b, v, p)
  BY <1>1, SameMod
<1> HIDE DEF a, b
<1>4. (a * b) % p # 0
  BY <1>2, Euclid
<1>5. Same(a * b, u * v, p)
  BY <1>1, <1>3, SameTimes
<1>6. (a * b) % p = (u * v) % p
  BY <1>1, <1>5, SameEqual
<1> QED
  BY <1>4, <1>6

(* A factor that a prime does not divide may be cancelled. *)
LEMMA Cancel ==
    ASSUME NEW p, NoDivisor(p), NEW u \in Int, u % p # 0,
           NEW x \in Int, NEW y \in Int, Same(u * x, u * y, p)
    PROVE  x % p = y % p
<1> DEFINE d == x - y
<1>1. p \in Nat \ {0} /\ d \in Int /\ u * d = u * x - u * y
  BY DEF NoDivisor
<1>2. PICK k \in Int : u * x = u * y + k * p
  BY DEF Same
<1>3. u * d = k * p
  <2>1. u * x \in Int /\ u * y \in Int /\ k * p \in Int
    BY <1>1
  <2> QED
    BY <1>1, <1>2, <2>1
<1> HIDE DEF d
<1> DEFINE w == u * d
<1>4. w \in Int /\ w = k * p
  BY <1>1, <1>3
<1> HIDE DEF w
<1>5. w % p = 0
  BY <1>1, <1>4, MultipleRemainder
<1>6. d % p = 0
  BY <1>1, <1>5, EuclidAny DEF w
<1> DEFINE e == d \div p
<1>7. e \in Int /\ d = e * p
  <2>1. e \in Int /\ d = e * p + (d % p)
    BY <1>1, Remainder
  <2> HIDE DEF e
  <2> QED
    BY <1>1, <1>6, <2>1
<1> HIDE DEF e
<1>8. x = y + e * p
  <2>1. e * p \in Int /\ x = d + y
    BY <1>1, <1>7 DEF d
  <2> QED
    BY <1>7, <2>1
<1>9. Same(x, y, p)
  BY <1>7, <1>8 DEF Same
<1> QED
  BY <1>1, <1>9, SameEqual

(* Fermat's theorem. *)
LEMMA Fermat ==
    ASSUME NEW p, NoDivisor(p), NEW a \in 1 .. p - 1, NEW g, PowersOf(g, a)
    PROVE  g[p - 1] % p = 1
<1> DEFINE S == 1 .. p - 1
           b == [x \in S |-> (a * x) % p]
           Img(s) == {b[x] : x \in s}
<1>1. p \in Nat \ {0} /\ p >= 2 /\ p - 1 \in Nat /\ a \in Int
  BY DEF NoDivisor
<1>2. S \in SUBSET Int /\ IsFiniteSet(S) /\ Cardinality(S) = p - 1
  BY <1>1, FS_Interval
<1>3. PICK h : ProductsOf(h, S)
  BY <1>2, ProductsExist
<1>4. ASSUME NEW x \in S PROVE x \in Int /\ b[x] \in S /\ Same(b[x], a * x, p)
  <2>1. b[x] = (a * x) % p /\ x \in Int /\ a * x \in Int
    BY <1>1
  <2>2. b[x] # 0
    BY <2>1, Euclid
  <2>3. b[x] \in Int /\ 0 <= b[x] /\ b[x] < p
    <3> DEFINE y == a * x
    <3>1. y \in Int /\ b[x] = y % p
      BY <2>1
    <3> HIDE DEF y, b
    <3> QED
      BY <1>1, <3>1, Remainder
  <2>4. Same(b[x], a * x, p)
    <3> HIDE DEF b
    <3> QED
      BY <1>1, <2>1, SameMod
  <2> QED
    BY <1>1, <2>1, <2>2, <2>3, <2>4
<1>5. b \in [S -> S]
  BY <1>4
<1> HIDE DEF b
<1>6. ASSUME NEW x \in S, NEW y \in S, b[x] = b[y] PROVE x = y
  <2>1. Same(a * x, b[x], p) /\ Same(b[y], a * y, p)
    <3>1. Same(b[x], a * x, p) /\ Same(b[y], a * y, p) /\ p \in Int
      BY <1>1, <1>4
    <3> HIDE DEF S
    <3> QED
      BY <3>1, SameSymmetric
  <2>2. Same(a * x, a * y, p)
    <3> HIDE DEF S
    <3> QED
      BY <1>1, <1>6, <2>1, SameTransitive
  <2>3. a % p = a /\ x % p = x /\ y % p = y
    BY <1>1
  <2>4. x % p = y % p
    <3>1. a % p # 0 /\ x \in Int /\ y \in Int
      BY <1>1, <2>3
    <3> QED
      BY <1>1, <2>2, <3>1, Cancel
  <2> QED
    BY <2>3, <2>4
<1>7. Img(S) = S
  <2>1. b \in Injection(S, S)
    <3> HIDE DEF S
    <3> QED
      BY <1>6, <1>5 DEF Injection, IsInjective
  <2>2. b \in Surjection(S, S)
    BY <1>2, <2>1, FS_Injection
  <2>3. \A t \in S : \E s \in S : b[s] = t
    BY <2>2 DEF Surjection
  <2> HIDE DEF S
  <2> QED
    BY <1>4, <2>3
<1> DEFINE V == {s \in SUBSET S : Same(h[Img(s)], g[Cardinality(s)] * h[s], p)}
<1>8. ASSUME NEW s \in SUBSET S
      PROVE  /\ Img(s) \in SUBSET S /\ h[s] \in Int /\ h[Img(s)] \in Int
             /\ Cardinality(s) \in Nat /\ g[Cardinality(s)] \in Int /\ IsFiniteSet(s)
  <2>1. Img(s) \in SUBSET S
    BY <1>4
  <2>2. h[s] \in Int /\ h[Img(s)] \in Int
    BY <1>3, <2>1 DEF ProductsOf
  <2>3. Cardinality(s) \in Nat /\ IsFiniteSet(s)
    BY <1>2, FS_Subset, FS_CardinalityType
  <2>4. g[Cardinality(s)] \in Int
    BY <2>3 DEF PowersOf
  <2> QED
    BY <2>1, <2>2, <2>3, <2>4
<1>9. {} \in V
  <2>1. Img({}) = {} /\ h[{}] = 1 /\ g[0] = 1 /\ Cardinality({}) = 0
    BY <1>3, FS_EmptySet DEF ProductsOf, PowersOf
  <2>2. Same(1, 1 * 1, p)
    BY <1>1, SameReflexive
  <2> QED
    BY <2>1, <2>2
<1>10. ASSUME NEW s \in SUBSET S, NEW x \in S \ s, s \in V PROVE s \cup {x} \in V
  <2> DEFINE t == s \cup {x}
             c == Cardinality(s)
  <2>1. t \in SUBSET S /\ x \in t /\ t \ {x} = s /\ x \in S
    OBVIOUS
  <2>2. Img(t) = Img(s) \cup {b[x]} /\ b[x] \notin Img(s)
    <3>1. b[x] \notin Img(s)
      BY <1>6, <2>1
    <3> QED
      BY <3>1
  <2>3. Img(t) \in SUBSET S /\ b[x] \in S /\ b[x] \in Img(t) /\ Img(t) \ {b[x]} = Img(s)
    <3>1. Img(t) \in SUBSET S
      BY <1>8, <2>1
    <3> HIDE DEF Img
    <3> QED
      BY <2>1, <2>2, <3>1, <1>4
  <2>4. h[t] = x * h[s] /\ h[Img(t)] = b[x] * h[Img(s)]
    <3> HIDE DEF Img, S, t
    <3> QED
      BY <1>3, <2>1, <2>3 DEF ProductsOf
  <2>5. Cardinality(t) = c + 1 /\ g[c + 1] = a * g[c]
    <3>1. IsFiniteSet(s) /\ c \in Nat
      BY <1>8
    <3>2. Cardinality(t) = c + 1
      BY <3>1, FS_AddElement
    <3> QED
      BY <3>1, <3>2 DEF PowersOf
  <2>6. Same(h[Img(s)], g[c] * h[s], p) /\ Same(b[x], a * x, p)
    BY <1>4, <1>10, <2>1
  <2>7. h[s] \in Int /\ g[c] \in Int /\ x \in Int
    BY <1>8, <1>4, <2>1
  <2> DEFINE hi == h[Img(s)]
             hs == h[s]
             gc == g[c]
  <2> HIDE DEF hi, hs, gc, V, Img, S, c, t
  <2>8. Same(b[x] * hi, (a * x) * (gc * hs), p)
    BY <1>1, <2>6, SameTimes DEF hi, hs, gc
  <2>9. (a * x) * (gc * hs) = (a * gc) * (x * hs)
    <3>1. hs \in Int /\ gc \in Int
      BY <2>7 DEF hs, gc
    <3> QED
      BY <1>1, <2>7, <3>1
  <2>10. Same(h[Img(t)], g[Cardinality(t)] * h[t], p)
    BY <2>4, <2>5, <2>8, <2>9 DEF hi, hs, gc
  <2> QED
    BY <2>1, <2>10 DEF V, t
<1>11. S \in V
  <2> HIDE DEF V, S
  <2> QED
    BY <1>2, <1>9, <1>10, SubsetInduction
<1>12. Same(h[S], g[p - 1] * h[S], p)
  BY <1>2, <1>7, <1>11
<1> DEFINE Z == {s \in SUBSET S : h[s] % p # 0}
<1>13. S \in Z
  <2>1. {} \in Z
    <3>1. h[{}] = 1 /\ 1 % p = 1
      BY <1>1, <1>3 DEF ProductsOf
    <3> QED
      BY <3>1
  <2>2. ASSUME NEW s \in SUBSET S, NEW x \in S \ s, s \in Z PROVE s \cup {x} \in Z
    <3> DEFINE t == s \cup {x}
    <3>1. t \in SUBSET S /\ x \in t /\ t \ {x} = s /\ x \in S
      OBVIOUS
    <3>2. h[t] = x * h[s]
      <4> HIDE DEF t, S
      <4> QED
        BY <1>3, <3>1 DEF ProductsOf
    <3>3. x % p # 0 /\ x \in Int
      <4>1. x \in Nat /\ x >= 1 /\ x < p
        BY <1>1
      <4>2. x % p = x
        BY <1>1, <4>1
      <4> QED
        BY <4>1, <4>2
    <3>4. h[s] % p # 0 /\ h[s] \in Int
      BY <1>8, <2>2
    <3>5. (x * h[s]) % p # 0
      BY <3>3, <3>4, EuclidAny
    <3> QED
      BY <3>1, <3>2, <3>5
  <2> HIDE DEF Z, S
  <2> QED
    BY <1>2, <2>1, <2>2, SubsetInduction
<1> DEFINE H == h[S]
           G == g[p - 1]
<1>14. H \in Int /\ H % p # 0 /\ G \in Int
  BY <1>1, <1>8, <1>13 DEF PowersOf
<1>15. Same(H, G * H, p)
  BY <1>12
<1> HIDE DEF H, G
<1>16. H * 1 = H /\ G * H = H * G
  BY <1>14
<1>17. Same(H * 1, H * G, p)
  BY <1>15, <1>16
<1>18. 1 % p = G % p
  <2>1. 1 \in Int
    OBVIOUS
  <2> QED
    BY <1>14, <1>17, <2>1, Cancel
<1>19. 1 % p = 1
  BY <1>1
<1> QED
  BY <1>18, <1>19 DEF G

-----------------------------------------------------------------------------
(* Inverses modulo q, and the permutations they make.                      *)
HasInverse(e, q) == \E f \in Nat, m \in Int : e * f = 1 + q * m

LEMMA IsInverse ==
    ASSUME NEW e \in Nat, NEW q \in Nat, NEW f \in Nat, NEW m \in Int, e * f = 1 + q * m
    PROVE  HasInverse(e, q)
BY DEF HasInverse

LEMMA InverseDoubles ==
    ASSUME NEW e \in Nat, e % 2 = 1, NEW a \in Nat, HasInverse(e, a)
    PROVE  HasInverse(e, 2 * a)
<1>1. PICK f \in Nat, m \in Int : e * f = 1 + a * m
  BY DEF HasInverse
<1>2. CASE m % 2 = 0
  <2> DEFINE h == m \div 2
  <2>1. m = 2 * h /\ h \in Int
    BY <1>2
  <2> HIDE DEF h
  <2>2. a * m = (2 * a) * h
    BY <2>1
  <2>3. e * f = 1 + (2 * a) * h
    BY <1>1, <2>2
  <2>4. 2 * a \in Nat
    OBVIOUS
  <2> QED
    BY <2>1, <2>3, <2>4, IsInverse
<1>3. CASE m % 2 # 0
  <2> DEFINE h == (m + e) \div 2
               g == f + a
  <2>1. m + e = 2 * h /\ h \in Int
    BY <1>3
  <2> HIDE DEF h
  <2>2. e * g = 1 + a * (m + e) /\ g \in Nat
    <3>1. e * (f + a) = e * f + e * a /\ a * (m + e) = a * m + a * e
      BY Distributes
    <3>2. e * a = a * e /\ e * f \in Int /\ a * m \in Int /\ a * e \in Int
      OBVIOUS
    <3>3. f + a \in Nat
      OBVIOUS
    <3> QED
      BY <1>1, <3>1, <3>2, <3>3
  <2> HIDE DEF g
  <2>3. a * (m + e) = (2 * a) * h
    BY <2>1
  <2>4. e * g = 1 + (2 * a) * h
    BY <2>2, <2>3
  <2>5. 2 * a \in Nat
    OBVIOUS
  <2> QED
    BY <2>1, <2>2, <2>4, <2>5, IsInverse
<1> QED
  BY <1>2, <1>3

LEMMA SameIndex ==
    ASSUME NEW q \in Nat \ {0}, NEW x \in 0 .. q - 1, NEW y \in 0 .. q - 1, Same(x, y, q)
    PROVE  x = y
<1>1. q \in Nat \ {0} /\ x \in Nat /\ x < q /\ y \in Nat /\ y < q
  OBVIOUS
<1>2. x % q = y % q
  BY <1>1, SameEqual
<1>3. x % q = x /\ y % q = y
  BY <1>1
<1> QED
  BY <1>2, <1>3

LEMMA InversePermutes ==
    ASSUME NEW q \in Nat \ {0}, NEW e \in Nat, HasInverse(e, q)
    PROVE  /\ \A j \in 0 .. q - 1 : (j * e) % q \in 0 .. q - 1
           /\ \A i, j \in 0 .. q - 1 : (i * e) % q = (j * e) % q => i = j
           /\ \A k \in 0 .. q - 1 : \E j \in 0 .. q - 1 : (j * e) % q = k
<1>1. e \in Nat /\ q \in Nat \ {0} /\ q \in Int
  OBVIOUS
<1>2. PICK f \in Nat, m \in Int : e * f = 1 + q * m
  BY <1>1 DEF HasInverse
<1>3. \A x \in Int : x % q \in 0 .. q - 1
  BY <1>1
<1>4. ASSUME NEW j \in Int PROVE Same((j * e) * f, j, q)
  <2>1. (j * e) * f = j * (e * f)
    BY <1>1
  <2>2. j * (1 + q * m) = j + (j * m) * q
    BY <1>1
  <2>3. (j * e) * f \in Int /\ j * m \in Int
    BY <1>1
  <2> QED
    BY <1>2, <2>1, <2>2, <2>3 DEF Same
<1>5. \A j \in 0 .. q - 1 : (j * e) % q \in 0 .. q - 1
  <2> SUFFICES ASSUME NEW j \in 0 .. q - 1 PROVE (j * e) % q \in 0 .. q - 1
    OBVIOUS
  <2>1. j * e \in Int
    BY <1>1
  <2> QED
    BY <1>3, <2>1
<1>6. ASSUME NEW i \in 0 .. q - 1, NEW j \in 0 .. q - 1, (i * e) % q = (j * e) % q PROVE i = j
  <2> DEFINE x == i * e
               y == j * e
  <2>1. i \in Int /\ j \in Int /\ x \in Int /\ y \in Int
    BY <1>1
  <2>2. Same(x * f, i, q) /\ Same(y * f, j, q)
    BY <1>4, <2>1
  <2>3. x % q = y % q
    BY <1>6
  <2> HIDE DEF x, y
  <2>4. Same(x % q, x, q) /\ Same(y % q, y, q)
    BY <1>1, <2>1, SameMod
  <2>5. Same(x, y, q)
    <3>1. Same(x, x % q, q)
      BY <1>1, <2>4, SameSymmetric
    <3> QED
      BY <1>1, <2>3, <2>4, <3>1, SameTransitive
  <2>6. Same(x * f, y * f, q)
    <3>1. Same(f * x, f * y, q)
      BY <1>1, <2>5, SameScaled
    <3>2. f * x = x * f /\ f * y = y * f
      BY <2>1
    <3> QED
      BY <3>1, <3>2
  <2>7. Same(i, x * f, q)
    BY <1>1, <2>2, SameSymmetric
  <2>8. Same(i, y * f, q)
    BY <1>1, <2>6, <2>7, SameTransitive
  <2>9. Same(i, j, q)
    BY <1>1, <2>2, <2>8, SameTransitive
  <2> QED
    BY <2>9, SameIndex
<1>7. ASSUME NEW k \in 0 .. q - 1 PROVE \E j \in 0 .. q - 1 : (j * e) % q = k
  <2> DEFINE j == (k * f) % q
  <2>1. k \in Int /\ k * f \in Int
    BY <1>1
  <2>2. j \in 0 .. q - 1 /\ Same(j, k * f, q)
    BY <1>1, <1>3, <2>1, SameMod
  <2> HIDE DEF j
  <2>3. j \in Int
    BY <2>2
  <2>4. Same(e * j, e * (k * f), q)
    <3> DEFINE x == k * f
    <3>1. Same(j, x, q) /\ e \in Int
      BY <2>2
    <3> HIDE DEF x
    <3>2. Same(e * j, e * x, q)
      BY <1>1, <3>1, SameScaled
    <3> QED
      BY <3>2 DEF x
  <2>5. e * j = j * e /\ e * (k * f) = (k * e) * f
    BY <1>1, <2>1, <2>3
  <2>6. Same((k * e) * f, k, q)
    BY <1>4, <2>1
  <2>7. Same(j * e, k, q)
    BY <1>1, <2>4, <2>5, <2>6, SameTransitive
  <2>8. j * e \in Int
    BY <1>1, <2>3
  <2>9. (j * e) % q = k % q
    BY <1>1, <2>7, SameEqual
  <2>10. k % q = k
    BY <1>1
  <2> QED
    BY <2>2, <2>9, <2>10
<1> QED
  BY <1>5, <1>6, <1>7
=============================================================================
