------------------------ MODULE TransformSwitch_proof -----------------------
(***************************************************************************)
(* The number-theoretic transform is evaluation at the odd powers of the   *)
(* root, in bit-reversed order, and no entry of a row grows too large on   *)
(* the way, for every degree, every modulus and every root.                *)
(* Key switching, whose polynomials the transform multiplies, changes what *)
(* a ciphertext decrypts to by no more than its errors and roundings, for  *)
(* every chain of moduli, key and ciphertext.                              *)
(***************************************************************************)
EXTENDS Transform, KeySwitching, WordLemmas

-----------------------------------------------------------------------------
(* Powers of two up to the degree. *)

LEMMA Degree ==
    /\ LogN \in Nat /\ LogN >= 1 /\ LogN <= W /\ W \in Nat /\ W >= 4
    /\ N \in Nat /\ N >= 2 /\ N = Pow2[LogN] /\ N = 2 * Pow2[LogN - 1]
    /\ Index = 0 .. N - 1 /\ N \in Nat \ {0} /\ 2 * N \in Nat \ {0}
<1>1. LogN \in 1 .. W /\ W \in Nat /\ W >= 4
  BY TransformAssumption, WordsAssumption
<1>2. LogN \in Nat /\ LogN >= 1 /\ LogN - 1 \in 0 .. 4 * W - 1 /\ (LogN - 1) + 1 = LogN
  BY <1>1
<1>3. Pow2[LogN] = 2 * Pow2[LogN - 1] /\ Pow2[LogN - 1] \in Nat \ {0}
  BY <1>1, <1>2, PowersDouble, PowerTypes
<1> QED
  BY <1>1, <1>2, <1>3 DEF N, Index

LEMMA Power2 ==
    ASSUME NEW t \in 0 .. LogN
    PROVE  /\ Pow2[t] \in Nat \ {0} /\ Pow2[LogN - t] \in Nat \ {0}
           /\ Pow2[t] * Pow2[LogN - t] = N
           /\ t < LogN => /\ Pow2[t + 1] = 2 * Pow2[t]
                          /\ Pow2[LogN - t] = 2 * Pow2[LogN - 1 - t]
                          /\ Pow2[LogN - 1 - t] \in Nat \ {0}
<1>1. /\ t \in Nat /\ LogN - t \in Nat /\ t + (LogN - t) = LogN
      /\ t \in 0 .. 4 * W /\ LogN - t \in 0 .. 4 * W /\ LogN <= 4 * W
  BY Degree
<1>2. Pow2[t] \in Nat \ {0} /\ Pow2[LogN - t] \in Nat \ {0}
  BY <1>1, PowerTypes
<1>3. Pow2[t] * Pow2[LogN - t] = N
  BY <1>1, PowerOfSum DEF N
<1>4. ASSUME t < LogN
      PROVE  /\ Pow2[t + 1] = 2 * Pow2[t]
             /\ Pow2[LogN - t] = 2 * Pow2[LogN - 1 - t]
             /\ Pow2[LogN - 1 - t] \in Nat \ {0}
  <2>1. /\ t \in 0 .. 4 * W - 1 /\ LogN - 1 - t \in 0 .. 4 * W - 1
        /\ (LogN - 1 - t) + 1 = LogN - t /\ LogN - 1 - t \in 0 .. 4 * W
    BY <1>1, <1>4, Degree
  <2> QED
    BY <2>1, PowersDouble, PowerTypes
<1> QED
  BY <1>2, <1>3, <1>4

-----------------------------------------------------------------------------
(* Bits in reverse order. *)

(* v[k] reverses numbers of k bits. *)
Reversal(v) ==
    /\ v \in [0 .. LogN -> [Index -> Nat]]
    /\ \A i \in Index : v[0][i] = 0
    /\ \A k \in 1 .. LogN, i \in Index : v[k][i] = (i % 2) * Pow2[k - 1] + v[k - 1][i \div 2]

HalfIndex(i) == i \div 2 \in Index /\ i % 2 \in 0 .. 1 /\ i = 2 * (i \div 2) + (i % 2)

LEMMA IndexHalves == \A i \in Index : HalfIndex(i)
  BY Degree, SMTT(60) DEF HalfIndex

LEMMA ReversalExists == \E v : Reversal(v)
<1> DEFINE S == [Index -> Nat]
           a == [i \in Index |-> 0]
           step == [c \in (1 .. LogN) \X S |->
                       [i \in Index |-> (i % 2) * Pow2[c[1] - 1] + c[2][i \div 2]]]
<1>1. LogN \in Nat /\ a \in S
  BY Degree
<1>2. ASSUME NEW k \in 1 .. LogN, NEW h \in S
      PROVE  [i \in Index |-> (i % 2) * Pow2[k - 1] + h[i \div 2]] \in S
  <2>1. Pow2[k - 1] \in Nat
    BY <1>1, Power2
  <2>2. ASSUME NEW i \in Index PROVE (i % 2) * Pow2[k - 1] + h[i \div 2] \in Nat
    <3>1. i \div 2 \in Index /\ i % 2 \in 0 .. 1
      BY IndexHalves DEF HalfIndex
    <3> DEFINE x == i % 2
               y == Pow2[k - 1]
    <3>2. x = 0 \/ x = 1
      BY <3>1
    <3>3. x * y \in Nat
      BY <2>1, <3>2
    <3> QED
      BY <3>1, <3>3
  <2> QED
    BY <2>2
<1>3. step \in [(1 .. LogN) \X S -> S]
  BY <1>2
<1>4. \A k \in 1 .. LogN, h \in S :
          step[<< k, h >>] = [i \in Index |-> (i % 2) * Pow2[k - 1] + h[i \div 2]]
  OBVIOUS
<1> HIDE DEF step
<1>5. PICK v \in [0 .. LogN -> S] : Steps(v, LogN, a, step)
  BY <1>1, <1>3, RecursionExists
<1>6. ASSUME NEW k \in 1 .. LogN, NEW i \in Index
      PROVE  v[k][i] = (i % 2) * Pow2[k - 1] + v[k - 1][i \div 2]
  <2>1. k - 1 \in 0 .. LogN /\ v[k - 1] \in S
    BY <1>1
  <2>2. v[k] = step[<< k, v[k - 1] >>]
    BY <1>5 DEF Steps
  <2> DEFINE h == v[k - 1]
  <2>3. h \in S /\ v[k] = step[<< k, h >>]
    BY <2>1, <2>2
  <2> HIDE DEF h
  <2>4. v[k] = [j \in Index |-> (j % 2) * Pow2[k - 1] + h[j \div 2]]
    BY <1>4, <2>3
  <2>5. v[k][i] = (i % 2) * Pow2[k - 1] + h[i \div 2]
    BY <2>4
  <2> QED
    BY <2>5 DEF h
<1>7. v[0] = a
  BY <1>5 DEF Steps
<1> QED
  BY <1>6, <1>7 DEF Reversal

(* BitRev is such a v at LogN. *)
LEMMA BitRevReverses == \E v : Reversal(v) /\ BitRev = v[LogN]
<1> DEFINE E(f) == f = [k \in 0 .. LogN |->
                 [i \in Index |-> IF k = 0 THEN 0 ELSE (i % 2) * Pow2[k - 1] + f[k - 1][i \div 2]]]
           w == CHOOSE f : E(f)
<1>1. LogN \in Nat
  BY Degree
<1>2. BitRev = w[LogN]
  BY DEF BitRev
<1>3. PICK v : Reversal(v)
  BY ReversalExists
<1>4. E(v)
  <2>1. ASSUME NEW k \in 0 .. LogN
        PROVE  v[k] = [i \in Index |-> IF k = 0 THEN 0
                                       ELSE (i % 2) * Pow2[k - 1] + v[k - 1][i \div 2]]
    <3>1. v[k] \in [Index -> Nat]
      BY <1>3 DEF Reversal
    <3>2. ASSUME NEW i \in Index
          PROVE  v[k][i] = IF k = 0 THEN 0 ELSE (i % 2) * Pow2[k - 1] + v[k - 1][i \div 2]
      <4>1. k # 0 => k \in 1 .. LogN
        BY <1>1
      <4> QED
        BY <1>3, <4>1 DEF Reversal
    <3> QED
      BY <3>1, <3>2
  <2>2. v \in [0 .. LogN -> [Index -> Nat]]
    BY <1>3 DEF Reversal
  <2> QED
    BY <2>1, <2>2
<1>5. E(w)
  <2> HIDE DEF E
  <2> QED
    BY <1>4
<1> HIDE DEF w
<1>6. \A k \in 0 .. LogN : w[k] = [i \in Index |->
          IF k = 0 THEN 0 ELSE (i % 2) * Pow2[k - 1] + w[k - 1][i \div 2]]
  BY <1>5
<1>7. \A k \in 0 .. LogN : w[k] = v[k]
  <2> DEFINE V == {k \in 0 .. LogN : w[k] = v[k]}
  <2>1. v[0] \in [Index -> Nat] /\ 0 \in 0 .. LogN
    BY <1>1, <1>3 DEF Reversal
  <2>2. 0 \in V
    <3>1. w[0] = [i \in Index |-> 0]
      BY <1>6, <2>1
    <3>2. \A i \in Index : v[0][i] = 0
      BY <1>3 DEF Reversal
    <3> QED
      BY <2>1, <3>1, <3>2
  <2>3. ASSUME NEW k \in 0 .. LogN - 1, k \in V PROVE k + 1 \in V
    <3>1. k + 1 \in 1 .. LogN /\ (k + 1) - 1 = k /\ k + 1 \in 0 .. LogN /\ k + 1 # 0
      BY <1>1
    <3>2. w[k + 1] = [i \in Index |-> (i % 2) * Pow2[k] + w[k][i \div 2]]
      BY <1>6, <3>1
    <3>3. v[k + 1] \in [Index -> Nat] /\ w[k] = v[k]
      BY <1>3, <2>3, <3>1 DEF Reversal
    <3>4. \A i \in Index : v[k + 1][i] = (i % 2) * Pow2[k] + v[k][i \div 2]
      BY <1>3, <3>1 DEF Reversal
    <3> QED
      BY <3>1, <3>2, <3>3, <3>4
  <2> HIDE DEF V
  <2>4. \A k \in 0 .. LogN : k \in V
    BY <1>1, <2>2, <2>3, InductionUpTo
  <2> QED
    BY <2>4 DEF V
<1> QED
  BY <1>1, <1>2, <1>3, <1>7

LEMMA ReversalBound ==
    ASSUME NEW v, Reversal(v)
    PROVE  \A k \in 0 .. LogN : \A i \in Index : v[k][i] \in 0 .. Pow2[k] - 1
<1> DEFINE V == {k \in 0 .. LogN : \A i \in Index : v[k][i] \in 0 .. Pow2[k] - 1}
<1>1. LogN \in Nat
  BY Degree
<1>2. 0 \in V
  <2>1. Pow2[0] \in Nat \ {0}
    BY <1>1, Power2
  <2> QED
    BY <1>1, <2>1 DEF Reversal
<1>3. ASSUME NEW k \in 0 .. LogN - 1, k \in V PROVE k + 1 \in V
  <2>1. k + 1 \in 1 .. LogN /\ (k + 1) - 1 = k /\ k + 1 \in 0 .. LogN
    BY <1>1
  <2>2. Pow2[k + 1] = 2 * Pow2[k] /\ Pow2[k] \in Nat \ {0}
    BY <1>1, Power2
  <2>3. ASSUME NEW i \in Index PROVE v[k + 1][i] \in 0 .. Pow2[k + 1] - 1
    <3>1. i \div 2 \in Index /\ i % 2 \in 0 .. 1
      BY IndexHalves DEF HalfIndex
    <3>2. v[k + 1][i] = (i % 2) * Pow2[k] + v[k][i \div 2]
      BY <2>1 DEF Reversal
    <3>3. v[k][i \div 2] \in 0 .. Pow2[k] - 1
      BY <1>3, <3>1
    <3> DEFINE x == i % 2
    <3>4. x = 0 \/ x = 1
      BY <3>1
    <3> HIDE DEF x
    <3>5. v[k + 1][i] = x * Pow2[k] + v[k][i \div 2]
      BY <3>2 DEF x
    <3> QED
      BY <2>2, <3>3, <3>4, <3>5
  <2> QED
    BY <2>1, <2>3
<1> HIDE DEF V
<1>4. \A k \in 0 .. LogN : k \in V
  BY <1>1, <1>2, <1>3, InductionUpTo
<1> QED
  BY <1>4 DEF V

(* A number of k bits, reversed as one of k + 1. *)
LEMMA ReversalShift ==
    ASSUME NEW v, Reversal(v)
    PROVE  \A k \in 0 .. LogN - 1 : \A i \in Index : i < Pow2[k] => v[k + 1][i] = 2 * v[k][i]
<1> DEFINE V == {k \in 0 .. LogN - 1 : \A i \in Index : i < Pow2[k] => v[k + 1][i] = 2 * v[k][i]}
<1>1. LogN \in Nat /\ LogN - 1 \in Nat /\ LogN >= 1
  BY Degree
<1>2. 0 \in V
  <2>1. ASSUME NEW i \in Index, i < Pow2[0] PROVE v[0 + 1][i] = 2 * v[0][i]
    <3>1. Pow2[0] = 1
      BY PowersDouble
    <3>2. i = 0 /\ 0 + 1 = 1 /\ 1 \in 1 .. LogN /\ i \div 2 = 0 /\ i % 2 = 0 /\ 1 - 1 = 0
      BY <1>1, <2>1, <3>1, Degree
    <3>3. v[1][i] = (i % 2) * Pow2[1 - 1] + v[1 - 1][i \div 2]
      BY <3>2 DEF Reversal
    <3>4. v[1][i] = 0 * Pow2[0] + v[0][i]
      BY <3>2, <3>3
    <3>5. v[0][i] = 0
      BY DEF Reversal
    <3> QED
      BY <3>1, <3>2, <3>4, <3>5
  <2> QED
    BY <1>1, <2>1
<1>3. ASSUME NEW k \in 0 .. (LogN - 1) - 1, k \in V PROVE k + 1 \in V
  <2>1. /\ k \in 0 .. LogN - 1 /\ k + 1 \in 0 .. LogN - 1 /\ k \in 0 .. LogN /\ k + 1 \in 0 .. LogN
        /\ k + 1 \in 1 .. LogN /\ (k + 1) + 1 \in 1 .. LogN
        /\ (k + 1) - 1 = k /\ ((k + 1) + 1) - 1 = k + 1 /\ k < LogN
    BY <1>1
  <2>2. Pow2[k + 1] = 2 * Pow2[k] /\ Pow2[k] \in Nat \ {0}
    BY <2>1, Power2
  <2>3. ASSUME NEW i \in Index, i < Pow2[k + 1] PROVE v[(k + 1) + 1][i] = 2 * v[k + 1][i]
    <3>1. HalfIndex(i) /\ i \in Nat
      BY IndexHalves, Degree
    <3>2. v[(k + 1) + 1][i] = (i % 2) * Pow2[k + 1] + v[k + 1][i \div 2]
      BY <2>1 DEF Reversal
    <3>3. v[k + 1][i] = (i % 2) * Pow2[k] + v[k][i \div 2]
      BY <2>1 DEF Reversal
    <3>4. i \div 2 < Pow2[k]
      BY <2>2, <2>3, <3>1 DEF HalfIndex
    <3>5. v[k + 1][i \div 2] = 2 * v[k][i \div 2]
      BY <1>3, <3>1, <3>4 DEF HalfIndex
    <3>6. v[k][i \div 2] \in Int
      <4>1. v[k] \in [Index -> Nat] /\ i \div 2 \in Index
        BY <2>1, <3>1 DEF Reversal, HalfIndex
      <4> QED
        BY <4>1
    <3> DEFINE x == i % 2
               y == v[k][i \div 2]
    <3>7. x = 0 \/ x = 1
      BY <3>1 DEF HalfIndex
    <3>8. v[(k + 1) + 1][i] = x * (2 * Pow2[k]) + 2 * y /\ v[k + 1][i] = x * Pow2[k] + y
      BY <2>2, <3>2, <3>3, <3>5
    <3>9. y \in Int
      BY <3>6
    <3> HIDE DEF x, y
    <3> QED
      BY <2>2, <3>7, <3>8, <3>9
  <2> QED
    BY <2>1, <2>3
<1> HIDE DEF V
<1>4. \A k \in 0 .. LogN - 1 : k \in V
  BY <1>1, <1>2, <1>3, InductionUpTo
<1> QED
  BY <1>4 DEF V

(* What is used of BitRev. *)
LEMMA BitRevTypes == BitRev \in [Index -> Index]
<1>1. PICK v : Reversal(v) /\ BitRev = v[LogN]
  BY BitRevReverses
<1>2. LogN \in 0 .. LogN /\ v[LogN] \in [Index -> Nat]
  BY <1>1, Degree DEF Reversal
<1>3. \A i \in Index : v[LogN][i] \in 0 .. Pow2[LogN] - 1
  BY <1>1, <1>2, ReversalBound
<1>4. \A i \in Index : v[LogN][i] \in Index
  BY <1>3, Degree
<1> QED
  BY <1>1, <1>2, <1>4

LEMMA BitRevDouble ==
    ASSUME NEW b \in Nat, NEW d \in 0 .. 1, 2 * b + d < N
    PROVE  /\ b \in Index /\ 2 * b + d \in Index
           /\ BitRev[b] \in Nat /\ BitRev[2 * b + d] \in Nat
           /\ 2 * BitRev[2 * b + d] = BitRev[b] + d * N
<1>1. b \in Index /\ 2 * b + d \in Index /\ LogN \in Nat /\ LogN >= 1 /\ N = 2 * Pow2[LogN - 1]
      /\ Pow2[LogN - 1] \in Int
  BY Degree, Power2, SMTT(60)
<1>2. PICK v : Reversal(v) /\ BitRev = v[LogN]
  BY BitRevReverses
<1>3. (2 * b + d) \div 2 = b /\ (2 * b + d) % 2 = d
  OBVIOUS
<1>4. LogN \in 1 .. LogN /\ LogN - 1 \in 0 .. LogN - 1 /\ (LogN - 1) + 1 = LogN
  BY <1>1
<1>5. v[LogN][2 * b + d] = ((2 * b + d) % 2) * Pow2[LogN - 1] + v[LogN - 1][(2 * b + d) \div 2]
  BY <1>1, <1>2, <1>4 DEF Reversal
<1>6. v[LogN][2 * b + d] = d * Pow2[LogN - 1] + v[LogN - 1][b]
  BY <1>3, <1>5
<1>7. b < Pow2[LogN - 1]
  BY <1>1
<1>8. v[LogN][b] = 2 * v[LogN - 1][b]
  BY <1>1, <1>2, <1>4, <1>7, ReversalShift
<1>9. v[LogN - 1][b] \in Int /\ BitRev[b] \in Nat /\ BitRev[2 * b + d] \in Nat
  <2>1. v[LogN - 1] \in [Index -> Nat] /\ v[LogN] \in [Index -> Nat]
    <3>1. v \in [0 .. LogN -> [Index -> Nat]]
      BY <1>2 DEF Reversal
    <3>2. LogN - 1 \in 0 .. LogN /\ LogN \in 0 .. LogN
      BY <1>1
    <3> QED
      BY <3>1, <3>2
  <2> QED
    BY <1>1, <1>2, <2>1
<1> DEFINE x == v[LogN - 1][b]
           y == Pow2[LogN - 1]
           z == v[LogN][2 * b + d]
           u == v[LogN][b]
<1>10. z = d * y + x /\ u = 2 * x /\ N = 2 * y /\ x \in Int /\ y \in Int
  BY <1>1, <1>6, <1>8, <1>9
<1>11. d = 0 \/ d = 1
  OBVIOUS
<1>12. 2 * z = u + d * N
  <2> HIDE DEF x, y, z, u
  <2> QED
    BY <1>10, <1>11
<1> QED
  BY <1>1, <1>2, <1>9, <1>12

LEMMA BitRevZero == BitRev[0] = 0
<1>1. 2 * BitRev[2 * 0 + 0] = BitRev[0] + 0 * N /\ BitRev[0] \in Nat
  BY BitRevDouble, Degree
<1>2. 2 * 0 + 0 = 0 /\ 0 * N = 0
  BY Degree
<1> QED
  BY <1>1, <1>2

(* Chunks of 2 l entries, of which there are m. *)
IsLevel(l, m) == \E t \in 0 .. LogN - 1 : l = Pow2[t] /\ m = Pow2[LogN - 1 - t]

LEMMA LevelSize ==
    ASSUME NEW l, NEW m, IsLevel(l, m)
    PROVE  /\ l \in Nat \ {0} /\ m \in Nat \ {0} /\ 2 * (l * m) = N
           /\ m * (2 * l) = N /\ l <= N /\ m <= N
<1>1. PICK t \in 0 .. LogN - 1 : l = Pow2[t] /\ m = Pow2[LogN - 1 - t]
  BY DEF IsLevel
<1>2. t \in 0 .. LogN /\ t < LogN
  BY Degree
<1>3. l \in Nat \ {0} /\ m \in Nat \ {0} /\ l * (2 * m) = N
  BY <1>1, <1>2, Power2
<1>4. l * (2 * m) = 2 * (l * m) /\ m * (2 * l) = 2 * (l * m)
  BY <1>3
<1>5. l * m >= l /\ l * m >= m
  BY <1>3
<1>6. l * m \in Nat
  BY <1>3
<1> QED
  BY <1>3, <1>4, <1>5, <1>6

(* The first level of the forward pass, and the next. *)
LEMMA FirstLevel == IsLevel(N \div 2, 1) /\ IsLevel(1, N \div 2)
<1>1. /\ LogN \in Nat /\ LogN - 1 \in 0 .. LogN - 1 /\ LogN - 1 - (LogN - 1) = 0
      /\ 0 \in 0 .. LogN - 1 /\ LogN - 1 - 0 = LogN - 1
  BY Degree
<1>2. N \div 2 = Pow2[LogN - 1]
  BY <1>1, Degree, Power2
<1> QED
  BY <1>1, <1>2, PowersDouble DEF IsLevel

LEMMA NextLevel ==
    ASSUME NEW l, NEW m, IsLevel(l, m)
    PROVE  /\ l \div 2 = 0 => l = 1 /\ 2 * m = N
           /\ l \div 2 # 0 => IsLevel(l \div 2, 2 * m) /\ l = 2 * (l \div 2)
           /\ m = 1 => 2 * l = N
           /\ m # 1 => IsLevel(2 * l, m \div 2) /\ m = 2 * (m \div 2)
<1>1. PICK t \in 0 .. LogN - 1 : l = Pow2[t] /\ m = Pow2[LogN - 1 - t]
  BY DEF IsLevel
<1>2. LogN \in Nat /\ Pow2[0] = 1
  BY Degree, PowersDouble
<1>3. l \in Nat \ {0} /\ m \in Nat \ {0} /\ 2 * (l * m) = N
  BY LevelSize
<1>4. /\ l \div 2 = 0 => l = 1 /\ 2 * m = N
      /\ l \div 2 # 0 => IsLevel(l \div 2, 2 * m) /\ l = 2 * (l \div 2)
  <2>1. CASE t = 0
    <3>1. l = 1 /\ l \div 2 = 0
      BY <1>1, <1>2, <2>1
    <3> QED
      BY <1>3, <3>1
  <2>2. CASE t # 0
    <3>1. /\ t - 1 \in 0 .. LogN - 1 /\ t - 1 \in 0 .. LogN /\ (t - 1) + 1 = t /\ t - 1 < LogN
          /\ LogN - 1 - t \in 0 .. LogN /\ LogN - 1 - t < LogN
          /\ (LogN - 1 - t) + 1 = LogN - 1 - (t - 1)
      BY <1>2, <2>2
    <3>2. Pow2[t] = 2 * Pow2[t - 1] /\ Pow2[t - 1] \in Nat \ {0}
      BY <3>1, Power2
    <3>3. Pow2[LogN - 1 - (t - 1)] = 2 * Pow2[LogN - 1 - t]
      BY <3>1, Power2
    <3>4. l \div 2 = Pow2[t - 1] /\ l = 2 * Pow2[t - 1]
      BY <1>1, <3>2
    <3> QED
      BY <1>1, <3>1, <3>2, <3>3, <3>4 DEF IsLevel
  <2> QED
    BY <2>1, <2>2
<1>5. /\ m = 1 => 2 * l = N
      /\ m # 1 => IsLevel(2 * l, m \div 2) /\ m = 2 * (m \div 2)
  <2>1. CASE t = LogN - 1
    <3>1. m = 1
      BY <1>1, <1>2, <2>1
    <3> QED
      BY <1>3, <3>1
  <2>2. CASE t # LogN - 1
    <3>1. /\ t + 1 \in 0 .. LogN - 1 /\ t \in 0 .. LogN /\ t < LogN
          /\ LogN - 1 - (t + 1) \in 0 .. LogN /\ LogN - 1 - (t + 1) < LogN
          /\ (LogN - 1 - (t + 1)) + 1 = LogN - 1 - t
      BY <1>2, <2>2
    <3>2. Pow2[t + 1] = 2 * Pow2[t]
      BY <3>1, Power2
    <3>3. /\ Pow2[LogN - 1 - t] = 2 * Pow2[LogN - 1 - (t + 1)]
          /\ Pow2[LogN - 1 - (t + 1)] \in Nat \ {0}
      BY <3>1, Power2
    <3>4. m \div 2 = Pow2[LogN - 1 - (t + 1)] /\ m = 2 * (m \div 2) /\ 2 * l = Pow2[t + 1] /\ m # 1
      BY <1>1, <3>2, <3>3
    <3> QED
      BY <3>1, <3>4 DEF IsLevel
  <2> QED
    BY <2>1, <2>2
<1> QED
  BY <1>4, <1>5

(* m numbers of few bits, at level l, m: a bit above them reversed. *)
LEMMA BitRevHigh ==
    ASSUME NEW l, NEW m, IsLevel(l, m), NEW b \in 0 .. m - 1
    PROVE  /\ m + b \in Index /\ b \in Index /\ BitRev[m + b] = BitRev[b] + l
           /\ \E q \in Nat : BitRev[b] = q * (2 * l)
<1> DEFINE F(x, y) == \A c \in 0 .. y - 1 : /\ BitRev[y + c] = BitRev[c] + x
                                           /\ \E q \in Nat : BitRev[c] = q * (2 * x)
           V == {s \in 0 .. LogN - 1 : F(Pow2[LogN - 1 - s], Pow2[s])}
<1>1. LogN \in Nat /\ LogN - 1 \in Nat /\ N \in Nat
  BY Degree
<1>2. 0 \in V
  <2>1. Pow2[0] = 1 /\ LogN - 1 - 0 = LogN - 1 /\ N = 2 * Pow2[LogN - 1] /\ Pow2[LogN - 1] \in Int
    BY <1>1, PowersDouble, Degree, Power2
  <2>2. 2 * BitRev[2 * 0 + 1] = BitRev[0] + 1 * N /\ BitRev[2 * 0 + 1] \in Nat
    BY BitRevDouble, Degree
  <2>3. BitRev[1] = Pow2[LogN - 1] /\ BitRev[0] = 0
    <3>1. 2 * 0 + 1 = 1 /\ 1 * N = N /\ BitRev[0] = 0
      BY <1>1, BitRevZero
    <3>2. 2 * BitRev[1] = N /\ BitRev[1] \in Nat
      BY <1>1, <2>2, <3>1
    <3> QED
      BY <2>1, <3>1, <3>2
  <2>4. 0 = 0 * (2 * Pow2[LogN - 1]) /\ 1 + 0 = 1
    BY <2>1
  <2>5. ASSUME NEW c \in 0 .. Pow2[0] - 1 PROVE c = 0
    BY <2>1
  <2> QED
    BY <1>1, <2>1, <2>3, <2>4, <2>5
<1>3. ASSUME NEW s \in 0 .. (LogN - 1) - 1, s \in V PROVE s + 1 \in V
  <2> DEFINE x == Pow2[LogN - 1 - (s + 1)]
             y == Pow2[s]
             z == Pow2[LogN - 1 - s]
  <2>1. /\ s \in 0 .. LogN /\ s < LogN /\ s + 1 \in 0 .. LogN - 1 /\ s + 1 \in 0 .. LogN
        /\ LogN - (s + 1) = LogN - 1 - s /\ s + 1 < LogN /\ LogN - 1 - (s + 1) \in 0 .. LogN
    BY <1>1
  <2>2. Pow2[s + 1] = 2 * y /\ z = 2 * x /\ y \in Nat \ {0} /\ x \in Nat \ {0}
    BY <2>1, Power2
  <2>3. (2 * y) * z = N
    BY <2>1, <2>2, Power2
  <2>4. F(z, y)
    BY <1>3
  <2> HIDE DEF x, y, z, F
  <2>5. ASSUME NEW c \in 0 .. 2 * y - 1
        PROVE  BitRev[2 * y + c] = BitRev[c] + x /\ \E q \in Nat : BitRev[c] = q * (2 * x)
    <3> DEFINE b1 == c \div 2
               d == c % 2
    <3>1. b1 \in 0 .. y - 1 /\ d \in 0 .. 1 /\ c = 2 * b1 + d
      BY <2>2
    <3> HIDE DEF b1, d
    <3>2. 2 * x >= 2 /\ x \in Int /\ (2 * y) * (2 * x) = N /\ 2 * (2 * y) <= N
      BY <2>2, <2>3
    <3>3. c < N /\ 2 * (y + b1) + d < N /\ y + b1 \in Nat /\ 2 * (y + b1) + d = 2 * y + c /\ b1 \in Nat
      BY <2>2, <3>1, <3>2
    <3>4. 2 * BitRev[c] = BitRev[b1] + d * N /\ BitRev[c] \in Nat /\ BitRev[b1] \in Nat
      BY <3>1, <3>3, BitRevDouble
    <3>5. 2 * BitRev[2 * y + c] = BitRev[y + b1] + d * N /\ BitRev[2 * y + c] \in Nat
      BY <3>1, <3>3, BitRevDouble
    <3>6. BitRev[y + b1] = BitRev[b1] + z /\ \E q \in Nat : BitRev[b1] = q * (2 * z)
      BY <2>4, <3>1 DEF F
    <3>7. BitRev[2 * y + c] = BitRev[c] + x
      <4>1. d * N \in Int
        BY <1>1, <3>1
      <4> QED
        BY <2>2, <3>4, <3>5, <3>6, <4>1
    <3>8. \E q \in Nat : BitRev[c] = q * (2 * x)
      <4>1. PICK q \in Nat : BitRev[b1] = q * (2 * z)
        BY <3>6
      <4> DEFINE dy == d * y
                 n == q + dy
                 dx == dy * (2 * x)
                 qx == q * (2 * x)
      <4>2. n \in Nat /\ dy \in Int /\ dx \in Int /\ qx \in Int /\ q \in Int
        BY <2>2, <3>1, <4>1
      <4>3. d * N = d * ((2 * y) * (2 * x)) /\ d * ((2 * y) * (2 * x)) = 2 * ((d * y) * (2 * x))
        BY <2>2, <3>1, <3>2
      <4>4. d * N = 2 * dx
        BY <4>3
      <4>5. \A n1, n2 \in Int : n1 * (2 * (2 * n2)) = 2 * (n1 * (2 * n2))
        OBVIOUS
      <4>6. q * (2 * (2 * x)) = 2 * qx
        <5>1. q \in Int /\ x \in Int
          BY <2>2, <4>2
        <5> QED
          BY <4>5, <5>1
      <4>7. BitRev[c] = qx + dx
        <5>1. BitRev[b1] = 2 * qx
          BY <2>2, <4>1, <4>6
        <5> HIDE DEF qx, dx
        <5> QED
          BY <3>4, <4>2, <4>4, <5>1
      <4>8. n * (2 * x) = qx + dx
        BY <2>2, <4>2
      <4> QED
        BY <4>2, <4>7, <4>8
    <3> QED
      BY <3>7, <3>8
  <2>6. F(x, Pow2[s + 1])
    BY <2>2, <2>5 DEF F
  <2> QED
    BY <2>1, <2>6 DEF x
<1> HIDE DEF V
<1>4. \A s \in 0 .. LogN - 1 : s \in V
  BY <1>1, <1>2, <1>3, InductionUpTo
<1>5. PICK t \in 0 .. LogN - 1 : l = Pow2[t] /\ m = Pow2[LogN - 1 - t]
  BY DEF IsLevel
<1>6. LogN - 1 - t \in 0 .. LogN - 1 /\ LogN - 1 - (LogN - 1 - t) = t
  BY <1>1
<1>7. F(l, m)
  <2>1. F(Pow2[LogN - 1 - (LogN - 1 - t)], Pow2[LogN - 1 - t])
    BY <1>4, <1>6 DEF V
  <2> QED
    BY <1>5, <1>6, <2>1
<1>8. m + b \in Index /\ b \in Index
  <2>1. l \in Nat \ {0} /\ m \in Nat \ {0} /\ m * (2 * l) = N
    BY LevelSize
  <2>2. 2 * m <= N
    BY <2>1
  <2> QED
    BY <2>1, <2>2, Degree, SMTT(60)
<1> QED
  BY <1>7, <1>8

(* A low bit of a number whose bits below it are zero. *)
LEMMA BitRevLow ==
    ASSUME NEW l, NEW m, IsLevel(l, m), NEW c \in 0 .. m - 1
    PROVE  /\ c * (2 * l) \in Index /\ c * (2 * l) + l \in Index
           /\ BitRev[c * (2 * l) + l] = BitRev[c * (2 * l)] + m
<1> DEFINE F(x, y) == \A d \in 0 .. y - 1 : BitRev[d * (2 * x) + x] = BitRev[d * (2 * x)] + y
           V == {s \in 0 .. LogN - 1 : F(Pow2[s], Pow2[LogN - 1 - s])}
<1>1. LogN \in Nat /\ LogN - 1 \in Nat /\ N \in Nat
  BY Degree
<1>2. 0 \in V
  <2> DEFINE h == Pow2[LogN - 1]
  <2>1. Pow2[0] = 1 /\ LogN - 1 - 0 = LogN - 1 /\ N = 2 * h /\ h \in Int
    BY <1>1, PowersDouble, Degree, Power2
  <2> HIDE DEF h
  <2>2. ASSUME NEW d \in 0 .. h - 1
        PROVE  BitRev[d * (2 * 1) + 1] = BitRev[d * (2 * 1)] + h
    <3>1. 2 * d + 0 < N /\ 2 * d + 1 < N /\ d \in Nat
      BY <2>1
    <3>2. 2 * BitRev[2 * d + 0] = BitRev[d] + 0 * N /\ BitRev[2 * d + 0] \in Nat /\ BitRev[d] \in Nat
      BY <3>1, BitRevDouble
    <3>3. 2 * BitRev[2 * d + 1] = BitRev[d] + 1 * N /\ BitRev[2 * d + 1] \in Nat
      BY <3>1, BitRevDouble
    <3>4. 2 * d + 0 = d * (2 * 1) /\ 2 * d + 1 = d * (2 * 1) + 1 /\ 0 * N = 0 /\ 1 * N = N
      BY <1>1
    <3> DEFINE u == d * (2 * 1)
               v == d * (2 * 1) + 1
    <3>5. 2 * BitRev[u] = BitRev[d] /\ BitRev[u] \in Nat
      BY <3>2, <3>4
    <3>6. 2 * BitRev[v] = BitRev[d] + N /\ BitRev[v] \in Nat
      BY <3>3, <3>4
    <3> HIDE DEF u, v
    <3>7. BitRev[v] = BitRev[u] + h
      BY <2>1, <3>2, <3>5, <3>6
    <3> QED
      BY <3>7 DEF u, v
  <2> QED
    BY <1>1, <2>1, <2>2 DEF h
<1>3. ASSUME NEW s \in 0 .. (LogN - 1) - 1, s \in V PROVE s + 1 \in V
  <2> DEFINE x == Pow2[s]
             y == Pow2[LogN - 1 - s]
             z == Pow2[LogN - 1 - (s + 1)]
  <2>1. /\ s \in 0 .. LogN /\ s < LogN /\ s + 1 \in 0 .. LogN - 1 /\ s + 1 \in 0 .. LogN
        /\ LogN - (s + 1) = LogN - 1 - s /\ s + 1 < LogN /\ LogN - 1 - (s + 1) \in 0 .. LogN
    BY <1>1
  <2>2. Pow2[s + 1] = 2 * x /\ y = 2 * z /\ x \in Nat \ {0} /\ z \in Nat \ {0}
    BY <2>1, Power2
  <2>3. (2 * x) * y = N
    BY <2>1, <2>2, Power2
  <2>4. F(x, y)
    BY <1>3
  <2> HIDE DEF x, y, z, F
  <2>5. ASSUME NEW d \in 0 .. z - 1
        PROVE  BitRev[d * (2 * (2 * x)) + 2 * x] = BitRev[d * (2 * (2 * x))] + z
    <3> DEFINE u == d * (2 * x)
    <3>1. d \in 0 .. y - 1
      BY <2>2
    <3>2. u \in Nat /\ d * (2 * (2 * x)) = 2 * u + 0 /\ 2 * u + 2 * x = 2 * (u + x) + 0
      BY <2>2
    <3>3. BitRev[u + x] = BitRev[u] + y
      BY <2>4, <3>1 DEF F
    <3>4. 2 * (u + x) + 0 < N
      <4>1. (d + 1) * (2 * (2 * x)) <= z * (2 * (2 * x))
        BY <2>2
      <4>2. (d + 1) * (2 * (2 * x)) = 2 * u + 4 * x /\ z * (2 * (2 * x)) = (2 * x) * y
        BY <2>2
      <4> QED
        BY <2>2, <2>3, <3>2, <4>1, <4>2
    <3> HIDE DEF u
    <3>5. 2 * u + 0 < N /\ u + x \in Nat
      BY <1>1, <2>2, <3>2, <3>4
    <3>6. 2 * BitRev[2 * u + 0] = BitRev[u] + 0 * N /\ BitRev[2 * u + 0] \in Nat /\ BitRev[u] \in Nat
      BY <3>2, <3>5, BitRevDouble
    <3>7. 2 * BitRev[2 * (u + x) + 0] = BitRev[u + x] + 0 * N /\ BitRev[2 * (u + x) + 0] \in Nat
      BY <3>4, <3>5, BitRevDouble
    <3>8. BitRev[2 * (u + x) + 0] = BitRev[2 * u + 0] + z
      BY <1>1, <2>2, <3>3, <3>6, <3>7
    <3> QED
      BY <3>2, <3>8
  <2>6. F(2 * x, z)
    BY <2>5 DEF F
  <2> QED
    BY <2>1, <2>2, <2>6 DEF z
<1> HIDE DEF V
<1>4. \A s \in 0 .. LogN - 1 : s \in V
  BY <1>1, <1>2, <1>3, InductionUpTo
<1>5. PICK t \in 0 .. LogN - 1 : l = Pow2[t] /\ m = Pow2[LogN - 1 - t]
  BY DEF IsLevel
<1>6. F(l, m)
  BY <1>4, <1>5 DEF V
<1>7. c * (2 * l) \in Index /\ c * (2 * l) + l \in Index
  <2>1. l \in Nat \ {0} /\ m \in Nat \ {0} /\ m * (2 * l) = N
    BY LevelSize
  <2>2. (c + 1) * (2 * l) <= m * (2 * l) /\ (c + 1) * (2 * l) = c * (2 * l) + 2 * l
    BY <2>1
  <2>3. c * (2 * l) \in Nat
    BY <2>1
  <2> QED
    BY <2>1, <2>2, <2>3, Degree, SMTT(60)
<1> QED
  BY <1>6, <1>7

(* Reversing twice. *)
LEMMA BitRevTwice == \A i \in Index : BitRev[BitRev[i]] = i
<1> DEFINE V == {s \in 0 .. LogN : \A i \in Index : i < Pow2[s] => BitRev[BitRev[i]] = i}
<1>1. LogN \in Nat /\ N = Pow2[LogN]
  BY Degree
<1>2. 0 \in V
  <2>1. Pow2[0] = 1
    BY PowersDouble
  <2>2. ASSUME NEW i \in Index, i < Pow2[0] PROVE i = 0
    BY <2>1, <2>2, Degree
  <2> QED
    BY <1>1, <2>2, BitRevZero
<1>3. ASSUME NEW s \in 0 .. LogN - 1, s \in V PROVE s + 1 \in V
  <2> DEFINE m == Pow2[s]
             l == Pow2[LogN - 1 - s]
  <2>1. s \in 0 .. LogN /\ s < LogN /\ s + 1 \in 0 .. LogN /\ LogN - 1 - s \in 0 .. LogN - 1
        /\ LogN - 1 - (LogN - 1 - s) = s
    BY <1>1
  <2>2. Pow2[s + 1] = 2 * m /\ m \in Nat \ {0}
    BY <2>1, Power2
  <2>3. IsLevel(l, m)
    BY <2>1 DEF IsLevel
  <2>4. \A i \in Index : i < m => BitRev[BitRev[i]] = i
    BY <1>3
  <2> HIDE DEF m, l
  <2>5. ASSUME NEW i \in Index, i < 2 * m PROVE BitRev[BitRev[i]] = i
    <3>1. CASE i < m
      BY <2>4, <3>1
    <3>2. CASE ~(i < m)
      <4> DEFINE b == i - m
      <4>1. b \in 0 .. m - 1 /\ i = m + b
        BY <2>2, <2>5, <3>2, Degree
      <4> HIDE DEF b
      <4>2. /\ b \in Index /\ BitRev[m + b] = BitRev[b] + l
            /\ \E q \in Nat : BitRev[b] = q * (2 * l)
        BY <2>3, <4>1, BitRevHigh
      <4>3. PICK q \in Nat : BitRev[b] = q * (2 * l)
        BY <4>2
      <4>4. l \in Nat \ {0} /\ m * (2 * l) = N
        BY <2>3, LevelSize
      <4>5. BitRev[b] < N
        BY <4>2, BitRevTypes, Degree, SMTT(60)
      <4>6. q \in 0 .. m - 1
        <5> SUFFICES ASSUME q >= m
                     PROVE  FALSE
          BY <2>2, <4>3
        <5>1. q * (2 * l) >= m * (2 * l)
          BY <2>2, <4>3, <4>4
        <5> QED
          BY <4>3, <4>4, <4>5, <5>1, Degree
      <4>7. BitRev[q * (2 * l) + l] = BitRev[q * (2 * l)] + m
        BY <2>3, <4>6, BitRevLow
      <4>8. BitRev[BitRev[b]] = b
        BY <2>2, <2>4, <4>1, <4>2
      <4>9. BitRev[BitRev[i]] = b + m
        BY <4>1, <4>2, <4>3, <4>7, <4>8
      <4> QED
        BY <2>2, <4>1, <4>9
    <3> QED
      BY <3>1, <3>2
  <2> QED
    BY <2>1, <2>2, <2>5
<1> HIDE DEF V
<1>4. \A s \in 0 .. LogN : s \in V
  BY <1>1, <1>2, <1>3, InductionUpTo
<1>5. LogN \in V
  BY <1>1, <1>4
<1>6. \A i \in Index : i < Pow2[LogN]
  BY <1>1, Degree
<1>7. \A i \in Index : i < Pow2[LogN] => BitRev[BitRev[i]] = i
  BY <1>5 DEF V
<1> QED
  BY <1>6, <1>7

(* The indices that the backward transform counts through. *)
LEMMA BitRevBackward ==
    ASSUME NEW l, NEW m, IsLevel(l, m), NEW b \in 0 .. m - 1
    PROVE  /\ N - 2 * m + b \in Index /\ m + b \in Index
           /\ BitRev[N - 2 * m + b] + 1 = BitRev[m + b]
<1> DEFINE F(y) == \A c \in 0 .. y - 1 : /\ N - 2 * y + c \in Index /\ y + c \in Index
                                        /\ BitRev[N - 2 * y + c] + 1 = BitRev[y + c]
           V == {s \in 0 .. LogN - 1 : F(Pow2[LogN - 1 - s])}
<1>1. LogN \in Nat /\ LogN - 1 \in Nat /\ N \in Nat /\ N >= 2
  BY Degree
<1> DEFINE h == N \div 2
<1>2. IsLevel(1, h) /\ h \in Nat \ {0} /\ N = 2 * h /\ h = Pow2[LogN - 1]
  BY FirstLevel, Degree, Power2, SMTT(60)
<1> HIDE DEF h
<1>3. 0 \in V
  <2>1. ASSUME NEW c \in 0 .. h - 1
        PROVE  /\ N - 2 * h + c \in Index /\ h + c \in Index
               /\ BitRev[N - 2 * h + c] + 1 = BitRev[h + c]
    <3>1. h + c \in Index /\ c \in Index /\ BitRev[h + c] = BitRev[c] + 1
      BY <1>2, BitRevHigh
    <3>2. N - 2 * h + c = c
      BY <1>2
    <3> QED
      BY <3>1, <3>2
  <2>2. LogN - 1 - 0 = LogN - 1 /\ 0 \in 0 .. LogN - 1
    BY <1>1
  <2> QED
    BY <1>2, <2>1, <2>2
<1>4. ASSUME NEW s \in 0 .. (LogN - 1) - 1, s \in V PROVE s + 1 \in V
  <2> DEFINE y == Pow2[LogN - 1 - (s + 1)]
             z == Pow2[LogN - 1 - s]
  <2>1. /\ s + 1 \in 0 .. LogN - 1 /\ s + 1 \in 0 .. LogN
        /\ LogN - (s + 1) = LogN - 1 - s /\ s + 1 < LogN /\ LogN - 1 - (s + 1) \in 0 .. LogN - 1
        /\ LogN - 1 - (LogN - 1 - (s + 1)) = s + 1
    BY <1>1
  <2>2. z = 2 * y /\ y \in Nat \ {0}
    BY <2>1, Power2
  <2>3. F(z)
    BY <1>4
  <2>4. IsLevel(Pow2[s + 1], y)
    BY <2>1 DEF IsLevel
  <2>5. Pow2[s + 1] \in Nat \ {0} /\ y * (2 * Pow2[s + 1]) = N
    BY <2>4, LevelSize
  <2>6. s + 1 >= 1 /\ s \in 0 .. LogN /\ s < LogN
    BY <1>1
  <2>7. Pow2[s + 1] = 2 * Pow2[s] /\ Pow2[s] \in Nat \ {0}
    BY <2>6, Power2
  <2>8. 4 * y <= N
    <3> DEFINE x == Pow2[s]
    <3>1. x >= 1 /\ x \in Int /\ y * (2 * (2 * x)) = N
      BY <2>5, <2>7
    <3> HIDE DEF x, y
    <3>2. y * x >= y /\ y * (2 * (2 * x)) = 4 * (y * x)
      BY <2>2, <3>1
    <3> QED
      BY <2>2, <3>1, <3>2
  <2> HIDE DEF y, z, F
  <2>9. ASSUME NEW c \in 0 .. y - 1
        PROVE  /\ N - 2 * y + c \in Index /\ y + c \in Index
               /\ BitRev[N - 2 * y + c] + 1 = BitRev[y + c]
    <3> DEFINE b1 == h - 2 * y + c
               b2 == y + c
    <3>1. b1 \in 0 .. h - 1 /\ N - 2 * y + c = h + b1 /\ 2 * b1 + 0 = N - 2 * z + 2 * c /\ 2 * b1 + 0 < N
      BY <1>2, <2>2, <2>8
    <3>2. 2 * c \in 0 .. z - 1 /\ 2 * b2 + 0 = z + 2 * c /\ 2 * b2 + 0 < N /\ b2 \in Nat /\ b1 \in Nat
      BY <1>2, <2>2, <2>8, <3>1
    <3> HIDE DEF b1, b2
    <3>3. BitRev[h + b1] = BitRev[b1] + 1 /\ h + b1 \in Index
      BY <1>2, <3>1, BitRevHigh
    <3>4. 2 * BitRev[2 * b1 + 0] = BitRev[b1] + 0 * N /\ BitRev[b1] \in Nat /\ BitRev[2 * b1 + 0] \in Nat
      BY <3>1, <3>2, BitRevDouble
    <3>5. /\ 2 * BitRev[2 * b2 + 0] = BitRev[b2] + 0 * N /\ BitRev[b2] \in Nat
          /\ BitRev[2 * b2 + 0] \in Nat /\ b2 \in Index
      BY <3>2, BitRevDouble
    <3>6. BitRev[2 * b1 + 0] + 1 = BitRev[2 * b2 + 0]
      <4>1. BitRev[N - 2 * z + 2 * c] + 1 = BitRev[z + 2 * c]
        BY <2>3, <3>2 DEF F
      <4> QED
        BY <3>1, <3>2, <4>1
    <3>7. BitRev[h + b1] + 1 = BitRev[b2]
      BY <1>1, <3>3, <3>4, <3>5, <3>6
    <3> QED
      BY <3>1, <3>3, <3>5, <3>7 DEF b2
  <2>10. F(y)
    BY <2>9 DEF F
  <2> QED
    BY <2>1, <2>10 DEF y
<1> HIDE DEF V
<1>5. \A s \in 0 .. LogN - 1 : s \in V
  BY <1>1, <1>3, <1>4, InductionUpTo
<1>6. PICK t \in 0 .. LogN - 1 : l = Pow2[t] /\ m = Pow2[LogN - 1 - t]
  BY DEF IsLevel
<1>7. F(m)
  BY <1>5, <1>6 DEF V
<1> QED
  BY <1>7

-----------------------------------------------------------------------------
(* Powers of the root, their exponents of either sign.                     *)

LEMMA RowModulus ==
    /\ P \in Nat \ {0} /\ P \in Int /\ P >= 2 /\ 4 * P < B /\ P \in Word
    /\ NewModulusOk(P) /\ PModulus = NewModulus(P) /\ PModulus.p = P
<1>1. P \in Nat \ {0} /\ P >= 2 /\ 4 * P < B /\ P \in Word /\ NewModulusOk(P)
  BY TransformAssumption, ModulusSize
<1>2. PModulus = NewModulus(P) /\ PModulus.p = P
  BY DEF PModulus, NewModulus
<1> QED
  BY <1>1, <1>2

LEMMA TransformModulus ==
    ASSUME SupportsNtt
    PROVE  /\ P \in Nat \ {0} /\ P \in Int /\ P >= 2 /\ 4 * P < B /\ P \in Word /\ NoDivisor(P)
           /\ NewModulusOk(P) /\ PModulus = NewModulus(P) /\ PModulus.p = P
           /\ 2 * N < P /\ 2 * N \in Word /\ N \in Word /\ \A i \in Index : i \in Word
<1>1. P \in Nat \ {0} /\ P >= 2 /\ 4 * P < B /\ P \in Word /\ NewModulusOk(P)
  BY TransformAssumption, ModulusSize
<1>2. NoDivisor(P)
  <2>1. PrimeTable[P]
    BY DEF SupportsNtt, IsPrime
  <2>2. P >= 2 /\ \A d \in 2 .. P - 1 : d * d > P \/ P % d # 0
    BY <1>1, <2>1 DEF PrimeTable
  <2> QED
    BY <1>1, <2>2 DEF NoDivisor
<1>3. 2 * N < P
  <2> DEFINE n == 2 * N
  <2>1. n \in Nat \ {0} /\ P % n = 1 /\ n >= 2
    BY Degree DEF SupportsNtt
  <2> HIDE DEF n
  <2> SUFFICES ASSUME ~(n < P) PROVE FALSE
    BY DEF n
  <2>2. CASE P = n
    <3>1. P = 1 * n + 0 /\ 1 \in Int
      BY <2>1, <2>2
    <3>2. P % n = 0
      BY <1>1, <2>1, <3>1, RemainderUnique
    <3> QED
      BY <2>1, <3>2
  <2>3. CASE P < n
    <3>1. P % n = P
      BY <1>1, <2>1, <2>3, OwnRemainder
    <3> QED
      BY <1>1, <2>1, <3>1
  <2> QED
    BY <1>1, <2>1, <2>2, <2>3
<1>4. PModulus = NewModulus(P) /\ PModulus.p = P
  BY DEF PModulus, NewModulus
<1>5. 2 * N \in Word /\ N \in Word /\ \A i \in Index : i \in Word
  <2>1. Word = 0 .. B - 1 /\ B \in Nat
    BY WordTypes DEF Word
  <2>2. N \in Nat /\ Index = 0 .. N - 1
    BY Degree
  <2>3. 2 * N < B
    BY <1>1, <1>3, <2>1, <2>2
  <2> QED
    BY <2>1, <2>2, <2>3
<1> QED
  BY <1>1, <1>2, <1>3, <1>4, <1>5

(* The table of the powers of a root, with all its powers.                 *)
Tabled(r, g) ==
    /\ PowersOf(g, r) /\ g[2 * N] \in Int /\ g[2 * N] % P = 1 /\ Same(g[N], -1, P)
    /\ \A k \in 0 .. 2 * N - 1 : RootPower[r][k] = g[k] % P

LEMMA RootIsTabled ==
    ASSUME SupportsNtt, NEW r \in Roots
    PROVE  r \in 0 .. P - 1 /\ \E g : Tabled(r, g)
<1>1. /\ P \in Nat \ {0} /\ P >= 2 /\ NoDivisor(P) /\ NewModulusOk(P) /\ PModulus = NewModulus(P)
      /\ 2 * N < P /\ 2 * N \in Word /\ N \in Word /\ P \in Word /\ P \in Int
  BY TransformModulus
<1>2. N \in Nat /\ 2 * N \in Nat \ {0}
  BY Degree
<1>3. r \in 0 .. P - 1
  <2>1. PICK x \in 0 .. P - 1 : r = Power(PModulus, x, (P - 1) \div (2 * N))
    BY DEF Roots
  <2> DEFINE n == (P - 1) \div (2 * N)
  <2>2. n \in Nat /\ n \in Word
    <3> DEFINE d == 2 * N
    <3>1. d \in Nat \ {0} /\ P - 1 \in Nat
      BY <1>1, <1>2
    <3> HIDE DEF d
    <3>2. (P - 1) \div d \in Nat /\ (P - 1) \div d <= P - 1
      BY <1>1, <3>1
    <3> QED
      BY <1>1, <3>2, WordTypes DEF d, Word
  <2> HIDE DEF n
  <2>3. PICK g : PowersOf(g, x)
    <3>1. x \in Int
      BY <1>1, <2>1
    <3> QED
      BY <3>1, PowersExist
  <2>4. r = g[n] % P
    BY <1>1, <2>1, <2>2, <2>3, PowerExact, ZenonT(60) DEF n
  <2>5. g[n] \in Int
    BY <2>2, <2>3 DEF PowersOf
  <2> QED
    BY <1>1, <2>4, <2>5, Remainder
<1>4. PICK g : PowersOf(g, r)
  <2>1. r \in Int
    BY <1>1, <1>3
  <2> QED
    BY <2>1, PowersExist
<1>5. \A n \in Word : n \in Nat /\ g[n] \in Int /\ Power(PModulus, r, n) = g[n] % P
  <2> SUFFICES ASSUME NEW n \in Word
               PROVE  n \in Nat /\ g[n] \in Int /\ Power(PModulus, r, n) = g[n] % P
    OBVIOUS
  <2>1. n \in Nat
    BY WordTypes DEF Word
  <2>2. g[n] \in Int
    BY <1>4, <2>1 DEF PowersOf
  <2> QED
    BY <1>1, <1>3, <1>4, <2>1, <2>2, PowerExact
<1>6. g[2 * N] \in Int /\ g[N] \in Int /\ g[2 * N] % P = 1 /\ g[N] % P # 1
  BY <1>1, <1>5 DEF Roots, IsPrimitiveRoot
<1>7. Same(g[N], -1, P)
  <2> DEFINE y == g[N]
             u == y - 1
             v == y + 1
  <2>1. g[N + N] = y * y /\ N + N = 2 * N
    <3>1. r \in Int
      BY <1>1, <1>3
    <3> QED
      BY <1>2, <1>4, <3>1, PowersAdd
  <2>2. y \in Int /\ (y * y) % P = 1 /\ y % P # 1
    BY <1>6, <2>1
  <2> HIDE DEF y
  <2>3. u \in Int /\ v \in Int /\ u * v = y * y - 1
    BY <2>2
  <2>4. (u * v) % P = 0
    <3> DEFINE s == y * y
    <3>1. s \in Int /\ s % P = 1 /\ u * v = s - 1
      BY <2>2, <2>3
    <3> HIDE DEF s, u, v
    <3> DEFINE k == s \div P
               t == u * v
    <3>2. s = k * P + 1 /\ k \in Int
      BY <1>1, <3>1, Remainder
    <3>3. t = s - 1
      BY <3>1
    <3> HIDE DEF k, t
    <3>4. t = k * P + 0 /\ t \in Int /\ 0 \in Int /\ 0 <= 0 /\ 0 < P
      BY <1>1, <3>1, <3>2, <3>3
    <3>5. t % P = 0
      BY <1>1, <3>2, <3>4, RemainderUnique
    <3> QED
      BY <3>5 DEF t
  <2>5. u % P # 0
    <3> SUFFICES ASSUME u % P = 0 PROVE FALSE
      OBVIOUS
    <3> DEFINE k == u \div P
    <3>1. u = k * P + 0 /\ k \in Int
      BY <1>1, <2>3, Remainder
    <3>2. y = u + 1
      BY <2>2
    <3> HIDE DEF u, k
    <3>3. y = k * P + 1
      BY <1>1, <3>1, <3>2
    <3>4. y % P = 1
      BY <1>1, <2>2, <3>1, <3>3, RemainderUnique
    <3> QED
      BY <2>2, <3>4
  <2> HIDE DEF u, v
  <2>6. v % P = 0
    BY <1>1, <2>3, <2>4, <2>5, EuclidAny
  <2> DEFINE k == v \div P
  <2>7. v = k * P + 0 /\ k \in Int
    BY <1>1, <2>3, <2>6, Remainder
  <2>8. y = -1 + k * P /\ -1 \in Int
    <3>1. y = v - 1
      BY <2>2 DEF v
    <3> HIDE DEF k
    <3> QED
      BY <1>1, <2>7, <3>1
  <2>9. Same(y, -1, P)
    BY <2>2, <2>7, <2>8 DEF Same
  <2> QED
    BY <2>9 DEF y
<1>8. \A k \in 0 .. 2 * N - 1 : RootPower[r][k] = g[k] % P
  <2> SUFFICES ASSUME NEW k \in 0 .. 2 * N - 1 PROVE RootPower[r][k] = g[k] % P
    OBVIOUS
  <2>1. k \in Word
    BY <1>1, <1>2, WordTypes DEF Word
  <2>2. RootPower[r][k] = Power(PModulus, r, k)
    BY DEF RootPower
  <2> QED
    BY <1>5, <2>1, <2>2
<1> QED
  BY <1>3, <1>4, <1>6, <1>7, <1>8 DEF Tabled

RootTo(r, k) == RootPower[r][k % (2 * N)]

LEMMA RootTypes ==
    ASSUME SupportsNtt, NEW r \in Roots, NEW k \in Int
    PROVE  RootTo(r, k) \in 0 .. P - 1 /\ RootTo(r, k) \in Int
<1>1. PICK g : Tabled(r, g)
  BY RootIsTabled
<1>2. k % (2 * N) \in 0 .. 2 * N - 1 /\ k % (2 * N) \in Nat
  BY Degree, SMTT(60)
<1>3. RootTo(r, k) = g[k % (2 * N)] % P /\ g[k % (2 * N)] \in Int
  BY <1>1, <1>2 DEF RootTo, Tabled, PowersOf
<1> DEFINE y == g[k % (2 * N)]
<1>4. y \in Int /\ RootTo(r, k) = y % P /\ P \in Nat \ {0}
  BY <1>3, TransformModulus
<1> HIDE DEF y
<1>5. y % P \in Int /\ 0 <= y % P /\ y % P < P
  BY <1>4, Remainder
<1> QED
  BY <1>4, <1>5

LEMMA RootTimes ==
    ASSUME SupportsNtt, NEW r \in Roots, NEW i \in Int, NEW j \in Int
    PROVE  Same(RootTo(r, i) * RootTo(r, j), RootTo(r, i + j), P)
<1>1. PICK g : Tabled(r, g)
  BY RootIsTabled
<1> DEFINE n == 2 * N
           x == i % n
           y == j % n
           z == (i + j) % n
<1>2. /\ n \in Nat \ {0} /\ P \in Nat \ {0} /\ P \in Int
      /\ \A k \in 0 .. n - 1 : RootPower[r][k] = g[k] % P
      /\ g \in [Nat -> Int] /\ g[n] % P = 1
  BY <1>1, Degree, TransformModulus DEF Tabled, PowersOf
<1>3. RootTo(r, i) = RootPower[r][x] /\ RootTo(r, j) = RootPower[r][y] /\ RootTo(r, i + j) = RootPower[r][z]
  BY DEF RootTo
<1> HIDE DEF n
<1>4. x \in 0 .. n - 1 /\ y \in 0 .. n - 1 /\ z \in 0 .. n - 1 /\ (z = x + y \/ z + n = x + y)
  <2>1. /\ x \in Int /\ 0 <= x /\ x < n /\ i = (i \div n) * n + x /\ i \div n \in Int
        /\ y \in Int /\ 0 <= y /\ y < n /\ j = (j \div n) * n + y /\ j \div n \in Int
    BY <1>2, Remainder
  <2> DEFINE s == i + j
             q1 == i \div n
             q2 == j \div n
             q == q1 + q2
             q3 == q1 + q2 + 1
  <2> HIDE DEF x, y
  <2>2. s = q * n + (x + y) /\ s = q3 * n + (x + y - n) /\ s \in Int /\ q \in Int /\ q3 \in Int
    <3>1. i = q1 * n + x /\ j = q2 * n + y /\ q1 \in Int /\ q2 \in Int
      BY <2>1
    <3> HIDE DEF q1, q2
    <3>2. (q1 + q2) * n = q1 * n + q2 * n /\ (q1 + q2 + 1) * n = q1 * n + q2 * n + n
      BY <1>2, <3>1
    <3> DEFINE u == q1 * n
               v == q2 * n
    <3>3. u \in Int /\ v \in Int
      BY <1>2, <3>1
    <3> HIDE DEF u, v
    <3> QED
      BY <1>2, <2>1, <3>1, <3>2, <3>3 DEF u, v
  <2> HIDE DEF q, q3, s
  <2>3. CASE x + y < n
    <3>1. s % n = x + y
      <4> DEFINE t == x + y
      <4>1. t \in Int /\ 0 <= t /\ t < n /\ s = q * n + t /\ s \in Int /\ q \in Int
        BY <1>2, <2>1, <2>2, <2>3
      <4> HIDE DEF t
      <4>2. s % n = t
        BY <1>2, <4>1, RemainderUnique
      <4> QED
        BY <4>2 DEF t
    <3> QED
      BY <1>2, <2>1, <2>3, <3>1 DEF s
  <2>4. CASE ~(x + y < n)
    <3>1. s % n = x + y - n
      <4> DEFINE t == x + y - n
      <4>1. t \in Int /\ 0 <= t /\ t < n /\ s = q3 * n + t /\ s \in Int /\ q3 \in Int
        BY <1>2, <2>1, <2>2, <2>4
      <4> HIDE DEF t
      <4>2. s % n = t
        BY <1>2, <4>1, RemainderUnique
      <4> QED
        BY <4>2 DEF t
    <3> QED
      BY <1>2, <2>1, <2>4, <3>1 DEF s
  <2> QED
    BY <2>3, <2>4
<1> HIDE DEF x, y, z
<1>5. x \in Nat /\ y \in Nat /\ z \in Nat /\ g[x] \in Int /\ g[y] \in Int /\ g[z] \in Int /\ g[n] \in Int
  <2>1. x \in Nat /\ y \in Nat /\ z \in Nat /\ n \in Nat
    BY <1>2, <1>4
  <2> QED
    BY <1>2, <2>1
<1>6. RootTo(r, i) = g[x] % P /\ RootTo(r, j) = g[y] % P /\ RootTo(r, i + j) = g[z] % P
  <2>1. RootPower[r][x] = g[x] % P /\ RootPower[r][y] = g[y] % P /\ RootPower[r][z] = g[z] % P
    BY <1>2, <1>4
  <2> QED
    BY <1>3, <2>1
<1>7. Same(g[x] * g[y], g[z], P)
  <2>1. g[x + y] = g[x] * g[y]
    <3>1. r \in Int /\ PowersOf(g, r)
      BY <1>1, <1>2, RootIsTabled DEF Tabled
    <3> QED
      BY <1>5, <3>1, PowersAdd
  <2>2. CASE z = x + y
    BY <1>2, <1>5, <2>1, <2>2, SameReflexive
  <2>3. CASE z + n = x + y
    <3>1. g[z + n] = g[z] * g[n]
      <4>1. r \in Int /\ PowersOf(g, r)
        BY <1>1, <1>2, RootIsTabled DEF Tabled
      <4> QED
        BY <1>2, <1>5, <4>1, PowersAdd, ZenonT(60)
    <3>2. Same(g[n], 1, P)
      <4> DEFINE y0 == g[n]
      <4>1. y0 \in Int /\ y0 % P = 1
        BY <1>2, <1>5
      <4> HIDE DEF y0
      <4>2. Same(y0 % P, y0, P)
        BY <1>2, <4>1, SameMod
      <4>3. Same(y0, 1, P)
        BY <1>2, <4>1, <4>2, SameSymmetric
      <4> QED
        BY <4>3 DEF y0
    <3>3. Same(g[z] * g[n], g[z] * 1, P)
      BY <1>2, <1>5, <3>2, SameScaled
    <3> QED
      BY <1>5, <2>1, <2>3, <3>1, <3>3
  <2> QED
    BY <1>4, <2>2, <2>3
<1>8. Same((g[x] % P) * (g[y] % P), g[x] * g[y], P)
  <2>1. Same(g[x] % P, g[x], P) /\ Same(g[y] % P, g[y], P)
    BY <1>2, <1>5, SameMod
  <2> QED
    BY <1>2, <2>1, SameTimes
<1>9. Same(g[z], g[z] % P, P)
  <2>1. Same(g[z] % P, g[z], P)
    BY <1>2, <1>5, SameMod
  <2> QED
    BY <1>2, <2>1, SameSymmetric
<1>10. Same((g[x] % P) * (g[y] % P), g[z], P)
  BY <1>2, <1>7, <1>8, SameTransitive
<1>11. Same((g[x] % P) * (g[y] % P), g[z] % P, P)
  BY <1>2, <1>9, <1>10, SameTransitive
<1> QED
  BY <1>6, <1>11

LEMMA RootHalf ==
    ASSUME SupportsNtt, NEW r \in Roots, NEW k \in Int
    PROVE  Same(RootTo(r, k + N), -RootTo(r, k), P)
<1>1. PICK g : Tabled(r, g)
  BY RootIsTabled
<1>2. /\ N \in Nat /\ N \in 0 .. 2 * N - 1 /\ N % (2 * N) = N /\ P \in Nat \ {0} /\ P \in Int
      /\ RootTo(r, k) \in Int /\ g[N] \in Int
  <2>1. N \in Nat /\ 2 * N \in Nat \ {0} /\ N \in 0 .. 2 * N - 1 /\ N < 2 * N
    BY Degree
  <2>2. N % (2 * N) = N
    BY <2>1, OwnRemainder
  <2> QED
    BY <1>1, <2>1, <2>2, RootTypes, TransformModulus DEF Tabled, PowersOf
<1>3. RootTo(r, N) = g[N] % P
  BY <1>1, <1>2 DEF RootTo, Tabled
<1>4. Same(RootTo(r, N), -1, P)
  <2>1. Same(g[N] % P, g[N], P)
    BY <1>2, SameMod
  <2>2. Same(g[N], -1, P)
    BY <1>1 DEF Tabled
  <2> QED
    BY <1>2, <1>3, <2>1, <2>2, SameTransitive
<1>5. Same(RootTo(r, k) * RootTo(r, N), RootTo(r, k) * (-1), P)
  BY <1>2, <1>4, SameScaled
<1>6. RootTo(r, k) * (-1) = -RootTo(r, k)
  BY <1>2
<1>7. Same(RootTo(r, k + N), RootTo(r, k) * RootTo(r, N), P)
  <2>1. Same(RootTo(r, k) * RootTo(r, N), RootTo(r, k + N), P)
    BY <1>2, RootTimes
  <2> QED
    BY <1>2, <2>1, SameSymmetric
<1> QED
  BY <1>2, <1>5, <1>6, <1>7, SameTransitive

LEMMA RootZero ==
    ASSUME SupportsNtt, NEW r \in Roots
    PROVE  RootTo(r, 0) = 1
<1>1. PICK g : Tabled(r, g)
  BY RootIsTabled
<1>2. 0 \in 0 .. 2 * N - 1 /\ 0 % (2 * N) = 0 /\ g[0] = 1 /\ P \in Nat \ {0} /\ 1 < P
  <2>1. 2 * N \in Nat \ {0} /\ 0 \in 0 .. 2 * N - 1
    BY Degree
  <2>2. 0 % (2 * N) = 0
    BY <2>1, OwnRemainder
  <2>3. g[0] = 1
    BY <1>1 DEF Tabled, PowersOf
  <2> QED
    BY <2>1, <2>2, <2>3, TransformModulus
<1>3. RootTo(r, 0) = 1 % P
  BY <1>1, <1>2 DEF RootTo, Tabled
<1>4. 1 % P = 1
  BY <1>2, OwnRemainder
<1> QED
  BY <1>3, <1>4

-----------------------------------------------------------------------------
(* The butterflies.                                                        *)

LEMMA ScaledExact ==
    ASSUME SupportsNtt, NEW y \in Word, NEW w \in 0 .. P - 1
    PROVE  Scaled1(y, w) \in 0 .. 2 * P - 1 /\ Same(Scaled1(y, w), y * w, P)
<1>1. P \in Nat \ {0} /\ P \in Int /\ P \in Nat /\ NewModulusOk(P) /\ PModulus = NewModulus(P)
  BY TransformModulus
<1> DEFINE t == Scaled1(y, w)
           u == y * w
<1>2. t \in 0 .. 2 * P - 1 /\ t % P = u % P
  BY <1>1, MulShoupExact DEF Scaled1
<1>3. t \in Int /\ u \in Int
  <2>1. y \in Int /\ w \in Int
    BY <1>1, WordTypes DEF Word
  <2> QED
    BY <1>1, <1>2, <2>1
<1> HIDE DEF t, u
<1>4. Same(t % P, t, P) /\ Same(u % P, u, P)
  BY <1>1, <1>3, SameMod
<1>5. Same(t, t % P, P)
  BY <1>1, <1>4, SameSymmetric
<1>6. Same(t, u, P)
  BY <1>1, <1>2, <1>4, <1>5, SameTransitive
<1> QED
  BY <1>2, <1>6 DEF t, u

LEMMA SameShifted ==
    ASSUME NEW x \in Int, NEW q \in Int
    PROVE  Same(x - 2 * q, x, q) /\ Same(x + 2 * q, x, q)
<1>1. x - 2 * q = x + (-2) * q /\ x + 2 * q = x + 2 * q /\ -2 \in Int /\ 2 \in Int
      /\ x - 2 * q \in Int /\ x + 2 * q \in Int
  OBVIOUS
<1> QED
  BY <1>1 DEF Same

LEMMA ButterflyExact ==
    ASSUME SupportsNtt, NEW x \in 0 .. 4 * P - 1, NEW y \in 0 .. 4 * P - 1, NEW w \in 0 .. P - 1
    PROVE  /\ Butterfly(x, y, w)[1] \in 0 .. 4 * P - 1
           /\ Same(Butterfly(x, y, w)[1], x + y * w, P)
           /\ Butterfly(x, y, w)[2] \in 0 .. 4 * P - 1
           /\ Same(Butterfly(x, y, w)[2], x - y * w, P)
<1>1. P \in Nat \ {0} /\ P \in Int /\ 4 * P < B /\ B \in Nat \ {0}
  BY TransformModulus, WordTypes
<1>2. x \in Int /\ y \in Word /\ y \in Int /\ w \in Int
  BY <1>1 DEF Word
<1> DEFINE z == Reduce1(x, 2 * P)
           t == Scaled1(y, w)
           u == y * w
<1>3. t \in 0 .. 2 * P - 1 /\ Same(t, u, P) /\ u \in Int
  BY <1>2, ScaledExact
<1>4. z \in 0 .. 2 * P - 1 /\ Same(z, x, P)
  <2>1. CASE x < 2 * P
    BY <1>1, <1>2, <2>1, SameReflexive DEF Reduce1
  <2>2. CASE ~(x < 2 * P)
    BY <1>1, <1>2, <2>2, SameShifted DEF Reduce1
  <2> QED
    BY <2>1, <2>2
<1>5. Butterfly(x, y, w) = << (z + t) % B, (z + 2 * P - t) % B >>
  BY DEF Butterfly
<1> HIDE DEF z, t, u
<1>6. (z + t) % B = z + t /\ (z + 2 * P - t) % B = z + 2 * P - t
  <2> DEFINE i == z + t
             j == z + 2 * P - t
  <2>1. i \in Int /\ 0 <= i /\ i < B /\ j \in Int /\ 0 <= j /\ j < B
    BY <1>1, <1>3, <1>4
  <2> HIDE DEF i, j
  <2>2. i % B = i /\ j % B = j
    BY <1>1, <2>1, OwnRemainder
  <2> QED
    BY <2>2 DEF i, j
<1>7. Same(z + t, x + u, P)
  BY <1>1, <1>3, <1>4, SameAdd
<1>8. Same(z + 2 * P - t, x - u, P)
  <2>1. Same(-t, -u, P)
    BY <1>1, <1>3, SameNegated
  <2>2. Same(z + (-t), x + (-u), P)
    BY <1>1, <1>4, <2>1, SameAdd
  <2> DEFINE i == z + (-t)
             j == x + (-u)
  <2>3. i \in Int /\ j \in Int /\ z + 2 * P - t = i + 2 * P /\ x - u = j
    BY <1>1, <1>2, <1>3, <1>4
  <2>4. Same(i + 2 * P, i, P)
    BY <1>1, <2>3, SameShifted
  <2>5. Same(i, j, P)
    BY <2>2
  <2> HIDE DEF i, j
  <2> QED
    BY <1>1, <2>3, <2>4, <2>5, SameTransitive
<1>9. z + t \in 0 .. 4 * P - 1 /\ z + 2 * P - t \in 0 .. 4 * P - 1
  BY <1>1, <1>3, <1>4
<1> QED
  BY <1>5, <1>6, <1>7, <1>8, <1>9 DEF u

LEMMA InvButterflyExact ==
    ASSUME SupportsNtt, NEW x \in 0 .. 2 * P - 1, NEW y \in 0 .. 2 * P - 1, NEW w \in 0 .. P - 1
    PROVE  /\ InvButterfly(x, y, w)[1] \in 0 .. 2 * P - 1
           /\ Same(InvButterfly(x, y, w)[1], x + y, P)
           /\ InvButterfly(x, y, w)[2] \in 0 .. 2 * P - 1
           /\ Same(InvButterfly(x, y, w)[2], (x - y) * w, P)
<1>1. P \in Nat \ {0} /\ P \in Int /\ 4 * P < B /\ B \in Nat \ {0}
  BY TransformModulus, WordTypes
<1>2. x \in Int /\ y \in Int /\ w \in Int
  BY <1>1
<1> DEFINE s == x + y
           d == 2 * P + x - y
<1>3. s \in 0 .. 4 * P - 1 /\ d \in 0 .. 4 * P - 1 /\ d \in Word /\ s \in Int /\ d \in Int
      /\ s < B /\ d < B /\ 0 <= s /\ 0 <= d
  BY <1>1, <1>2 DEF Word
<1>4. Same(d, x - y, P)
  <2> DEFINE i == x - y
  <2>1. i \in Int /\ d = i + 2 * P
    BY <1>1, <1>2
  <2> HIDE DEF i, d
  <2>2. Same(d, i, P)
    BY <1>1, <2>1, SameShifted
  <2> QED
    BY <2>2 DEF i
<1>5. InvButterfly(x, y, w) = << Reduce1(s % B, 2 * P), Scaled1(d % B, w) >>
  BY DEF InvButterfly
<1>6. s = x + y
  OBVIOUS
<1> HIDE DEF s, d
<1>7. s % B = s /\ d % B = d
  BY <1>1, <1>3, OwnRemainder
<1>8. Reduce1(s, 2 * P) \in 0 .. 2 * P - 1 /\ Same(Reduce1(s, 2 * P), s, P)
  <2>1. CASE s < 2 * P
    BY <1>1, <1>3, <2>1, SameReflexive DEF Reduce1
  <2>2. CASE ~(s < 2 * P)
    BY <1>1, <1>3, <2>2, SameShifted DEF Reduce1
  <2> QED
    BY <2>1, <2>2
<1>9. Scaled1(d, w) \in 0 .. 2 * P - 1 /\ Same(Scaled1(d, w), d * w, P)
  BY <1>3, ScaledExact
<1>10. Same(d * w, (x - y) * w, P)
  <2>1. Same(w, w, P)
    BY <1>1, <1>2, SameReflexive
  <2> QED
    BY <1>1, <1>4, <2>1, SameTimes
<1>11. Same(Scaled1(d, w), (x - y) * w, P)
  BY <1>1, <1>9, <1>10, SameTransitive
<1> QED
  BY <1>5, <1>6, <1>7, <1>8, <1>9, <1>11

LEMMA Reduce3Exact ==
    ASSUME SupportsNtt, NEW x \in 0 .. 4 * P - 1
    PROVE  Reduce3(x) \in 0 .. P - 1 /\ Same(Reduce3(x), x, P) /\ Reduce3(x) = x % P
<1>1. P \in Nat \ {0} /\ P \in Int /\ x \in Int
  BY TransformModulus
<1> DEFINE y == Reduce1(x, 2 * P)
           z == Reduce1(y, P)
<1>2. y \in 0 .. 2 * P - 1 /\ Same(y, x, P) /\ y \in Int
  <2>1. CASE x < 2 * P
    BY <1>1, <2>1, SameReflexive DEF Reduce1
  <2>2. CASE ~(x < 2 * P)
    BY <1>1, <2>2, SameShifted DEF Reduce1
  <2> QED
    BY <2>1, <2>2
<1>3. Reduce3(x) = z
  BY DEF Reduce3
<1> HIDE DEF y
<1>4. z \in 0 .. P - 1 /\ Same(z, y, P) /\ z \in Int
  <2>1. CASE y < P
    BY <1>1, <1>2, <2>1, SameReflexive DEF Reduce1
  <2>2. CASE ~(y < P)
    <3>1. y - P = y + (-1) * P /\ -1 \in Int /\ y - P \in Int
      BY <1>1, <1>2
    <3>2. Same(y - P, y, P)
      BY <1>2, <3>1 DEF Same
    <3> QED
      BY <1>1, <1>2, <2>2, <3>2 DEF Reduce1
  <2> QED
    BY <2>1, <2>2
<1> HIDE DEF z
<1>5. Same(z, x, P)
  BY <1>1, <1>2, <1>4, SameTransitive
<1>6. z % P = x % P
  BY <1>1, <1>5, SameEqual
<1>7. z % P = z
  BY <1>1, <1>4, OwnRemainder
<1> QED
  BY <1>3, <1>4, <1>5, <1>6, <1>7

LEMMA RootPeriod ==
    ASSUME NEW r, NEW k \in Int, NEW q \in Int, NEW x, x = k + q * (2 * N)
    PROVE  RootTo(r, x) = RootTo(r, k)
<1> DEFINE n == 2 * N
<1>1. n \in Nat \ {0} /\ n \in Int /\ x = k + q * n
  BY Degree
<1> HIDE DEF n
<1>2. x \in Int
  BY <1>1
<1>3. Same(x, k, n)
  BY <1>1, <1>2 DEF Same
<1>4. x % n = k % n
  BY <1>1, <1>3, SameEqual
<1> QED
  BY <1>4 DEF RootTo, n

-----------------------------------------------------------------------------
(* At chunks of s entries, entry j of chunk b holds the polynomial's terms *)
(* with index j modulo s, folded with powers of the root.                  *)

ClassOf(s, j) == {k \in Index : k % s = j}

FoldTerms(w, r, s, b) == [k \in Index |-> w[k] * RootTo(r, (2 * BitRev[b] + s) * (k \div s))]

Fold(w, r, s, b, j) == SumFunctionOnSet(FoldTerms(w, r, s, b), ClassOf(s, j))

LEMMA FoldTypes ==
    ASSUME SupportsNtt, NEW r \in Roots, NEW w \in [Index -> Int],
           NEW s \in Nat \ {0}, NEW b \in Index, NEW S, S \subseteq Index
    PROVE  /\ Terms(FoldTerms(w, r, s, b), S)
           /\ \A k \in Index : (2 * BitRev[b] + s) * (k \div s) \in Int
           /\ \A j : Fold(w, r, s, b, j) \in Int
<1>1. IsFiniteSet(Index) /\ \A k \in Index : k \in Nat
  <2>1. N - 1 \in Int /\ 0 \in Int /\ Index = 0 .. N - 1
    BY Degree
  <2> QED
    BY <2>1, FS_Interval
<1>2. BitRev[b] \in Int
  BY BitRevTypes, Degree
<1>3. ASSUME NEW k \in Index
      PROVE  (2 * BitRev[b] + s) * (k \div s) \in Int /\ FoldTerms(w, r, s, b)[k] \in Int
  <2> DEFINE e == (2 * BitRev[b] + s) * (k \div s)
  <2>1. e \in Int
    <3>1. k \div s \in Int /\ 2 * BitRev[b] + s \in Int
      BY <1>1, <1>2
    <3> QED
      BY <3>1
  <2>2. FoldTerms(w, r, s, b)[k] = w[k] * RootTo(r, e) /\ w[k] \in Int
    BY DEF FoldTerms
  <2> HIDE DEF e
  <2>3. RootTo(r, e) \in Int
    BY <2>1, RootTypes
  <2> QED
    BY <2>1, <2>2, <2>3 DEF e
<1>4. ASSUME NEW U, U \subseteq Index PROVE Terms(FoldTerms(w, r, s, b), U)
  <2>1. IsFiniteSet(U)
    BY <1>1, <1>4, FS_Subset
  <2>2. \A k \in U : FoldTerms(w, r, s, b)[k] \in Int
    BY <1>3, <1>4
  <2> QED
    BY <2>1, <2>2 DEF Terms
<1>5. ASSUME NEW j PROVE Fold(w, r, s, b, j) \in Int
  <2>1. Terms(FoldTerms(w, r, s, b), ClassOf(s, j))
    BY <1>4 DEF ClassOf
  <2> QED
    BY <2>1, SumInt DEF Fold
<1> QED
  BY <1>3, <1>4, <1>5

(* An index in chunks of 2 l and of l. *)
LEMMA HalfChunk ==
    ASSUME NEW l \in Nat \ {0}, NEW k \in Nat
    PROVE  /\ k \div (2 * l) \in Nat /\ k % (2 * l) \in 0 .. 2 * l - 1
           /\ k = (k \div (2 * l)) * (2 * l) + (k % (2 * l))
           /\ k % (2 * l) < l => k % l = k % (2 * l) /\ k \div l = 2 * (k \div (2 * l))
           /\ ~(k % (2 * l) < l) => k % l = (k % (2 * l)) - l /\ k \div l = 2 * (k \div (2 * l)) + 1
<1> DEFINE n == 2 * l
           q == k \div n
           x == k % n
<1>1. n \in Nat \ {0} /\ l \in Int /\ k \in Int
  OBVIOUS
<1> HIDE DEF n
<1>2. k = q * n + x /\ q \in Int /\ x \in Int /\ 0 <= x /\ x < n
  BY <1>1, Remainder
<1>3. q \in Nat
  BY <1>1
<1> HIDE DEF q, x
<1>4. q * n = (2 * q) * l /\ (2 * q + 1) * l = (2 * q) * l + l /\ (2 * q) * l \in Int
  BY <1>1, <1>2 DEF n
<1>5. CASE x < l
  <2> DEFINE q1 == 2 * q
  <2>1. k = q1 * l + x /\ q1 \in Int /\ x \in Int /\ 0 <= x /\ x < l
    BY <1>2, <1>4, <1>5
  <2> HIDE DEF q1
  <2>2. k % l = x /\ k \div l = q1
    BY <1>1, <2>1, RemainderUnique, QuotientUnique
  <2> QED
    BY <1>2, <1>3, <1>5, <2>2 DEF n, q, x, q1
<1>6. CASE ~(x < l)
  <2> DEFINE q1 == 2 * q + 1
             y == x - l
  <2>1. k = q1 * l + y /\ q1 \in Int /\ y \in Int /\ 0 <= y /\ y < l
    <3>1. q1 * l = q * n + l /\ q1 \in Int
      BY <1>2, <1>4
    <3> DEFINE u == q * n
    <3>2. u \in Int /\ k = u + x
      BY <1>1, <1>2
    <3> HIDE DEF u, q1
    <3>3. k = q1 * l + y
      BY <1>2, <3>1, <3>2 DEF u
    <3> QED
      BY <1>2, <1>6, <3>1, <3>3 DEF n
  <2> HIDE DEF q1, y
  <2>2. k % l = y /\ k \div l = q1
    BY <1>1, <2>1, RemainderUnique, QuotientUnique
  <2> QED
    BY <1>2, <1>3, <1>6, <2>2 DEF n, q, x, q1, y
<1> QED
  BY <1>5, <1>6

LEMMA ClassSplits ==
    ASSUME NEW l \in Nat \ {0}, NEW j \in 0 .. l - 1
    PROVE  /\ ClassOf(l, j) = ClassOf(2 * l, j) \cup ClassOf(2 * l, j + l)
           /\ ClassOf(2 * l, j) \cap ClassOf(2 * l, j + l) = {}
           /\ \A k \in ClassOf(2 * l, j) : k \div l = 2 * (k \div (2 * l))
           /\ \A k \in ClassOf(2 * l, j + l) : k \div l = 2 * (k \div (2 * l)) + 1
<1>1. ASSUME NEW k \in Index
      PROVE  /\ k % l = j <=> k % (2 * l) = j \/ k % (2 * l) = j + l
             /\ k % (2 * l) = j => k \div l = 2 * (k \div (2 * l))
             /\ k % (2 * l) = j + l => k \div l = 2 * (k \div (2 * l)) + 1
  <2> DEFINE x == k % (2 * l)
             y == k % l
             q == k \div (2 * l)
             u == k \div l
  <2>1. k \in Nat
    BY Degree
  <2>2. /\ x \in 0 .. 2 * l - 1
        /\ x < l => y = x /\ u = 2 * q
        /\ ~(x < l) => y = x - l /\ u = 2 * q + 1
    BY <2>1, HalfChunk
  <2> HIDE DEF x, y, q, u
  <2>3. /\ y = j <=> x = j \/ x = j + l
        /\ x = j => u = 2 * q
        /\ x = j + l => u = 2 * q + 1
    BY <2>2
  <2> QED
    BY <2>3 DEF x, y, q, u
<1>2. j # j + l
  OBVIOUS
<1> QED
  BY <1>1, <1>2 DEF ClassOf

(* What the butterfly of a chunk multiplies by. *)
Twist(r, l, b) == RootTo(r, BitRev[b] + l)

LEMMA ChunkSplits ==
    ASSUME NEW l, NEW m, IsLevel(l, m), NEW b \in 0 .. m - 1, NEW d \in 0 .. 1
    PROVE  /\ l \in Nat \ {0} /\ 2 * l \in Nat \ {0} /\ m \in Nat \ {0}
           /\ b \in Index /\ 2 * b + d \in Index /\ b \in Nat /\ 2 * b + d \in 0 .. 2 * m - 1
           /\ BitRev[b] \in Int /\ BitRev[2 * b + d] \in Int
           /\ 2 * BitRev[2 * b + d] = BitRev[b] + d * N
<1>1. l \in Nat \ {0} /\ m \in Nat \ {0} /\ m * (2 * l) = N
  BY LevelSize
<1>2. 2 * m <= N
  BY <1>1
<1>3. b \in Nat /\ 2 * b + d < N /\ 2 * b + d \in 0 .. 2 * m - 1
  BY <1>1, <1>2, Degree
<1>4. /\ b \in Index /\ 2 * b + d \in Index /\ BitRev[b] \in Nat /\ BitRev[2 * b + d] \in Nat
      /\ 2 * BitRev[2 * b + d] = BitRev[b] + d * N
  BY <1>3, BitRevDouble
<1>5. 2 * l \in Nat \ {0} /\ BitRev[b] \in Int /\ BitRev[2 * b + d] \in Int
  BY <1>1, <1>4
<1> QED
  BY <1>1, <1>3, <1>4, <1>5

LEMMA FoldSplitsBy ==
    ASSUME SupportsNtt, NEW r \in Roots, NEW w \in [Index -> Int],
           NEW l, NEW m, IsLevel(l, m), NEW b \in 0 .. m - 1, NEW j \in 0 .. l - 1, NEW d \in 0 .. 1,
           NEW t, t = Twist(r, l, b), NEW c, c = IF d = 0 THEN t ELSE -t
    PROVE  Same(Fold(w, r, l, 2 * b + d, j),
                Fold(w, r, 2 * l, b, j) + c * Fold(w, r, 2 * l, b, j + l), P)
<1> DEFINE z == BitRev[b] + l
           b2 == 2 * b + d
           e == 2 * BitRev[b] + 2 * l
           e2 == 2 * BitRev[b2] + l
           f == FoldTerms(w, r, l, b2)
           g == FoldTerms(w, r, 2 * l, b)
           Low == ClassOf(2 * l, j)
           High == ClassOf(2 * l, j + l)
<1>1. /\ l \in Nat \ {0} /\ 2 * l \in Nat \ {0} /\ b \in Index /\ b2 \in Index
      /\ P \in Int /\ N \in Int /\ (d = 0 \/ d = 1)
  <2>1. l \in Nat \ {0} /\ 2 * l \in Nat \ {0} /\ b \in Index /\ b2 \in Index
    BY ChunkSplits
  <2>2. P \in Int /\ N \in Int
    BY TransformModulus, Degree
  <2> QED
    BY <2>1, <2>2
<1>2. z \in Int /\ e = 2 * z /\ e2 = z + d * N /\ e2 \in Int
  <2>1. BitRev[b] \in Int /\ 2 * BitRev[b2] = BitRev[b] + d * N /\ BitRev[b2] \in Int
    BY ChunkSplits
  <2>2. d * N \in Int
    BY <1>1
  <2> QED
    BY <1>1, <2>1, <2>2
<1>3. /\ \A k \in Index : f[k] = w[k] * RootTo(r, e2 * (k \div l)) /\ w[k] \in Int
      /\ \A k \in Index : g[k] = w[k] * RootTo(r, e * (k \div (2 * l)))
      /\ \A k \in Index : k \div (2 * l) \in Int
  <2>1. \A k \in Index : k \div (2 * l) \in Int
    BY <1>1, Degree
  <2> QED
    BY <2>1 DEF FoldTerms
<1>4. t \in Int /\ t = RootTo(r, z) /\ c \in Int
  BY <1>2, RootTypes DEF Twist
<1>5. /\ Low \subseteq Index /\ High \subseteq Index /\ Low \cap High = {}
      /\ ClassOf(l, j) = Low \cup High
      /\ \A k \in Low : k \div l = 2 * (k \div (2 * l))
      /\ \A k \in High : k \div l = 2 * (k \div (2 * l)) + 1
  BY <1>1, ClassSplits, ZenonT(60) DEF ClassOf
<1>6. /\ Terms(f, Low \cup High) /\ Terms(f, Low) /\ Terms(f, High)
      /\ Terms(g, Low) /\ Terms(g, High)
  <2>1. Low \cup High \subseteq Index
    BY <1>5
  <2> QED
    BY <1>1, <1>5, <2>1, FoldTypes
<1> HIDE DEF z, e, e2, b2, f, g, Low, High
<1>7. ASSUME NEW k \in Low PROVE f[k] = g[k]
  <2> DEFINE q == k \div (2 * l)
  <2>1. q \in Int /\ k \div l = 2 * q /\ k \in Index
    BY <1>3, <1>5
  <2> HIDE DEF q
  <2>2. e2 * (2 * q) = e * q + (d * q) * (2 * N) /\ e * q \in Int /\ d * q \in Int
    <3>1. (z + d * N) * (2 * q) = (2 * z) * q + (d * q) * (2 * N)
      <4>1. CASE d = 0
        BY <1>1, <1>2, <2>1, <4>1
      <4>2. CASE d = 1
        BY <1>1, <1>2, <2>1, <4>2
      <4> QED
        BY <1>1, <4>1, <4>2
    <3> QED
      BY <1>1, <1>2, <2>1, <3>1
  <2>3. RootTo(r, e2 * (2 * q)) = RootTo(r, e * q)
    BY <2>2, RootPeriod
  <2> QED
    BY <1>3, <2>1, <2>3 DEF q
<1>8. ASSUME NEW k \in High PROVE Same(f[k], c * g[k], P)
  <2> DEFINE q == k \div (2 * l)
             s == e * q
             x == z + s
             v == w[k]
             h == RootTo(r, s)
             y == RootTo(r, e2 * (2 * q + 1))
  <2>1. q \in Int /\ k \div l = 2 * q + 1 /\ k \in Index /\ v \in Int
    BY <1>3, <1>5
  <2> HIDE DEF q
  <2>2. e2 * (2 * q + 1) = (x + d * N) + (d * q) * (2 * N) /\ s \in Int /\ d * q \in Int
        /\ x \in Int /\ x + d * N \in Int
    <3>1. (z + d * N) * (2 * q + 1) = ((z + (2 * z) * q) + d * N) + (d * q) * (2 * N)
      <4>1. CASE d = 0
        BY <1>1, <1>2, <2>1, <4>1
      <4>2. CASE d = 1
        BY <1>1, <1>2, <2>1, <4>2
      <4> QED
        BY <1>1, <4>1, <4>2
    <3> QED
      BY <1>1, <1>2, <2>1, <3>1
  <2>3. y = RootTo(r, x + d * N)
    BY <2>2, RootPeriod
  <2>4. f[k] = v * y /\ g[k] = v * h /\ h \in Int
    BY <1>3, <2>1, <2>2, RootTypes DEF q
  <2>5. Same(t * h, RootTo(r, x), P) /\ RootTo(r, x) \in Int
    BY <1>2, <1>4, <2>2, RootTimes, RootTypes
  <2>6. y \in Int
    BY <2>2, <2>3, RootTypes
  <2>7. RootTo(r, x + N) \in Int /\ Same(RootTo(r, x + N), -RootTo(r, x), P)
    BY <1>1, <2>2, RootTypes, RootHalf
  <2>8. d = 0 => y = RootTo(r, x)
    BY <1>1, <2>2, <2>3
  <2>9. d = 1 => y = RootTo(r, x + N)
    BY <1>1, <2>2, <2>3
  <2> DEFINE u == RootTo(r, x)
  <2> HIDE DEF s, x, v, h, y, u
  <2>10. Same(y, c * h, P)
    <3>1. Same(u, t * h, P)
      BY <1>1, <2>5, SameSymmetric DEF u
    <3>2. CASE d = 0
      BY <2>8, <3>1, <3>2 DEF u
    <3>3. CASE d = 1
      <4>1. Same(-u, -(t * h), P)
        BY <1>1, <3>1, SameNegated
      <4>2. -(t * h) = c * h
        <5>1. c = -t
          BY <3>3
        <5> QED
          BY <1>4, <2>4, <5>1
      <4>3. Same(y, -u, P)
        BY <2>7, <2>9, <3>3 DEF u
      <4> QED
        BY <1>1, <4>1, <4>2, <4>3, SameTransitive
    <3> QED
      BY <1>1, <3>2, <3>3
  <2>11. Same(v * y, v * (c * h), P)
    BY <1>1, <2>1, <2>10, SameScaled DEF v
  <2>12. v * (c * h) = c * (v * h)
    BY <1>4, <2>1, <2>4 DEF v
  <2> QED
    BY <2>4, <2>11, <2>12
<1> DEFINE X == SumFunctionOnSet(g, Low)
           Y == SumFunctionOnSet(g, High)
           fl == SumFunctionOnSet(f, Low)
           fh == SumFunctionOnSet(f, High)
           cg == [k \in High |-> c * g[k]]
<1>9. SumFunctionOnSet(f, Low \cup High) = fl + fh
  BY <1>5, <1>6, SumUnion
<1>10. fl = X /\ X \in Int /\ Y \in Int
  BY <1>6, <1>7, SumEqual, SumInt
<1>11. SumFunctionOnSet(cg, High) = c * Y
  <2>1. \A k \in High : cg[k] = c * g[k]
    OBVIOUS
  <2> HIDE DEF cg
  <2> QED
    BY <1>4, <1>6, <2>1, SumScaled
<1>12. Same(fh, SumFunctionOnSet(cg, High), P)
  <2>1. \A k \in High : cg[k] = c * g[k] /\ cg[k] \in Int
    <3>1. ASSUME NEW k \in High PROVE c * g[k] \in Int
      <4>1. g[k] \in Int
        BY <1>6 DEF Terms
      <4> QED
        BY <1>4, <4>1
    <3> QED
      BY <3>1
  <2>2. Terms(cg, High)
    BY <1>6, <2>1 DEF Terms
  <2>3. \A k \in High : Same(f[k], cg[k], P)
    BY <1>8, <2>1
  <2> HIDE DEF cg
  <2> QED
    BY <1>1, <1>6, <2>2, <2>3, SumCongruent
<1> HIDE DEF X, Y, fl, fh, cg
<1>13. Same(fl + fh, X + c * Y, P)
  <2>1. Same(fl, X, P)
    BY <1>1, <1>10, SameReflexive
  <2>2. Same(fh, c * Y, P)
    BY <1>11, <1>12
  <2> QED
    BY <1>1, <2>1, <2>2, SameAdd
<1>14. Fold(w, r, l, 2 * b + d, j) = fl + fh
  BY <1>5, <1>9 DEF Fold, b2, f
<1>15. Fold(w, r, 2 * l, b, j) = X /\ Fold(w, r, 2 * l, b, j + l) = Y
  BY DEF Fold, X, Y, g, Low, High
<1> QED
  BY <1>13, <1>14, <1>15

(* One chunk of all the entries: the polynomial itself. *)
LEMMA FoldWhole ==
    ASSUME SupportsNtt, NEW r \in Roots, NEW w \in [Index -> Int], NEW j \in Index
    PROVE  Fold(w, r, N, 0, j) = w[j]
<1>1. N \in Nat \ {0} /\ 0 \in Index /\ \A k \in Index : k \in Int /\ 0 <= k /\ k < N
  BY Degree
<1>2. \A k \in Index : k % N = k /\ k \div N = 0
  BY <1>1
<1>3. ClassOf(N, j) = {j} /\ {j} \subseteq Index
  BY <1>2 DEF ClassOf
<1> DEFINE f == FoldTerms(w, r, N, 0)
           e == 2 * BitRev[0] + N
<1>4. e \in Int
  <2>1. BitRev[0] \in Int
    BY <1>1, BitRevTypes, Degree
  <2> QED
    BY <1>1, <2>1
<1>5. f[j] = w[j] * RootTo(r, e * (j \div N))
  BY DEF FoldTerms
<1> HIDE DEF e
<1>6. f[j] = w[j]
  <2>1. e * 0 = 0 /\ w[j] * 1 = w[j]
    BY <1>4
  <2>2. RootTo(r, e * (j \div N)) = 1
    BY <1>2, <2>1, RootZero
  <2> QED
    BY <1>5, <2>1, <2>2
<1>7. Terms(f, {j})
  BY <1>1, <1>3, FoldTypes
<1>8. SumFunctionOnSet(f, {j}) = f[j]
  <2> HIDE DEF f
  <2> QED
    BY <1>7, SumOnly
<1> QED
  BY <1>3, <1>6, <1>8 DEF Fold

(* Chunks of one entry: the values at the odd powers of the root. *)
LEMMA FoldOne ==
    ASSUME SupportsNtt, NEW r \in Roots, NEW w \in [Index -> Int], NEW b \in Index
    PROVE  /\ Fold(w, r, 1, b, 0) \in Int
           /\ Evaluate(w, r, b) = Fold(w, r, 1, b, 0) % P
           /\ Evaluate(w, r, b) \in 0 .. P - 1
           /\ Same(Evaluate(w, r, b), Fold(w, r, 1, b, 0), P)
<1>1. \A k \in Index : k \in Int /\ k % 1 = 0 /\ k \div 1 = k
  BY Degree
<1>2. ClassOf(1, 0) = Index
  BY <1>1 DEF ClassOf
<1>3. FoldTerms(w, r, 1, b)
        = [j \in Index |-> w[j] * RootPower[r][((2 * BitRev[b] + 1) * j) % (2 * N)]]
  BY <1>1 DEF FoldTerms, RootTo
<1> DEFINE f == FoldTerms(w, r, 1, b)
           s == Fold(w, r, 1, b, 0)
<1>4. DOMAIN f = Index
  BY DEF FoldTerms
<1>5. Evaluate(w, r, b) = SumFunction(f) % P
  BY <1>3 DEF Evaluate
<1> HIDE DEF f
<1>6. SumFunction(f) = SumFunctionOnSet(f, Index)
  BY <1>4 DEF SumFunction
<1>7. Evaluate(w, r, b) = s % P
  BY <1>2, <1>5, <1>6 DEF Fold, f
<1>8. s \in Int
  BY FoldTypes
<1> HIDE DEF s
<1>9. P \in Nat \ {0}
  BY TransformModulus
<1>10. s % P \in 0 .. P - 1
  BY <1>8, <1>9, Remainder
<1>11. Same(s % P, s, P)
  BY <1>8, <1>9, SameMod
<1> QED
  BY <1>7, <1>8, <1>10, <1>11 DEF s

(* Where an entry is in its chunk, and where its partner is.               *)
LEMMA ChunkIndex ==
    ASSUME NEW l, NEW m, IsLevel(l, m), NEW x \in Index,
           NEW c, c = x \div (2 * l), NEW y, y = x % (2 * l)
    PROVE  /\ c \in 0 .. m - 1 /\ y \in 0 .. 2 * l - 1
           /\ y < l => /\ x + l \in Index /\ (x + l) \div (2 * l) = c /\ (x + l) % (2 * l) = y + l
                       /\ x \div l = 2 * c + 0 /\ x % l = y /\ y \in 0 .. l - 1
           /\ ~(y < l) => /\ x - l \in Index /\ (x - l) \div (2 * l) = c
                          /\ (x - l) % (2 * l) = y - l
                          /\ x \div l = 2 * c + 1 /\ x % l = y - l /\ y - l \in 0 .. l - 1
<1> DEFINE n == 2 * l
<1>1. l \in Nat \ {0} /\ m \in Nat \ {0} /\ m * n = N /\ n \in Nat \ {0} /\ l \in Int /\ x \in Nat
      /\ x \in Int /\ x < N
  <2>1. l \in Nat \ {0} /\ m \in Nat \ {0} /\ m * n = N
    BY LevelSize
  <2>2. x \in Nat /\ x < N
    BY Degree
  <2> QED
    BY <2>1, <2>2
<1>2. /\ c \in Nat /\ y \in 0 .. n - 1 /\ x = c * n + y
      /\ y < l => x % l = y /\ x \div l = 2 * c
      /\ ~(y < l) => x % l = y - l /\ x \div l = 2 * c + 1
  BY <1>1, HalfChunk
<1>3. c \in Int /\ y \in Int /\ 0 <= y /\ y < n
  BY <1>1, <1>2
<1>4. n = 2 * l
  OBVIOUS
<1> HIDE DEF n
<1>5. c <= m - 1
  <2> SUFFICES ASSUME c >= m PROVE FALSE
    BY <1>1, <1>3
  <2> DEFINE u == c * n
             v == m * n
  <2>1. u \in Int /\ v \in Int /\ u >= v
    BY <1>1, <1>3
  <2>2. x = u + y /\ v = N
    BY <1>1, <1>2
  <2> HIDE DEF u, v
  <2> QED
    BY <1>1, <1>3, <2>1, <2>2
<1>6. ASSUME NEW z \in Int, 0 <= z, z < n, NEW e, e = c * n + z
      PROVE  e \in Index /\ e \div n = c /\ e % n = z
  <2> DEFINE u == c * n
             v == m * n
  <2>1. u \in Int /\ v \in Int /\ u + n <= v /\ 0 <= u
    <3>1. (c + 1) * n <= m * n /\ (c + 1) * n = u + n
      BY <1>1, <1>3, <1>5
    <3>2. 0 <= u /\ u \in Int /\ v \in Int
      BY <1>1, <1>2
    <3> QED
      BY <3>1, <3>2
  <2>2. e = u + z /\ v = N
    BY <1>1, <1>6
  <2>3. e \in Int /\ 0 <= e /\ e < N
    <3> HIDE DEF u, v
    <3> QED
      BY <1>1, <1>6, <2>1, <2>2
  <2>4. e % n = z /\ e \div n = c
    BY <1>1, <1>3, <1>6, <2>3, RemainderUnique, QuotientUnique
  <2> QED
    BY <2>3, <2>4, Degree
<1>7. ASSUME y < l
      PROVE  x + l \in Index /\ (x + l) \div n = c /\ (x + l) % n = y + l
  <2> DEFINE z == y + l
             e == x + l
             u == c * n
  <2>1. u \in Int /\ x = u + y
    BY <1>1, <1>2, <1>3
  <2>2. z \in Int /\ 0 <= z /\ z < n /\ e = u + z
    <3> HIDE DEF u
    <3> QED
      BY <1>1, <1>3, <1>4, <1>7, <2>1
  <2>3. e = c * n + z
    BY <2>2
  <2> HIDE DEF z, e, u
  <2>4. e \in Index /\ e \div n = c /\ e % n = z
    BY <1>6, <2>2, <2>3
  <2> QED
    BY <2>4 DEF z, e
<1>8. ASSUME ~(y < l)
      PROVE  x - l \in Index /\ (x - l) \div n = c /\ (x - l) % n = y - l
  <2> DEFINE z == y - l
             e == x - l
             u == c * n
  <2>1. u \in Int /\ x = u + y
    BY <1>1, <1>2, <1>3
  <2>2. z \in Int /\ 0 <= z /\ z < n /\ e = u + z
    <3> HIDE DEF u
    <3> QED
      BY <1>1, <1>3, <1>4, <1>8, <2>1
  <2>3. e = c * n + z
    BY <2>2
  <2> HIDE DEF z, e, u
  <2>4. e \in Index /\ e \div n = c /\ e % n = z
    BY <1>6, <2>2, <2>3
  <2> QED
    BY <2>4 DEF z, e
<1>9. 2 * c + 0 = 2 * c
  BY <1>3
<1> QED
  BY <1>1, <1>2, <1>3, <1>4, <1>5, <1>7, <1>8, <1>9

-----------------------------------------------------------------------------
(* The factors of the butterflies.                                         *)

LEMMA ForwardTwist ==
    ASSUME SupportsNtt, NEW r \in Roots, NEW l, NEW m, IsLevel(l, m), NEW b \in 0 .. m - 1
    PROVE  Omegas[r][m + b] = Twist(r, l, b) /\ Twist(r, l, b) \in 0 .. P - 1
<1> DEFINE n == BitRev[m + b]
<1>1. m + b \in Index /\ n = BitRev[b] + l
  BY BitRevHigh
<1>2. n \in Index /\ n \in 0 .. 2 * N - 1 /\ n \in Int /\ 0 <= n /\ n < 2 * N /\ 2 * N \in Nat \ {0}
  <2>1. n \in Index
    BY <1>1, BitRevTypes
  <2> HIDE DEF n
  <2> QED
    BY <2>1, Degree
<1>3. Omegas[r][m + b] = Power(PModulus, r, n)
  BY <1>1 DEF Omegas
<1> HIDE DEF n
<1>4. n % (2 * N) = n
  BY <1>2, OwnRemainder
<1>5. RootTo(r, n) = Power(PModulus, r, n)
  BY <1>2, <1>4 DEF RootTo, RootPower
<1>6. Twist(r, l, b) = RootTo(r, n)
  BY <1>1 DEF Twist
<1> QED
  BY <1>2, <1>3, <1>5, <1>6, RootTypes

LEMMA PowersInverse ==
    ASSUME NEW q \in Int, NEW a \in Int, NEW c \in Int, Same(a * c, 1, q),
           NEW g, PowersOf(g, a), NEW h, PowersOf(h, c), NEW n \in Nat
    PROVE  Same(g[n] * h[n], 1, q)
<1> DEFINE V == {k \in Nat : Same(g[k] * h[k], 1, q)}
<1>1. 0 \in V
  <2>1. g[0] = 1 /\ h[0] = 1 /\ 1 * 1 = 1
    BY DEF PowersOf
  <2>2. Same(1, 1, q)
    BY SameReflexive
  <2> QED
    BY <2>1, <2>2
<1>2. ASSUME NEW k \in Nat, k \in V PROVE k + 1 \in V
  <2> DEFINE x == g[k]
             y == h[k]
             s == x * y
             t == a * c
  <2>1. x \in Int /\ y \in Int /\ g[k + 1] = a * x /\ h[k + 1] = c * y
    BY DEF PowersOf
  <2>2. Same(s, 1, q)
    BY <1>2
  <2>3. (a * x) * (c * y) = t * s
    <3> HIDE DEF x, y
    <3>1. (a * x) * (c * y) = ((a * x) * c) * y
      BY <2>1
    <3>2. (a * x) * c = (a * c) * x
      BY <2>1
    <3>3. ((a * c) * x) * y = (a * c) * (x * y)
      BY <2>1
    <3> QED
      BY <3>1, <3>2, <3>3
  <2>4. Same(t * s, 1 * 1, q)
    <3> HIDE DEF s, t
    <3>1. Same(t, 1, q)
      BY DEF t
    <3> QED
      BY <2>2, <3>1, SameTimes
  <2> HIDE DEF s, t, x, y
  <2>5. g[k + 1] * h[k + 1] = t * s /\ 1 * 1 = 1 /\ k + 1 \in Nat
    BY <2>1, <2>3
  <2> QED
    BY <2>4, <2>5
<1> HIDE DEF V
<1>3. n \in V
  BY <1>1, <1>2, SetInduction
<1> QED
  BY <1>3 DEF V

LEMMA BackwardTwist ==
    ASSUME SupportsNtt, NEW r \in Roots, NEW l, NEW m, IsLevel(l, m), NEW b \in 0 .. m - 1
    PROVE  /\ ZetasInv[r][N - 2 * m + b] \in 0 .. P - 1
           /\ Same(Twist(r, l, b) * ZetasInv[r][N - 2 * m + b], 1, P)
<1> DEFINE n == BitRev[m + b]
           z == ZetasInv[r][N - 2 * m + b]
           c == InverseOf(PModulus, r)
<1>1. /\ P \in Nat \ {0} /\ P \in Int /\ P \in Nat /\ NoDivisor(P) /\ NewModulusOk(P)
      /\ PModulus = NewModulus(P) /\ PModulus.p = P /\ P >= 2
      /\ \A i \in Index : i \in Word
  BY TransformModulus
<1>2. /\ m + b \in Index /\ N - 2 * m + b \in Index /\ n \in Index /\ n \in Word /\ n \in Nat
      /\ BitRev[N - 2 * m + b] + 1 = n
  <2>1. m + b \in Index /\ N - 2 * m + b \in Index /\ BitRev[N - 2 * m + b] + 1 = n
    BY BitRevBackward
  <2>2. n \in Index
    BY <2>1, BitRevTypes
  <2> HIDE DEF n
  <2>3. n \in Nat
    BY <2>2, Degree
  <2> QED
    BY <1>1, <2>1, <2>2, <2>3
<1>3. z = Power(PModulus, c, n)
  BY <1>2 DEF ZetasInv
<1>4. PICK g : Tabled(r, g)
  BY RootIsTabled
<1>5. r \in 0 .. P - 1 /\ r \in Int /\ PowersOf(g, r)
  <2>1. r \in 0 .. P - 1 /\ PowersOf(g, r)
    BY <1>4, RootIsTabled DEF Tabled
  <2> QED
    BY <1>1, <2>1
<1>6. r # 0
  <2> SUFFICES ASSUME r = 0 PROVE FALSE
    OBVIOUS
  <2> DEFINE i == 2 * N - 1
  <2>1. i \in Nat /\ i + 1 = 2 * N
    BY Degree
  <2> HIDE DEF i
  <2>2. g[i] \in Int /\ g[i + 1] = 0 * g[i]
    BY <1>5, <2>1 DEF PowersOf
  <2>3. g[2 * N] = 0
    BY <2>1, <2>2
  <2>4. g[2 * N] % P = 1
    BY <1>4 DEF Tabled
  <2>5. 0 % P = 0
    BY <1>1, OwnRemainder
  <2> QED
    BY <2>3, <2>4, <2>5
<1>7. c \in 0 .. P - 1 /\ (c * r) % P = 1
  <2>1. InverseOk(PModulus, r)
    BY <1>1, <1>6 DEF InverseOk, SupportsNtt
  <2> QED
    BY <1>1, <1>5, <2>1, InverseExact
<1> HIDE DEF c, n
<1>8. c \in Int /\ Same(r * c, 1, P)
  <2> DEFINE u == c * r
  <2>1. c \in Int /\ u \in Int /\ u % P = 1 /\ r * c = u
    BY <1>1, <1>5, <1>7
  <2> HIDE DEF u
  <2>2. Same(u % P, u, P)
    BY <1>1, <2>1, SameMod
  <2>3. Same(u, 1, P)
    BY <1>1, <2>1, <2>2, SameSymmetric
  <2> QED
    BY <2>1, <2>3
<1>9. PICK h : PowersOf(h, c)
  BY <1>8, PowersExist
<1>10. g[n] \in Int /\ h[n] \in Int /\ Same(g[n] * h[n], 1, P)
  <2>1. Same(g[n] * h[n], 1, P)
    BY <1>1, <1>2, <1>5, <1>8, <1>9, PowersInverse
  <2> QED
    BY <1>2, <1>5, <1>9, <2>1 DEF PowersOf
<1>11. z = h[n] % P
  BY <1>1, <1>2, <1>3, <1>7, <1>9, PowerExact
<1> DEFINE t == Twist(r, l, b)
           x == g[n]
           y == h[n]
<1>12. t = x % P
  <2>1. t = RootTo(r, n)
    <3>1. n = BitRev[b] + l
      BY BitRevHigh DEF n
    <3> QED
      BY <3>1 DEF Twist
  <2>2. n \in 0 .. 2 * N - 1 /\ n \in Int /\ 0 <= n /\ n < 2 * N /\ 2 * N \in Nat \ {0}
    BY <1>2, Degree
  <2>3. n % (2 * N) = n
    BY <2>2, OwnRemainder
  <2> QED
    BY <1>4, <2>1, <2>2, <2>3 DEF RootTo, Tabled
<1>13. x \in Int /\ y \in Int /\ Same(x * y, 1, P) /\ z = y % P
  BY <1>10, <1>11
<1> HIDE DEF t, x, y, z
<1>14. z \in 0 .. P - 1
  BY <1>1, <1>13, Remainder
<1>15. Same(t * z, x * y, P)
  <2>1. Same(t, x, P) /\ Same(z, y, P)
    BY <1>1, <1>12, <1>13, SameMod
  <2> QED
    BY <1>1, <2>1, SameTimes
<1>16. Same(t * z, 1, P)
  BY <1>1, <1>13, <1>15, SameTransitive
<1> QED
  BY <1>14, <1>16 DEF t, z

-----------------------------------------------------------------------------
(* A pass forwards.                                                        *)

LEMMA FoldAdds ==
    ASSUME SupportsNtt, NEW r \in Roots, NEW w \in [Index -> Int],
           NEW l, NEW m, IsLevel(l, m), NEW b \in 0 .. m - 1, NEW j \in 0 .. l - 1
    PROVE  /\ Twist(r, l, b) \in Int
           /\ \A i : Fold(w, r, l, 2 * b + 0, i) \in Int /\ Fold(w, r, l, 2 * b + 1, i) \in Int
           /\ \A i : Fold(w, r, 2 * l, b, i) \in Int
           /\ Same(Fold(w, r, l, 2 * b + 0, j),
                   Fold(w, r, 2 * l, b, j) + Fold(w, r, 2 * l, b, j + l) * Twist(r, l, b), P)
           /\ Same(Fold(w, r, l, 2 * b + 1, j),
                   Fold(w, r, 2 * l, b, j) - Fold(w, r, 2 * l, b, j + l) * Twist(r, l, b), P)
<1> DEFINE t == Twist(r, l, b)
           x == Fold(w, r, 2 * l, b, j)
           y == Fold(w, r, 2 * l, b, j + l)
<1>1. l \in Nat \ {0} /\ 2 * l \in Nat \ {0} /\ b \in Index /\ 2 * b + 0 \in Index /\ 2 * b + 1 \in Index
      /\ 0 \in 0 .. 1 /\ 1 \in 0 .. 1
  BY ChunkSplits
<1>2. t \in Int
  BY TransformModulus, ForwardTwist
<1>3. /\ \A i : Fold(w, r, l, 2 * b + 0, i) \in Int /\ Fold(w, r, l, 2 * b + 1, i) \in Int
      /\ \A i : Fold(w, r, 2 * l, b, i) \in Int
  BY <1>1, FoldTypes
<1>4. Same(Fold(w, r, l, 2 * b + 0, j), x + t * y, P)
  BY <1>1, FoldSplitsBy
<1>5. Same(Fold(w, r, l, 2 * b + 1, j), x + (-t) * y, P)
  BY <1>1, FoldSplitsBy
<1>6. x \in Int /\ y \in Int
  BY <1>3
<1>7. x + t * y = x + y * t /\ x + (-t) * y = x - y * t
  <2> HIDE DEF x, y, t
  <2> DEFINE u == t * y
  <2>1. u \in Int /\ y * t = u /\ (-t) * y = -u
    BY <1>2, <1>6
  <2> HIDE DEF u
  <2> QED
    BY <1>6, <2>1 DEF u
<1>8. Same(Fold(w, r, l, 2 * b + 0, j), x + y * t, P) /\ Same(Fold(w, r, l, 2 * b + 1, j), x - y * t, P)
  BY <1>4, <1>5, <1>7
<1> QED
  BY <1>2, <1>3, <1>8

(* The chunks before i are at the level below.                             *)
FoldedTo(w, r, l, i, x) ==
    IF x \div (2 * l) < i THEN Fold(w, r, l, x \div l, x % l)
    ELSE Fold(w, r, 2 * l, x \div (2 * l), x % (2 * l))

Forwards(a, w, r, l, i) ==
    \A x \in Index : a[x] \in 0 .. 4 * P - 1 /\ Same(a[x], FoldedTo(w, r, l, i, x), P)

LEMMA ForwardStep ==
    ASSUME SupportsNtt, NEW r \in Roots, NEW w \in [Index -> Int],
           NEW l, NEW m, IsLevel(l, m), NEW i \in 0 .. m - 1,
           NEW a \in [Index -> Int], Forwards(a, w, r, l, i),
           NEW t, t = Twist(r, l, i),
           NEW b, b = [j \in Index |->
                         IF j \div (2 * l) # i THEN a[j]
                         ELSE IF j % (2 * l) < l THEN Butterfly(a[j], a[j + l], t)[1]
                         ELSE Butterfly(a[j - l], a[j], t)[2]]
    PROVE  b \in [Index -> Int] /\ Forwards(b, w, r, l, i + 1)
<1>1. P \in Nat \ {0} /\ P \in Int /\ m \in Nat /\ i \in Int
  BY TransformModulus, LevelSize
<1>2. t \in 0 .. P - 1 /\ t \in Int
  BY <1>1, ForwardTwist
<1>3. b = [j \in Index |->
             IF j \div (2 * l) # i THEN a[j]
             ELSE IF j % (2 * l) < l THEN Butterfly(a[j], a[j + l], t)[1]
             ELSE Butterfly(a[j - l], a[j], t)[2]]
  OBVIOUS
<1>4. ASSUME NEW x \in Index
      PROVE  b[x] \in 0 .. 4 * P - 1 /\ Same(b[x], FoldedTo(w, r, l, i + 1, x), P)
  <2> DEFINE c == x \div (2 * l)
             y == x % (2 * l)
  <2>1. /\ c \in 0 .. m - 1 /\ y \in 0 .. 2 * l - 1
        /\ y < l => /\ x + l \in Index /\ (x + l) \div (2 * l) = c /\ (x + l) % (2 * l) = y + l
                    /\ x \div l = 2 * c + 0 /\ x % l = y /\ y \in 0 .. l - 1
        /\ ~(y < l) => /\ x - l \in Index /\ (x - l) \div (2 * l) = c
                       /\ (x - l) % (2 * l) = y - l
                       /\ x \div l = 2 * c + 1 /\ x % l = y - l /\ y - l \in 0 .. l - 1
    BY ChunkIndex
  <2>2. /\ FoldedTo(w, r, l, i, x)
              = IF c < i THEN Fold(w, r, l, x \div l, x % l) ELSE Fold(w, r, 2 * l, c, y)
        /\ FoldedTo(w, r, l, i + 1, x)
              = IF c < i + 1 THEN Fold(w, r, l, x \div l, x % l) ELSE Fold(w, r, 2 * l, c, y)
        /\ b[x] = IF c # i THEN a[x]
                  ELSE IF y < l THEN Butterfly(a[x], a[x + l], t)[1]
                  ELSE Butterfly(a[x - l], a[x], t)[2]
    BY <1>3 DEF FoldedTo
  <2> HIDE DEF c, y
  <2>10. /\ c \in Int /\ y \in Int /\ ~(i < i) /\ i < i + 1 /\ (y - l) + l = y
         /\ c # i => (c < i + 1 <=> c < i)
    <3>1. c \in Int /\ y \in Int /\ l \in Int
      BY <2>1, LevelSize
    <3> QED
      BY <1>1, <3>1
  <2>3. ASSUME c # i PROVE FoldedTo(w, r, l, i + 1, x) = FoldedTo(w, r, l, i, x) /\ b[x] = a[x]
    BY <2>2, <2>3, <2>10
  <2>4. ASSUME c = i, y < l
        PROVE  b[x] \in 0 .. 4 * P - 1 /\ Same(b[x], FoldedTo(w, r, l, i + 1, x), P)
    <3> DEFINE f0 == Fold(w, r, 2 * l, i, y)
               f1 == Fold(w, r, 2 * l, i, y + l)
               x0 == a[x]
               x1 == a[x + l]
               fb == Fold(w, r, l, 2 * i + 0, y)
    <3>1. x0 \in 0 .. 4 * P - 1 /\ Same(x0, f0, P)
      <4>2. FoldedTo(w, r, l, i, x) = f0
        BY <2>2, <2>4, <2>10
      <4> QED
        BY <4>2 DEF Forwards
    <3>2. x1 \in 0 .. 4 * P - 1 /\ Same(x1, f1, P)
      <4>1. ~(c < i) /\ x + l \in Index
        BY <2>1, <2>4, <2>10
      <4>2. FoldedTo(w, r, l, i, x + l) = f1
        BY <2>1, <2>4, <4>1 DEF FoldedTo
      <4> QED
        BY <4>1, <4>2 DEF Forwards
    <3>3. b[x] = Butterfly(x0, x1, t)[1]
      BY <2>2, <2>4
    <3>4. b[x] \in 0 .. 4 * P - 1 /\ Same(b[x], x0 + x1 * t, P)
      BY <1>2, <3>1, <3>2, <3>3, ButterflyExact
    <3>5. Same(fb, f0 + f1 * t, P) /\ fb \in Int /\ f0 \in Int /\ f1 \in Int
      BY <2>1, <2>4, FoldAdds
    <3>6. FoldedTo(w, r, l, i + 1, x) = fb
      BY <2>1, <2>2, <2>4, <2>10
    <3> HIDE DEF f0, f1, x0, x1, fb
    <3>7. Same(x0 + x1 * t, f0 + f1 * t, P)
      <4>1. Same(t, t, P)
        BY <1>1, <1>2, SameReflexive
      <4>2. Same(x1 * t, f1 * t, P)
        BY <1>1, <3>2, <4>1, SameTimes
      <4> QED
        BY <1>1, <3>1, <4>2, SameAdd
    <3>8. Same(f0 + f1 * t, fb, P)
      BY <1>1, <3>5, SameSymmetric
    <3>9. Same(b[x], f0 + f1 * t, P)
      BY <1>1, <3>4, <3>7, SameTransitive
    <3>10. Same(b[x], fb, P)
      BY <1>1, <3>8, <3>9, SameTransitive
    <3> QED
      BY <3>4, <3>6, <3>10
  <2>5. ASSUME c = i, ~(y < l)
        PROVE  b[x] \in 0 .. 4 * P - 1 /\ Same(b[x], FoldedTo(w, r, l, i + 1, x), P)
    <3> DEFINE f0 == Fold(w, r, 2 * l, i, y - l)
               f1 == Fold(w, r, 2 * l, i, (y - l) + l)
               x0 == a[x - l]
               x1 == a[x]
               fb == Fold(w, r, l, 2 * i + 1, y - l)
    <3>1. (y - l) + l = y
      BY <2>10
    <3>2. x0 \in 0 .. 4 * P - 1 /\ Same(x0, f0, P)
      <4>1. ~(c < i) /\ x - l \in Index
        BY <2>1, <2>5, <2>10
      <4>2. FoldedTo(w, r, l, i, x - l) = f0
        BY <2>1, <2>5, <4>1 DEF FoldedTo
      <4> QED
        BY <4>1, <4>2 DEF Forwards
    <3>3. x1 \in 0 .. 4 * P - 1 /\ Same(x1, f1, P)
      <4>2. FoldedTo(w, r, l, i, x) = f1
        BY <2>2, <2>5, <2>10, <3>1
      <4> QED
        BY <4>2 DEF Forwards
    <3>4. b[x] = Butterfly(x0, x1, t)[2]
      BY <2>2, <2>5
    <3>5. b[x] \in 0 .. 4 * P - 1 /\ Same(b[x], x0 - x1 * t, P)
      BY <1>2, <3>2, <3>3, <3>4, ButterflyExact
    <3>6. Same(fb, f0 - f1 * t, P) /\ fb \in Int /\ f0 \in Int /\ f1 \in Int
      BY <2>1, <2>5, FoldAdds
    <3>7. FoldedTo(w, r, l, i + 1, x) = fb
      BY <2>1, <2>2, <2>5, <2>10
    <3> HIDE DEF f0, f1, x0, x1, fb
    <3>8. Same(x0 - x1 * t, f0 - f1 * t, P)
      <4> DEFINE u == x1 * t
                 v == f1 * t
      <4>1. Same(t, t, P)
        BY <1>1, <1>2, SameReflexive
      <4>2. Same(u, v, P)
        BY <1>1, <3>3, <4>1, SameTimes
      <4>3. u \in Int /\ v \in Int /\ x0 \in Int
        <5>1. x0 \in Int /\ x1 \in Int
          BY <1>1, <3>2, <3>3
        <5> QED
          BY <1>2, <3>6, <5>1
      <4> HIDE DEF u, v
      <4>4. Same(-u, -v, P)
        BY <1>1, <4>2, SameNegated
      <4>5. Same(x0 + (-u), f0 + (-v), P)
        BY <1>1, <3>2, <4>4, SameAdd
      <4>6. x0 + (-u) = x0 - u /\ f0 + (-v) = f0 - v
        BY <3>6, <4>3
      <4> QED
        BY <4>5, <4>6 DEF u, v
    <3>9. Same(f0 - f1 * t, fb, P)
      BY <1>1, <3>6, SameSymmetric
    <3>10. Same(b[x], f0 - f1 * t, P)
      BY <1>1, <3>5, <3>8, SameTransitive
    <3>11. Same(b[x], fb, P)
      BY <1>1, <3>9, <3>10, SameTransitive
    <3> QED
      BY <3>5, <3>7, <3>11
  <2> QED
    BY <2>3, <2>4, <2>5 DEF Forwards
<1>5. ASSUME NEW x \in Index PROVE b[x] \in Int
  <2>1. b[x] \in 0 .. 4 * P - 1
    BY <1>4
  <2> QED
    BY <1>1, <2>1
<1> QED
  BY <1>3, <1>4, <1>5 DEF Forwards

(* Without the vector kernels' final pass, the last level leaves its       *)
(* chunks reduced.                                                         *)
Finished(a, l, i, vt) == l = 1 /\ ~vt => \A x \in Index : x \div 2 < i => a[x] \in 0 .. P - 1

LEMMA ForwardChunkIs ==
    ASSUME NEW a, NEW r, NEW l, NEW i, NEW k, NEW vt, NEW q, q.l = l, q.i = i, q.k = k, q.vt = vt,
           NEW t, t = Omegas[r][k],
           NEW d, d = [j \in Index |->
                         IF j \div (2 * l) # i THEN a[j]
                         ELSE IF j % (2 * l) < l THEN Butterfly(a[j], a[j + l], t)[1]
                         ELSE Butterfly(a[j - l], a[j], t)[2]]
    PROVE  ForwardChunkOf(a, r, q)
             = IF l = 1 /\ ~vt
               THEN [j \in Index |-> IF j \div 2 = i THEN Reduce3(d[j]) ELSE d[j]] ELSE d
BY DEF ForwardChunkOf, Chunk

LEMMA ForwardChunkExact ==
    ASSUME SupportsNtt, NEW r \in Roots, NEW w \in [Index -> Int],
           NEW l, NEW m, IsLevel(l, m), NEW i \in 0 .. m - 1, NEW vt \in BOOLEAN,
           NEW a \in [Index -> Int], Forwards(a, w, r, l, i), Finished(a, l, i, vt),
           NEW q, q.l = l, q.i = i, q.k = m + i, q.vt = vt,
           NEW b, b = ForwardChunkOf(a, r, q)
    PROVE  b \in [Index -> Int] /\ Forwards(b, w, r, l, i + 1) /\ Finished(b, l, i + 1, vt)
<1>1. P \in Nat \ {0} /\ P \in Int /\ i \in Int
  BY TransformModulus
<1> DEFINE k == m + i
           t == Omegas[r][k]
           d == [j \in Index |->
                    IF j \div (2 * l) # i THEN a[j]
                    ELSE IF j % (2 * l) < l THEN Butterfly(a[j], a[j + l], t)[1]
                    ELSE Butterfly(a[j - l], a[j], t)[2]]
<1>2. t = Twist(r, l, i)
  BY ForwardTwist
<1>3. \A x \in Index : x \div (2 * l) # i => d[x] = a[x]
  OBVIOUS
<1>4. d \in [Index -> Int] /\ Forwards(d, w, r, l, i + 1)
  <2> HIDE DEF t
  <2> QED
    BY <1>2, ForwardStep
<1>5. b = IF l = 1 /\ ~vt THEN [j \in Index |-> IF j \div 2 = i THEN Reduce3(d[j]) ELSE d[j]] ELSE d
  <2>1. q.l = l /\ q.i = i /\ q.k = k /\ q.vt = vt /\ t = Omegas[r][k]
    OBVIOUS
  <2> HIDE DEF k, t
  <2>2. d = [j \in Index |->
               IF j \div (2 * l) # i THEN a[j]
               ELSE IF j % (2 * l) < l THEN Butterfly(a[j], a[j + l], t)[1]
               ELSE Butterfly(a[j - l], a[j], t)[2]]
    OBVIOUS
  <2> HIDE DEF d
  <2>3. ForwardChunkOf(a, r, q)
          = IF l = 1 /\ ~vt
            THEN [j \in Index |-> IF j \div 2 = i THEN Reduce3(d[j]) ELSE d[j]] ELSE d
    BY <2>1, <2>2, ForwardChunkIs
  <2> QED
    BY <2>3
<1> HIDE DEF d
<1>6. CASE ~(l = 1 /\ ~vt)
  BY <1>4, <1>5, <1>6 DEF Finished
<1>7. CASE l = 1 /\ ~vt
  <2>1. b = [j \in Index |-> IF j \div 2 = i THEN Reduce3(d[j]) ELSE d[j]]
    BY <1>5, <1>7
  <2>2. ASSUME NEW x \in Index
        PROVE  /\ b[x] \in 0 .. 4 * P - 1 /\ Same(b[x], FoldedTo(w, r, l, i + 1, x), P)
               /\ x \div 2 < i + 1 => b[x] \in 0 .. P - 1
    <3> DEFINE y == d[x]
               f == FoldedTo(w, r, l, i + 1, x)
    <3>1. y \in 0 .. 4 * P - 1 /\ Same(y, f, P)
      BY <1>4 DEF Forwards
    <3> HIDE DEF f
    <3>2. CASE x \div 2 = i
      <4>1. b[x] = Reduce3(y)
        BY <2>1, <3>2
      <4> HIDE DEF y
      <4>2. Reduce3(y) \in 0 .. P - 1 /\ Same(Reduce3(y), y, P)
        BY <3>1, Reduce3Exact
      <4>3. Same(Reduce3(y), f, P)
        BY <1>1, <3>1, <4>2, SameTransitive
      <4>4. Reduce3(y) \in 0 .. 4 * P - 1
        BY <1>1, <4>2
      <4> QED
        BY <4>1, <4>2, <4>3, <4>4 DEF f
    <3>3. CASE x \div 2 # i
      <4>1. b[x] = y
        BY <2>1, <3>3
      <4>2. x \div 2 < i + 1 => x \div 2 < i
        <5>1. x \div 2 \in Int
          BY Degree
        <5> QED
          BY <1>1, <3>3, <5>1
      <4>3. x \div 2 < i => a[x] \in 0 .. P - 1
        BY <1>7 DEF Finished
      <4>4. y = a[x]
        <5>1. 2 * l = 2
          BY <1>7
        <5>2. x \div (2 * l) # i
          BY <3>3, <5>1
        <5> QED
          BY <1>3, <5>2
      <4> HIDE DEF y
      <4> QED
        BY <3>1, <4>1, <4>2, <4>3, <4>4 DEF f
    <3> QED
      BY <3>2, <3>3
  <2>3. \A x \in Index : b[x] \in Int
    BY <1>1, <2>2
  <2> QED
    BY <2>1, <2>2, <2>3 DEF Forwards, Finished
<1> QED
  BY <1>6, <1>7

LEMMA ForwardBegins ==
    ASSUME SupportsNtt, NEW r \in Roots, NEW w \in [Index -> Int], NEW a,
           \A x \in Index : a[x] \in 0 .. 4 * P - 1 /\ Same(a[x], w[x], P)
    PROVE  Forwards(a, w, r, N \div 2, 0)
<1> DEFINE l == N \div 2
<1>1. 2 * l = N
  BY FirstLevel, NextLevel, LevelSize
<1> HIDE DEF l
<1>2. ASSUME NEW x \in Index PROVE FoldedTo(w, r, l, 0, x) = w[x]
  <2>1. x \in Nat /\ x < N /\ N \in Nat \ {0}
    BY Degree
  <2>2. x \div N = 0 /\ x % N = x
    BY <2>1
  <2>3. Fold(w, r, N, 0, x) = w[x]
    BY FoldWhole
  <2> QED
    BY <1>1, <2>2, <2>3 DEF FoldedTo
<1> QED
  BY <1>2 DEF Forwards, l

LEMMA ForwardLevel ==
    ASSUME NEW r, NEW w, NEW l, NEW m, IsLevel(l, m), NEW a, Forwards(a, w, r, l, m)
    PROVE  /\ l \div 2 # 0 => Forwards(a, w, r, l \div 2, 0)
           /\ l = 1 => \A x \in Index : a[x] \in 0 .. 4 * P - 1 /\ Same(a[x], Fold(w, r, 1, x, 0), P)
<1>1. ASSUME NEW x \in Index PROVE FoldedTo(w, r, l, m, x) = Fold(w, r, l, x \div l, x % l)
  <2> DEFINE c == x \div (2 * l)
  <2>1. c \in 0 .. m - 1 /\ m \in Nat
    BY ChunkIndex, LevelSize
  <2> HIDE DEF c
  <2>2. c < m
    BY <2>1
  <2> QED
    BY <2>2 DEF FoldedTo, c
<1>2. ASSUME l \div 2 # 0 PROVE Forwards(a, w, r, l \div 2, 0)
  <2> DEFINE h == l \div 2
  <2>1. l = 2 * h
    BY <1>2, NextLevel
  <2>2. IsLevel(h, 2 * m)
    BY <1>2, NextLevel
  <2> HIDE DEF h
  <2>3. ASSUME NEW x \in Index PROVE FoldedTo(w, r, h, 0, x) = Fold(w, r, l, x \div l, x % l)
    <3> DEFINE c == x \div (2 * h)
    <3>1. c \in 0 .. 2 * m - 1
      BY <2>2, ChunkIndex
    <3>2. ~(c < 0)
      <4> HIDE DEF c
      <4> QED
        BY <3>1
    <3> QED
      BY <2>1, <3>2 DEF FoldedTo
  <2> QED
    BY <1>1, <2>3 DEF Forwards, h
<1>3. ASSUME l = 1, NEW x \in Index
      PROVE  a[x] \in 0 .. 4 * P - 1 /\ Same(a[x], Fold(w, r, 1, x, 0), P)
  <2>1. x \div 1 = x /\ x % 1 = 0
    BY Degree
  <2> QED
    BY <1>1, <1>3, <2>1 DEF Forwards
<1> QED
  BY <1>2, <1>3

-----------------------------------------------------------------------------
(* A pass backwards.                                                       *)

LEMMA SameMinus ==
    ASSUME NEW x1, NEW y1, NEW x2, NEW y2, NEW q \in Int, Same(x1, y1, q), Same(x2, y2, q)
    PROVE  Same(x1 - x2, y1 - y2, q)
<1>1. x1 \in Int /\ y1 \in Int /\ x2 \in Int /\ y2 \in Int
  BY DEF Same
<1>2. Same(-x2, -y2, q)
  BY SameNegated
<1>3. Same(x1 + (-x2), y1 + (-y2), q)
  BY <1>2, SameAdd
<1>4. x1 + (-x2) = x1 - x2 /\ y1 + (-y2) = y1 - y2
  BY <1>1
<1> QED
  BY <1>3, <1>4

LEMMA SumAndDifference ==
    ASSUME NEW q \in Int, NEW l \in Int, NEW x \in Int, NEW y \in Int, NEW t \in Int, NEW z \in Int,
           Same(t * z, 1, q), NEW f0, Same(f0, x + y * t, q), NEW f1, Same(f1, x - y * t, q)
    PROVE  /\ Same(l * f0 + l * f1, (2 * l) * x, q)
           /\ Same((l * f0 - l * f1) * z, (2 * l) * y, q)
<1> DEFINE u == y * t
<1>1. u \in Int /\ f0 \in Int /\ f1 \in Int /\ Same(f0, x + u, q) /\ Same(f1, x - u, q)
  <2>1. u \in Int /\ Same(f0, x + u, q) /\ Same(f1, x - u, q)
    OBVIOUS
  <2> HIDE DEF u
  <2> QED
    BY <2>1 DEF Same
<1>2. u = y * t
  OBVIOUS
<1> HIDE DEF u
<1>3. Same(f0 + f1, (x + u) + (x - u), q)
  BY <1>1, SameAdd
<1>4. Same(f0 - f1, (x + u) - (x - u), q)
  BY <1>1, SameMinus
<1>5. (x + u) + (x - u) = 2 * x /\ (x + u) - (x - u) = 2 * u
  BY <1>1
<1>6. Same(l * (f0 + f1), l * (2 * x), q)
  BY <1>3, <1>5, SameScaled
<1>7. l * (f0 + f1) = l * f0 + l * f1 /\ l * (2 * x) = (2 * l) * x
  <2>1. l * (f0 + f1) = l * f0 + l * f1
    BY <1>1, Distributes
  <2> QED
    BY <2>1
<1>8. Same(l * (f0 - f1), l * (2 * u), q)
  BY <1>4, <1>5, SameScaled
<1> DEFINE g == l * f0 - l * f1
           h == l * (2 * u)
           e == t * z
           k == (2 * l) * y
<1>9. l * (f0 - f1) = g /\ h \in Int /\ g \in Int
  <2>1. f0 - f1 = f0 + (-f1) /\ -f1 \in Int
    BY <1>1
  <2>2. l * (f0 + (-f1)) = l * f0 + l * (-f1)
    BY <1>1, <2>1, Distributes
  <2>3. l * (-f1) = -(l * f1) /\ l * f0 \in Int /\ l * f1 \in Int
    BY <1>1
  <2> DEFINE s == l * f0
             v == l * f1
  <2>4. s + (-v) = s - v
    BY <2>3
  <2>5. h \in Int
    BY <1>1
  <2> QED
    BY <2>1, <2>2, <2>3, <2>4, <2>5
<1>10. Same(z, z, q)
  BY SameReflexive
<1>11. Same(g * z, h * z, q)
  <2> HIDE DEF g, h
  <2> QED
    BY <1>8, <1>9, <1>10, SameTimes DEF h
<1>12. h * z = k * e
  <2>1. h = (2 * l) * (y * t)
    BY <1>1, <1>2
  <2> DEFINE n == 2 * l
  <2>2. n \in Int /\ h = n * (y * t)
    BY <2>1
  <2> HIDE DEF n, h
  <2>3. (n * (y * t)) * z = (n * y) * (t * z)
    <3>1. n * (y * t) = (n * y) * t
      BY <2>2
    <3>2. ((n * y) * t) * z = (n * y) * (t * z)
      BY <2>2
    <3> QED
      BY <3>1, <3>2
  <2> QED
    BY <2>2, <2>3 DEF n
<1>13. k \in Int /\ k * 1 = k
  OBVIOUS
<1>14. Same(k * e, k * 1, q)
  <2> HIDE DEF k
  <2> QED
    BY <1>13, SameScaled
<1>15. Same(g * z, k, q)
  <2> HIDE DEF g, h, k, e
  <2> QED
    BY <1>11, <1>12, <1>13, <1>14, SameTransitive
<1> QED
  BY <1>6, <1>7, <1>15

(* The chunks before i are at the level above; a level doubles the values. *)
Unfolded(w, r, l, i, x) ==
    IF x \div (2 * l) < i THEN (2 * l) * Fold(w, r, 2 * l, x \div (2 * l), x % (2 * l))
    ELSE l * Fold(w, r, l, x \div l, x % l)

Backwards(a, w, r, l, i) ==
    \A x \in Index : a[x] \in 0 .. 2 * P - 1 /\ Same(a[x], Unfolded(w, r, l, i, x), P)

LEMMA BackwardStep ==
    ASSUME SupportsNtt, NEW r \in Roots, NEW w \in [Index -> Int],
           NEW l, NEW m, IsLevel(l, m), NEW i \in 0 .. m - 1,
           NEW a \in [Index -> Int], Backwards(a, w, r, l, i),
           NEW z, z = ZetasInv[r][N - 2 * m + i],
           NEW b, b = [j \in Index |->
                         IF j \div (2 * l) # i THEN a[j]
                         ELSE IF j % (2 * l) < l THEN InvButterfly(a[j], a[j + l], z)[1]
                         ELSE InvButterfly(a[j - l], a[j], z)[2]]
    PROVE  b \in [Index -> Int] /\ Backwards(b, w, r, l, i + 1)
<1> DEFINE t == Twist(r, l, i)
<1>1. P \in Nat \ {0} /\ P \in Int /\ m \in Nat /\ i \in Int /\ l \in Int
  BY TransformModulus, LevelSize
<1>2. z \in 0 .. P - 1 /\ z \in Int /\ t \in Int /\ Same(t * z, 1, P)
  <2>1. z \in 0 .. P - 1 /\ Same(t * z, 1, P)
    BY BackwardTwist
  <2>2. t \in 0 .. P - 1
    BY ForwardTwist
  <2> HIDE DEF t
  <2> QED
    BY <1>1, <2>1, <2>2
<1>3. b = [j \in Index |->
             IF j \div (2 * l) # i THEN a[j]
             ELSE IF j % (2 * l) < l THEN InvButterfly(a[j], a[j + l], z)[1]
             ELSE InvButterfly(a[j - l], a[j], z)[2]]
  OBVIOUS
<1>4. ASSUME NEW x \in Index
      PROVE  b[x] \in 0 .. 2 * P - 1 /\ Same(b[x], Unfolded(w, r, l, i + 1, x), P)
  <2> DEFINE c == x \div (2 * l)
             y == x % (2 * l)
  <2>1. /\ c \in 0 .. m - 1 /\ y \in 0 .. 2 * l - 1
        /\ y < l => /\ x + l \in Index /\ (x + l) \div (2 * l) = c /\ (x + l) % (2 * l) = y + l
                    /\ x \div l = 2 * c + 0 /\ x % l = y /\ y \in 0 .. l - 1
        /\ ~(y < l) => /\ x - l \in Index /\ (x - l) \div (2 * l) = c
                       /\ (x - l) % (2 * l) = y - l
                       /\ x \div l = 2 * c + 1 /\ x % l = y - l /\ y - l \in 0 .. l - 1
    BY ChunkIndex
  <2>2. /\ \A n : Unfolded(w, r, l, n, x)
              = IF c < n THEN (2 * l) * Fold(w, r, 2 * l, c, y) ELSE l * Fold(w, r, l, x \div l, x % l)
        /\ b[x] = IF c # i THEN a[x]
                  ELSE IF y < l THEN InvButterfly(a[x], a[x + l], z)[1]
                  ELSE InvButterfly(a[x - l], a[x], z)[2]
    BY <1>3 DEF Unfolded
  <2>3. /\ y < l => (x + l) \div l = 2 * c + 1 /\ (x + l) % l = y
        /\ ~(y < l) => (x - l) \div l = 2 * c + 0 /\ (x - l) % l = y - l
    <3> HIDE DEF c, y
    <3>1. c \in Int /\ y \in Int
      BY <1>1, <2>1
    <3>2. ASSUME y < l PROVE (x + l) \div l = 2 * c + 1 /\ (x + l) % l = y
      <4>1. x + l \in Index /\ c = (x + l) \div (2 * l) /\ y + l = (x + l) % (2 * l) /\ ~(y + l < l)
            /\ (y + l) - l = y
        BY <1>1, <2>1, <3>1, <3>2
      <4> DEFINE x2 == x + l
                 y2 == y + l
      <4> HIDE DEF x2, y2
      <4>2. x2 \in Index /\ c = x2 \div (2 * l) /\ y2 = x2 % (2 * l) /\ ~(y2 < l)
        BY <4>1 DEF x2, y2
      <4>3. x2 \div l = 2 * c + 1 /\ x2 % l = y2 - l
        BY <4>2, ChunkIndex
      <4> QED
        BY <4>1, <4>3 DEF x2, y2
    <3>3. ASSUME ~(y < l) PROVE (x - l) \div l = 2 * c + 0 /\ (x - l) % l = y - l
      <4>1. x - l \in Index /\ c = (x - l) \div (2 * l) /\ y - l = (x - l) % (2 * l) /\ y - l < l
        BY <1>1, <2>1, <3>1, <3>3
      <4> DEFINE x2 == x - l
                 y2 == y - l
      <4> HIDE DEF x2, y2
      <4>2. x2 \in Index /\ c = x2 \div (2 * l) /\ y2 = x2 % (2 * l) /\ y2 < l
        BY <4>1 DEF x2, y2
      <4>3. x2 \div l = 2 * c + 0 /\ x2 % l = y2
        BY <4>2, ChunkIndex
      <4> QED
        BY <4>3 DEF x2, y2
    <3> QED
      BY <3>2, <3>3
  <2> HIDE DEF c, y
  <2>4. /\ c \in Int /\ y \in Int /\ ~(i < i) /\ i < i + 1 /\ (y - l) + l = y
        /\ c # i => (c < i + 1 <=> c < i)
    <3>1. c \in Int /\ y \in Int
      BY <1>1, <2>1
    <3> QED
      BY <1>1, <3>1
  <2>5. CASE c # i
    <3>1. Unfolded(w, r, l, i + 1, x) = Unfolded(w, r, l, i, x) /\ b[x] = a[x]
      BY <2>2, <2>4, <2>5
    <3> QED
      BY <3>1 DEF Backwards
  <2>6. CASE c = i /\ y < l
    <3> DEFINE f0 == Fold(w, r, l, 2 * i + 0, y)
               f1 == Fold(w, r, l, 2 * i + 1, y)
               h == Fold(w, r, 2 * l, i, y)
               g == Fold(w, r, 2 * l, i, y + l)
               x0 == a[x]
               x1 == a[x + l]
    <3>1. x0 \in 0 .. 2 * P - 1 /\ Same(x0, l * f0, P)
      <4>1. Unfolded(w, r, l, i, x) = l * f0
        BY <2>1, <2>2, <2>4, <2>6
      <4> QED
        BY <4>1 DEF Backwards
    <3>2. x1 \in 0 .. 2 * P - 1 /\ Same(x1, l * f1, P)
      <4>1. x + l \in Index /\ ~((x + l) \div (2 * l) < i)
        BY <2>1, <2>4, <2>6
      <4>2. Unfolded(w, r, l, i, x + l) = l * f1
        BY <2>3, <2>6, <4>1 DEF Unfolded
      <4> QED
        BY <4>1, <4>2 DEF Backwards
    <3>3. b[x] = InvButterfly(x0, x1, z)[1]
      BY <2>2, <2>6
    <3>4. b[x] \in 0 .. 2 * P - 1 /\ Same(b[x], x0 + x1, P)
      BY <1>2, <3>1, <3>2, <3>3, InvButterflyExact
    <3>5. Same(f0, h + g * t, P) /\ Same(f1, h - g * t, P) /\ h \in Int /\ g \in Int
      BY <2>1, <2>6, FoldAdds
    <3>6. Unfolded(w, r, l, i + 1, x) = (2 * l) * h
      BY <2>2, <2>4, <2>6
    <3> HIDE DEF f0, f1, h, g, x0, x1, t
    <3>7. Same(l * f0 + l * f1, (2 * l) * h, P)
      BY <1>1, <1>2, <3>5, SumAndDifference
    <3>8. Same(x0 + x1, l * f0 + l * f1, P)
      BY <1>1, <3>1, <3>2, SameAdd
    <3>9. Same(b[x], l * f0 + l * f1, P)
      BY <1>1, <3>4, <3>8, SameTransitive
    <3>10. Same(b[x], (2 * l) * h, P)
      BY <1>1, <3>7, <3>9, SameTransitive
    <3> QED
      BY <3>4, <3>6, <3>10
  <2>7. CASE c = i /\ ~(y < l)
    <3> DEFINE j == y - l
               f0 == Fold(w, r, l, 2 * i + 0, j)
               f1 == Fold(w, r, l, 2 * i + 1, j)
               h == Fold(w, r, 2 * l, i, j)
               g == Fold(w, r, 2 * l, i, j + l)
               x0 == a[x - l]
               x1 == a[x]
    <3>1. x0 \in 0 .. 2 * P - 1 /\ Same(x0, l * f0, P)
      <4>1. x - l \in Index /\ ~((x - l) \div (2 * l) < i)
        BY <2>1, <2>4, <2>7
      <4>2. Unfolded(w, r, l, i, x - l) = l * f0
        BY <2>3, <2>7, <4>1 DEF Unfolded
      <4> QED
        BY <4>1, <4>2 DEF Backwards
    <3>2. x1 \in 0 .. 2 * P - 1 /\ Same(x1, l * f1, P)
      <4>1. Unfolded(w, r, l, i, x) = l * f1
        BY <2>1, <2>2, <2>4, <2>7
      <4> QED
        BY <4>1 DEF Backwards
    <3>3. b[x] = InvButterfly(x0, x1, z)[2]
      BY <2>2, <2>7
    <3>4. b[x] \in 0 .. 2 * P - 1 /\ Same(b[x], (x0 - x1) * z, P)
      BY <1>2, <3>1, <3>2, <3>3, InvButterflyExact
    <3>5. Same(f0, h + g * t, P) /\ Same(f1, h - g * t, P) /\ h \in Int /\ g \in Int
      <4>1. j \in 0 .. l - 1
        BY <2>1, <2>7
      <4> HIDE DEF j
      <4> QED
        BY <4>1, FoldAdds
    <3>6. Unfolded(w, r, l, i + 1, x) = (2 * l) * g
      BY <2>2, <2>4, <2>7
    <3> HIDE DEF f0, f1, h, g, x0, x1, t, j
    <3>7. Same((l * f0 - l * f1) * z, (2 * l) * g, P)
      BY <1>1, <1>2, <3>5, SumAndDifference
    <3>8. Same(x0 - x1, l * f0 - l * f1, P)
      BY <1>1, <3>1, <3>2, SameMinus
    <3>9. Same((x0 - x1) * z, (l * f0 - l * f1) * z, P)
      <4>1. Same(z, z, P)
        BY <1>1, <1>2, SameReflexive
      <4> QED
        BY <1>1, <3>8, <4>1, SameTimes
    <3>10. Same(b[x], (l * f0 - l * f1) * z, P)
      BY <1>1, <3>4, <3>9, SameTransitive
    <3>11. Same(b[x], (2 * l) * g, P)
      BY <1>1, <3>7, <3>10, SameTransitive
    <3> QED
      BY <3>4, <3>6, <3>11
  <2> QED
    BY <2>5, <2>6, <2>7
<1>5. ASSUME NEW x \in Index PROVE b[x] \in Int
  <2>1. b[x] \in 0 .. 2 * P - 1
    BY <1>4
  <2> QED
    BY <1>1, <2>1
<1> QED
  BY <1>3, <1>4, <1>5 DEF Backwards

LEMMA BackwardChunkIs ==
    ASSUME NEW a, NEW r, NEW l, NEW i, NEW k, NEW q, q.l = l, q.i = i, q.k = k,
           NEW z, z = ZetasInv[r][k]
    PROVE  BackwardChunkOf(a, r, q)
             = [j \in Index |->
                  IF j \div (2 * l) # i THEN a[j]
                  ELSE IF j % (2 * l) < l THEN InvButterfly(a[j], a[j + l], z)[1]
                  ELSE InvButterfly(a[j - l], a[j], z)[2]]
BY DEF BackwardChunkOf, Chunk

LEMMA BackwardChunkExact ==
    ASSUME SupportsNtt, NEW r \in Roots, NEW w \in [Index -> Int],
           NEW l, NEW m, IsLevel(l, m), NEW i \in 0 .. m - 1,
           NEW a \in [Index -> Int], Backwards(a, w, r, l, i),
           NEW q, q.l = l, q.i = i, q.k = N - 2 * m + i,
           NEW b, b = BackwardChunkOf(a, r, q)
    PROVE  b \in [Index -> Int] /\ Backwards(b, w, r, l, i + 1)
<1> DEFINE k == N - 2 * m + i
           z == ZetasInv[r][k]
<1>1. q.l = l /\ q.i = i /\ q.k = k /\ z = ZetasInv[r][k] /\ z = ZetasInv[r][N - 2 * m + i]
  OBVIOUS
<1> HIDE DEF k, z
<1>2. b = [j \in Index |->
             IF j \div (2 * l) # i THEN a[j]
             ELSE IF j % (2 * l) < l THEN InvButterfly(a[j], a[j + l], z)[1]
             ELSE InvButterfly(a[j - l], a[j], z)[2]]
  BY <1>1, BackwardChunkIs
<1> QED
  BY <1>1, <1>2, BackwardStep

LEMMA BackwardBegins ==
    ASSUME SupportsNtt, NEW r \in Roots, NEW w \in [Index -> Int], NEW a,
           \A x \in Index : a[x] \in 0 .. 2 * P - 1 /\ Same(a[x], Fold(w, r, 1, x, 0), P)
    PROVE  Backwards(a, w, r, 1, 0)
<1>1. ASSUME NEW x \in Index PROVE Unfolded(w, r, 1, 0, x) = Fold(w, r, 1, x, 0)
  <2>1. x \div 1 = x /\ x % 1 = 0 /\ ~(x \div (2 * 1) < 0)
    BY Degree
  <2>2. Fold(w, r, 1, x, 0) \in Int
    BY FoldOne
  <2>3. 1 * Fold(w, r, 1, x, 0) = Fold(w, r, 1, x, 0)
    BY <2>2
  <2> QED
    BY <2>1, <2>3 DEF Unfolded
<1> QED
  BY <1>1 DEF Backwards

LEMMA BackwardLevel ==
    ASSUME SupportsNtt, NEW r \in Roots, NEW w \in [Index -> Int],
           NEW l, NEW m, IsLevel(l, m), NEW a, Backwards(a, w, r, l, m)
    PROVE  /\ m # 1 => Backwards(a, w, r, 2 * l, 0)
           /\ m = 1 => \A x \in Index : a[x] \in 0 .. 2 * P - 1 /\ Same(a[x], N * w[x], P)
<1> DEFINE n == 2 * l
<1>1. ASSUME NEW x \in Index PROVE Unfolded(w, r, l, m, x) = n * Fold(w, r, n, x \div n, x % n)
  <2> DEFINE c == x \div n
  <2>1. c \in 0 .. m - 1 /\ m \in Nat
    BY ChunkIndex, LevelSize
  <2> HIDE DEF c
  <2>2. c < m
    BY <2>1
  <2> QED
    BY <2>2 DEF Unfolded, c
<1>2. ASSUME m # 1 PROVE Backwards(a, w, r, n, 0)
  <2>1. IsLevel(n, m \div 2)
    BY <1>2, NextLevel
  <2>2. ASSUME NEW x \in Index PROVE Unfolded(w, r, n, 0, x) = n * Fold(w, r, n, x \div n, x % n)
    <3> DEFINE c == x \div (2 * n)
    <3> HIDE DEF n
    <3>1. c \in 0 .. (m \div 2) - 1
      BY <2>1, ChunkIndex
    <3>2. ~(c < 0)
      <4> HIDE DEF c
      <4> QED
        BY <3>1
    <3> QED
      BY <3>2 DEF Unfolded
  <2> QED
    BY <1>1, <2>2 DEF Backwards
<1>3. ASSUME m = 1, NEW x \in Index
      PROVE  a[x] \in 0 .. 2 * P - 1 /\ Same(a[x], N * w[x], P)
  <2>1. n = N
    BY <1>3, NextLevel
  <2>2. x \in Nat /\ x < N /\ N \in Nat \ {0}
    BY Degree
  <2>3. x \div N = 0 /\ x % N = x
    BY <2>2
  <2>4. Fold(w, r, N, 0, x) = w[x]
    BY FoldWhole
  <2>5. Unfolded(w, r, l, m, x) = N * w[x]
    BY <1>1, <2>1, <2>3, <2>4
  <2> QED
    BY <2>5 DEF Backwards
<1> QED
  BY <1>2, <1>3

(* The last pass divides by the degree. *)
LEMMA SizeInvExact ==
    ASSUME SupportsNtt, NEW x \in 0 .. 2 * P - 1, NEW v \in Int, Same(x, N * v, P)
    PROVE  MulShoup(PModulus, x, SizeInv, Shoup(PModulus, SizeInv)) = v % P
<1>1. /\ P \in Nat \ {0} /\ P \in Int /\ P \in Nat /\ NewModulusOk(P) /\ PModulus = NewModulus(P)
      /\ PModulus.p = P /\ 4 * P < B /\ 2 * N < P
  BY TransformModulus
<1>2. N \in 0 .. P - 1 /\ N # 0 /\ N \in Int
  BY <1>1, Degree
<1> DEFINE z == SizeInv
<1>3. z \in 0 .. P - 1 /\ (z * N) % P = 1
  <2>1. InverseOk(PModulus, N)
    BY <1>1, <1>2 DEF InverseOk, SupportsNtt
  <2> QED
    BY <1>1, <1>2, <2>1, InverseExact DEF SizeInv
<1> HIDE DEF z
<1>4. x \in Word /\ x \in Int /\ z \in Int
  BY <1>1, <1>3, WordTypes DEF Word
<1>5. MulShoup(PModulus, x, z, Shoup(PModulus, z)) = (x * z) % P
  BY <1>1, <1>3, <1>4, MulShoupExact
<1>6. Same(z * N, 1, P)
  <2> DEFINE u == z * N
  <2>1. u \in Int /\ u % P = 1
    BY <1>2, <1>3, <1>4
  <2> HIDE DEF u
  <2>2. Same(u % P, u, P)
    BY <1>1, <2>1, SameMod
  <2>3. Same(u, 1, P)
    BY <1>1, <2>1, <2>2, SameSymmetric
  <2> QED
    BY <2>3 DEF u
<1>7. Same(x * z, (N * v) * z, P)
  <2>1. Same(z, z, P)
    BY <1>1, <1>4, SameReflexive
  <2> QED
    BY <1>1, <2>1, SameTimes
<1>8. (N * v) * z = v * (z * N)
  <2>1. (N * v) * z = v * (N * z) /\ N * z = z * N
    <3>1. N * v = v * N
      BY <1>2
    <3>2. (v * N) * z = v * (N * z)
      BY <1>2, <1>4
    <3> QED
      BY <1>2, <1>4, <3>1, <3>2
  <2> QED
    BY <2>1
<1>9. Same(v * (z * N), v * 1, P)
  BY <1>1, <1>6, SameScaled
<1>10. Same(x * z, v, P)
  <2>1. v * 1 = v
    OBVIOUS
  <2> QED
    BY <1>1, <1>7, <1>8, <1>9, <2>1, SameTransitive
<1>11. (x * z) % P = v % P
  BY <1>1, <1>10, SameEqual
<1> QED
  BY <1>5, <1>11 DEF z

-----------------------------------------------------------------------------
(* Signs, as X^N is -1, and the values of a polynomial.                    *)

LEMMA Signs ==
    ASSUME NEW k \in Int
    PROVE  /\ SignOf(k) \in Int /\ SignOf(k) * SignOf(k) = 1
           /\ (k \div N) % 2 = 0 => SignOf(k) = 1
           /\ (k \div N) % 2 # 0 => SignOf(k) = -1
           /\ SignOf(k % (2 * N)) = SignOf(k)
           /\ (k % (2 * N)) % N = k % N
<1>1. N \in Nat \ {0} /\ 2 * N \in Nat \ {0}
  BY Degree
<1>2. /\ SignOf(k) \in Int /\ SignOf(k) * SignOf(k) = 1
      /\ (k \div N) % 2 = 0 => SignOf(k) = 1
      /\ (k \div N) % 2 # 0 => SignOf(k) = -1
  BY DEF SignOf
<1> DEFINE n == 2 * N
           x == k % n
           y == x % N
           d == x \div N
           q == k \div n
           q2 == 2 * q + d
<1>3. k = q * n + x /\ q \in Int /\ x \in Int /\ n = 2 * N /\ n \in Int
  <2>1. n \in Nat \ {0} /\ n = 2 * N /\ n \in Int
    BY <1>1
  <2> HIDE DEF n
  <2>2. k = (k \div n) * n + (k % n) /\ k \div n \in Int /\ k % n \in Int
    BY <2>1, Remainder
  <2> QED
    BY <2>1, <2>2
<1> HIDE DEF x, q, n
<1>4. x = d * N + y /\ d \in Int /\ y \in Int /\ 0 <= y /\ y < N
  BY <1>1, <1>3, Remainder
<1> HIDE DEF d, y
<1>5. k = q2 * N + y /\ q2 \in Int /\ q2 % 2 = d % 2
  <2>1. (2 * q + d) * N = q * n + d * N
    BY <1>1, <1>3, <1>4
  <2> DEFINE u == q * n
             v == d * N
  <2>2. k = u + (v + y) /\ q2 * N = u + v /\ u \in Int /\ v \in Int
    BY <1>1, <1>3, <1>4, <2>1
  <2>3. q2 \in Int /\ q2 % 2 = d % 2
    BY <1>3, <1>4
  <2> HIDE DEF u, v, q2
  <2>4. k = q2 * N + y
    BY <1>4, <2>2
  <2> QED
    BY <2>3, <2>4
<1> HIDE DEF q2
<1>6. k % N = y /\ k \div N = q2
  BY <1>1, <1>4, <1>5, RemainderUnique, QuotientUnique
<1>7. SignOf(x) = SignOf(k)
  <2>1. SignOf(x) = IF d % 2 = 0 THEN 1 ELSE -1
    BY DEF SignOf, d
  <2>2. SignOf(k) = IF q2 % 2 = 0 THEN 1 ELSE -1
    BY <1>6 DEF SignOf
  <2> QED
    BY <1>5, <2>1, <2>2
<1> QED
  BY <1>2, <1>6, <1>7 DEF x, y, n

LEMMA RootSign ==
    ASSUME SupportsNtt, NEW r \in Roots, NEW e \in Int, e % 2 = 1, NEW k \in Int
    PROVE  Same(RootTo(r, e * k), SignOf(k) * RootTo(r, e * (k % N)), P)
<1> DEFINE q == k \div N
           x == k % N
           h == e \div 2
           d == q % 2
           u == q \div 2
           z == RootTo(r, e * x)
<1>1. N \in Nat \ {0} /\ N \in Int /\ P \in Int
  BY Degree, TransformModulus
<1>2. k = q * N + x /\ q \in Int /\ x \in Int
  BY <1>1, Remainder
<1>3. e = 2 * h + 1 /\ h \in Int
  OBVIOUS
<1>4. q = 2 * u + d /\ u \in Int /\ (d = 0 \/ d = 1) /\ d = q % 2
  BY <1>2
<1>5. e * x \in Int /\ z \in Int
  <2>1. e * x \in Int
    BY <1>2
  <2> HIDE DEF x
  <2> QED
    BY <2>1, RootTypes
<1>6. SignOf(k) = IF d = 0 THEN 1 ELSE -1
  BY DEF SignOf
<1> HIDE DEF q, x, h, d, u
<1>7. e * k = (e * x + d * N) + (u + h * q) * (2 * N)
  <2>1. e * k = e * (q * N) + e * x
    <3> DEFINE v == q * N
    <3>1. v \in Int /\ k = v + x
      BY <1>1, <1>2
    <3> HIDE DEF v
    <3>2. e * (v + x) = e * v + e * x
      BY <1>2, <3>1, Distributes
    <3> QED
      BY <3>1, <3>2 DEF v
  <2>2. e * (q * N) = q * N + (2 * h) * (q * N)
    <3> DEFINE v == q * N
    <3>1. v \in Int
      BY <1>1, <1>2
    <3> HIDE DEF v
    <3>2. (2 * h + 1) * v = v + (2 * h) * v
      BY <1>3, <3>1
    <3> QED
      BY <1>3, <3>2 DEF v
  <2>3. (2 * h) * (q * N) = (h * q) * (2 * N)
    <3>1. h * (q * N) = (h * q) * N
      BY <1>1, <1>2, <1>3
    <3>2. (2 * h) * (q * N) = 2 * (h * (q * N))
      BY <1>1, <1>2, <1>3
    <3> DEFINE v == h * q
    <3>3. v \in Int /\ 2 * (v * N) = v * (2 * N)
      BY <1>1, <1>2, <1>3
    <3> QED
      BY <3>1, <3>2, <3>3
  <2>4. q * N = u * (2 * N) + d * N
    <3>1. CASE d = 0
      BY <1>1, <1>4, <3>1
    <3>2. CASE d = 1
      BY <1>1, <1>4, <3>2
    <3> QED
      BY <1>4, <3>1, <3>2
  <2>5. (u + h * q) * (2 * N) = u * (2 * N) + (h * q) * (2 * N)
    <3> DEFINE v == h * q
               n == 2 * N
    <3>1. v \in Int /\ n \in Int
      BY <1>1, <1>2, <1>3
    <3> HIDE DEF v, n
    <3>2. (u + v) * n = u * n + v * n
      BY <1>4, <3>1
    <3> QED
      BY <3>2 DEF v, n
  <2> DEFINE a1 == e * x
             a2 == d * N
             a3 == u * (2 * N)
             a4 == (h * q) * (2 * N)
             a5 == q * N
  <2>6. e * k = (a5 + a4) + a1 /\ a5 = a3 + a2 /\ (u + h * q) * (2 * N) = a3 + a4
    BY <2>1, <2>2, <2>3, <2>4, <2>5
  <2>7. a1 \in Int /\ a2 \in Int /\ a3 \in Int /\ a4 \in Int
    <3>1. a2 \in Int
      BY <1>1, <1>4
    <3>2. a3 \in Int
      BY <1>1, <1>4
    <3>3. a4 \in Int
      <4>1. h * q \in Int /\ 2 * N \in Int
        BY <1>1, <1>2, <1>3
      <4> QED
        BY <4>1
    <3> QED
      BY <1>5, <3>1, <3>2, <3>3
  <2> HIDE DEF a1, a2, a3, a4, a5
  <2>8. (a5 + a4) + a1 = (a1 + a2) + (a3 + a4)
    BY <2>6, <2>7
  <2> QED
    BY <2>6, <2>8 DEF a1, a2
<1>8. RootTo(r, e * k) = RootTo(r, e * x + d * N)
  <2>1. e * x + d * N \in Int
    BY <1>1, <1>4, <1>5
  <2>2. u + h * q \in Int
    BY <1>2, <1>3, <1>4
  <2> QED
    BY <1>7, <2>1, <2>2, RootPeriod
<1>9. CASE d = 0
  <2>1. RootTo(r, e * k) = z /\ SignOf(k) * z = z
    <3>1. e * x + 0 * N = e * x
      BY <1>1, <1>5
    <3> QED
      BY <1>5, <1>6, <1>8, <1>9, <3>1
  <2> HIDE DEF z
  <2> QED
    BY <1>1, <1>5, <2>1, SameReflexive DEF x, z
<1>10. CASE d = 1
  <2>1. e * x + 1 * N = e * x + N
    BY <1>1
  <2>2. Same(RootTo(r, e * x + N), -z, P)
    BY <1>5, RootHalf
  <2>3. SignOf(k) * z = -z
    <3> HIDE DEF z
    <3> QED
      BY <1>5, <1>6, <1>10
  <2>4. Same(RootTo(r, e * k), SignOf(k) * z, P)
    BY <1>8, <1>10, <2>1, <2>2, <2>3
  <2> QED
    BY <2>4 DEF x
<1> QED
  BY <1>4, <1>9, <1>10

(* The value of a polynomial at a power of the root.                       *)
ValueTerms(w, r, e) == [k \in Index |-> w[k] * RootTo(r, e * k)]

ValueAt(w, r, e) == SumFunctionOnSet(ValueTerms(w, r, e), Index)

LEMMA ValueTypes ==
    ASSUME SupportsNtt, NEW r \in Roots, NEW w \in [Index -> Int], NEW e \in Int
    PROVE  /\ IsFiniteSet(Index) /\ Terms(ValueTerms(w, r, e), Index) /\ ValueAt(w, r, e) \in Int
           /\ \A k \in Index : /\ e * k \in Int /\ k \in Int /\ RootTo(r, e * k) \in Int
                               /\ w[k] * RootTo(r, e * k) \in Int
<1>1. IsFiniteSet(Index) /\ \A k \in Index : k \in Int
  <2>1. N - 1 \in Int /\ 0 \in Int /\ Index = 0 .. N - 1
    BY Degree
  <2> QED
    BY <2>1, FS_Interval
<1>2. ASSUME NEW k \in Index
      PROVE  /\ e * k \in Int /\ k \in Int /\ RootTo(r, e * k) \in Int
             /\ w[k] * RootTo(r, e * k) \in Int
  <2> DEFINE j == e * k
             z == RootTo(r, j)
  <2>1. j \in Int /\ w[k] \in Int
    BY <1>1
  <2> HIDE DEF j
  <2>2. z \in Int
    BY <2>1, RootTypes
  <2> HIDE DEF z
  <2>3. w[k] * z \in Int
    BY <2>1, <2>2
  <2> QED
    BY <1>1, <2>1, <2>2, <2>3 DEF j, z
<1>3. Terms(ValueTerms(w, r, e), Index)
  BY <1>1, <1>2 DEF Terms, ValueTerms
<1> QED
  BY <1>1, <1>2, <1>3, SumInt DEF ValueAt

LEMMA EvaluateAt ==
    ASSUME SupportsNtt, NEW r \in Roots, NEW w \in [Index -> Int], NEW b \in Index,
           NEW e, e = 2 * BitRev[b] + 1
    PROVE  /\ e \in Int /\ e % 2 = 1 /\ ValueAt(w, r, e) \in Int
           /\ Evaluate(w, r, b) = ValueAt(w, r, e) % P /\ Evaluate(w, r, b) \in 0 .. P - 1
<1>1. \A k \in Index : k \in Int /\ k % 1 = 0 /\ k \div 1 = k
  BY Degree
<1>2. ClassOf(1, 0) = Index
  BY <1>1 DEF ClassOf
<1>3. FoldTerms(w, r, 1, b) = ValueTerms(w, r, e)
  BY <1>1 DEF FoldTerms, ValueTerms
<1>4. Fold(w, r, 1, b, 0) = ValueAt(w, r, e)
  BY <1>2, <1>3 DEF Fold, ValueAt
<1>5. BitRev[b] \in Int
  BY BitRevTypes, Degree
<1>6. e \in Int /\ e % 2 = 1
  BY <1>5
<1> QED
  BY <1>4, <1>6, FoldOne

-----------------------------------------------------------------------------
(* The operations on a row between its transforms. *)

(* An odd exponent permutes the indices.                                   *)
LEMMA OddPermutes ==
    ASSUME NEW e \in Nat, e % 2 = 1
    PROVE  /\ \A j \in Index : (j * e) % N \in Index
           /\ \A i, j \in Index : (i * e) % N = (j * e) % N => i = j
           /\ \A k \in Index : \E j \in Index : (j * e) % N = k
<1> DEFINE U == {k \in 0 .. LogN : HasInverse(e, Pow2[k])}
<1>1. LogN \in Nat /\ LogN <= 4 * W /\ N \in Nat \ {0} /\ N = Pow2[LogN] /\ Index = 0 .. N - 1
  BY Degree
<1>2. 0 \in U
  <2>1. Pow2[0] = 1
    BY PowersDouble
  <2>2. e * 1 = 1 + 1 * (e - 1) /\ e - 1 \in Int /\ 1 \in Nat
    OBVIOUS
  <2>3. HasInverse(e, 1)
    BY <2>2, IsInverse
  <2> QED
    BY <1>1, <2>1, <2>3
<1>3. \A n \in 0 .. LogN - 1 : n \in U => n + 1 \in U
  <2> TAKE n \in 0 .. LogN - 1
  <2> HAVE n \in U
  <2>1. n \in 0 .. LogN /\ n < LogN /\ n + 1 \in 0 .. LogN
    BY <1>1
  <2>2. Pow2[n] \in Nat /\ Pow2[n + 1] = 2 * Pow2[n]
    BY <2>1, Power2
  <2>3. HasInverse(e, 2 * Pow2[n])
    BY <2>2, InverseDoubles
  <2> QED
    BY <2>1, <2>2, <2>3
<1>4. \A n \in 0 .. LogN : n \in U
  <2> HIDE DEF U
  <2> QED
    BY <1>1, <1>2, <1>3, InductionUpTo
<1>5. HasInverse(e, N)
  <2>1. LogN \in 0 .. LogN
    BY <1>1
  <2> QED
    BY <1>1, <1>4, <2>1
<1> HIDE DEF U
<1>6. /\ \A j \in 0 .. N - 1 : (j * e) % N \in 0 .. N - 1
      /\ \A i, j \in 0 .. N - 1 : (i * e) % N = (j * e) % N => i = j
      /\ \A k \in 0 .. N - 1 : \E j \in 0 .. N - 1 : (j * e) % N = k
  <2>1. N \in Nat \ {0} /\ HasInverse(e, N)
    BY <1>1, <1>5
  <2> QED
    BY <2>1, InversePermutes
<1> QED
  BY <1>6 DEF Index

ComposedTerms(w, e, j) == [i \in Index |-> IF (i * e) % N = j THEN SignOf(i * e) * w[i] ELSE 0]

LEMMA ComposedIs ==
    ASSUME NEW w \in [Index -> Int], NEW e \in Nat, e % 2 = 1, NEW i \in Index,
           NEW j, j = (i * e) % N
    PROVE  /\ i * e \in Int /\ j \in Index /\ SignOf(i * e) \in Int
           /\ ComposedWith(w, e)[j] = (SignOf(i * e) * w[i]) % P
<1> DEFINE f == ComposedTerms(w, e, j)
<1>1. j \in Index /\ \A x \in Index : (x * e) % N = j => x = i
  BY OddPermutes
<1>2. Index = 0 .. N - 1 /\ N \in Nat
  BY Degree
<1>3. \A x \in Index : x * e \in Int
  BY <1>2
<1>4. \A x \in Index : SignOf(x * e) \in Int
  BY <1>3, Signs
<1>5. IsFiniteSet(Index)
  <2>1. N - 1 \in Int /\ 0 \in Int
    BY <1>2
  <2> QED
    BY <1>2, <2>1, FS_Interval
<1>6. \A x \in Index : f[x] = IF (x * e) % N = j THEN SignOf(x * e) * w[x] ELSE 0
  BY DEF ComposedTerms
<1>7. Terms(f, Index)
  <2>1. \A x \in Index : SignOf(x * e) * w[x] \in Int
    BY <1>4
  <2> QED
    BY <1>5, <1>6, <2>1 DEF Terms
<1>8. f[i] = SignOf(i * e) * w[i] /\ \A x \in Index : x # i => f[x] = 0
  BY <1>1, <1>6
<1>9. ComposedWith(w, e)[j] = SumFunction(f) % P
  BY <1>1 DEF ComposedWith, ComposedTerms
<1>10. DOMAIN f = Index
  BY DEF ComposedTerms
<1> HIDE DEF f
<1>11. SumFunctionOnSet(f, Index) = f[i]
  BY <1>7, <1>8, SumOnly
<1>12. SumFunction(f) = f[i]
  BY <1>10, <1>11 DEF SumFunction
<1> QED
  BY <1>1, <1>3, <1>4, <1>8, <1>9, <1>12

LEMMA ComposedTypes ==
    ASSUME NEW w \in [Index -> Int], NEW e \in Nat, e % 2 = 1
    PROVE  ComposedWith(w, e) \in [Index -> 0 .. P - 1]
<1>1. P \in Nat \ {0}
  BY RowModulus
<1>2. ASSUME NEW j \in Index PROVE ComposedWith(w, e)[j] \in 0 .. P - 1
  <2>1. PICK i \in Index : (i * e) % N = j
    BY OddPermutes
  <2> DEFINE x == SignOf(i * e) * w[i]
  <2>2. ComposedWith(w, e)[j] = x % P /\ SignOf(i * e) \in Int
    BY <2>1, ComposedIs
  <2>3. x \in Int
    BY <2>2
  <2> HIDE DEF x
  <2>4. x % P \in 0 .. P - 1
    BY <1>1, <2>3, Remainder
  <2> QED
    BY <2>2, <2>4
<1> DEFINE G(j) == SumFunction(ComposedTerms(w, e, j)) % P
<1>3. ComposedWith(w, e) = [j \in Index |-> G(j)]
  BY DEF ComposedWith, ComposedTerms
<1> HIDE DEF G
<1> QED
  BY <1>2, <1>3

LEMMA SubstitutedPowerExact ==
    ASSUME NEW w \in [Index -> 0 .. P - 1], NEW e \in Nat, e % 2 = 1, NEW j \in Index
    PROVE  SubstitutedPower(w, e)[j] = ComposedWith(w, e)[j]
<1>1. PICK i \in Index : (i * e) % N = j
  BY OddPermutes
<1>2. \A x \in Index : (x * e) % N = j => x = i
  BY <1>1, OddPermutes
<1> DEFINE k == CHOOSE k \in Index : (k * e) % N = j
<1>3. k = i
  BY <1>1, <1>2
<1>4. SubstitutedPower(w, e)[j]
        = IF ((k * e) \div N) % 2 = 1 THEN Sub(PModulus, 0, w[k]) ELSE Add(PModulus, 0, w[k])
  BY DEF SubstitutedPower
<1> HIDE DEF k
<1>5. P \in Nat \ {0} /\ PModulus.p = P
  BY RowModulus
<1>6. w \in [Index -> Int]
  BY <1>5
<1>7. /\ i * e \in Int /\ SignOf(i * e) \in Int
      /\ ComposedWith(w, e)[j] = (SignOf(i * e) * w[i]) % P
  BY <1>1, <1>6, ComposedIs, ZenonT(60)
<1> DEFINE v == w[i]
           d == ((i * e) \div N) % 2
<1>8. v \in 0 .. P - 1 /\ 0 \in 0 .. P - 1 /\ v \in Int
  BY <1>5
<1>9. d = 0 \/ d = 1
  <2> DEFINE y == (i * e) \div N
  <2>1. y \in Int
    <3> DEFINE z == i * e
    <3>1. z \in Int /\ N \in Nat \ {0}
      BY <1>7, Degree
    <3> HIDE DEF z
    <3>2. z \div N \in Int
      BY <3>1, Remainder
    <3> QED
      BY <3>2 DEF z
  <2> HIDE DEF y
  <2>2. y % 2 = 0 \/ y % 2 = 1
    BY <2>1
  <2> QED
    BY <2>2 DEF y
<1>10. SignOf(i * e) = IF d = 0 THEN 1 ELSE -1
  BY DEF SignOf
<1>11. SubstitutedPower(w, e)[j] = IF d = 1 THEN Sub(PModulus, 0, v) ELSE Add(PModulus, 0, v)
  BY <1>3, <1>4
<1> HIDE DEF d, v
<1>12. Add(PModulus, 0, v) = (0 + v) % P /\ Sub(PModulus, 0, v) = (0 - v) % P
  BY <1>5, <1>8, SumsExact
<1>13. 0 + v = 1 * v /\ 0 - v = (-1) * v
  BY <1>8
<1>14. ComposedWith(w, e)[j] = (SignOf(i * e) * v) % P
  BY <1>7 DEF v
<1>15. CASE d = 0
  BY <1>10, <1>11, <1>12, <1>13, <1>14, <1>15
<1>16. CASE d = 1
  BY <1>10, <1>11, <1>12, <1>13, <1>14, <1>16
<1> QED
  BY <1>9, <1>15, <1>16

(* The value of the composed polynomial at a power of the root.            *)
LEMMA ComposedAt ==
    ASSUME SupportsNtt, NEW r \in Roots, NEW w \in [Index -> Int], NEW e \in Nat, e % 2 = 1,
           NEW E \in Int, E % 2 = 1, NEW o \in Int, NEW n \in Int, E * e = o + n * (2 * N),
           NEW c, c = ComposedWith(w, e)
    PROVE  Same(ValueAt(w, r, o), ValueAt(c, r, E), P)
<1>1. P \in Nat \ {0} /\ P \in Int
  BY TransformModulus
<1>2. c \in [Index -> Int]
  <2>1. c \in [Index -> 0 .. P - 1]
    BY ComposedTypes
  <2> QED
    BY <1>1, <2>1
<1>3. Terms(ValueTerms(w, r, o), Index) /\ Terms(ValueTerms(c, r, E), Index)
  BY <1>2, ValueTypes
<1> DEFINE b == [i \in Index |-> (i * e) % N]
           f == ValueTerms(w, r, o)
           g == ValueTerms(c, r, E)
<1>4. ASSUME NEW i \in Index PROVE b[i] \in Index /\ Same(f[i], g[b[i]], P)
  <2> DEFINE k == i * e
             j == k % N
             s == SignOf(k)
             z == RootTo(r, E * j)
             y == RootTo(r, o * i)
             v == w[i]
  <2>1. k \in Int /\ j \in Index /\ s \in Int /\ c[j] = (s * v) % P
    BY ComposedIs
  <2>2. v \in Int /\ i \in Int /\ E * j \in Int /\ o * i \in Int
    <3>1. i \in Int /\ j \in Int /\ v \in Int
      <4>1. v \in Int
        OBVIOUS
      <4> HIDE DEF j, k, v
      <4>2. \A x \in Index : x \in Int
        BY Degree
      <4> QED
        BY <2>1, <4>1, <4>2
    <3> HIDE DEF j, v
    <3> QED
      BY <3>1
  <2>3. z \in Int /\ y \in Int
    <3> HIDE DEF j
    <3> DEFINE p1 == E * j
               p2 == o * i
    <3>1. p1 \in Int /\ p2 \in Int
      BY <2>2
    <3> HIDE DEF p1, p2
    <3>2. RootTo(r, p1) \in Int /\ RootTo(r, p2) \in Int
      BY <3>1, RootTypes
    <3> QED
      BY <3>2 DEF p1, p2
  <2>4. Same(RootTo(r, E * k), s * z, P)
    <3> HIDE DEF k
    <3> QED
      BY <2>1, RootSign
  <2>5. RootTo(r, E * k) = y
    <3>1. E * k = (E * e) * i
      BY <2>2
    <3> DEFINE u == n * i
    <3>2. (o + n * (2 * N)) * i = o * i + u * (2 * N)
      <4> DEFINE m == 2 * N
      <4>1. m \in Int
        BY Degree
      <4> HIDE DEF m
      <4>2. (o + n * m) * i = o * i + (n * m) * i
        <5> DEFINE q == n * m
        <5>1. q \in Int
          BY <4>1
        <5> HIDE DEF q
        <5>2. (o + q) * i = o * i + q * i
          BY <2>2, <5>1
        <5> QED
          BY <5>2 DEF q
      <4>3. (n * m) * i = (n * i) * m
        BY <2>2, <4>1
      <4> QED
        BY <4>2, <4>3 DEF m
    <3>3. E * k = o * i + u * (2 * N) /\ u \in Int
      BY <2>2, <3>1, <3>2
    <3> HIDE DEF u, k
    <3> DEFINE p1 == E * k
               p2 == o * i
    <3>4. p1 = p2 + u * (2 * N) /\ p2 \in Int /\ u \in Int
      BY <2>2, <3>3
    <3> HIDE DEF p1, p2
    <3>5. RootTo(r, p1) = RootTo(r, p2)
      BY <3>4, RootPeriod
    <3> QED
      BY <3>5 DEF p1, p2
  <2>6. s * s = 1
    <3> HIDE DEF k
    <3> QED
      BY <2>1, Signs
  <2>7. f[i] = v * y /\ g[j] = c[j] * z
    BY <2>1 DEF ValueTerms
  <2> HIDE DEF v, y, z, s, j, k
  <2>8. Same(y, s * z, P)
    BY <2>4, <2>5
  <2>9. Same(c[j] * z, (s * v) * z, P)
    <3> DEFINE x == s * v
    <3>1. x \in Int /\ c[j] = x % P
      BY <2>1, <2>2
    <3> HIDE DEF x
    <3>2. Same(c[j], x, P)
      BY <1>1, <3>1, SameMod
    <3>3. Same(z, z, P)
      BY <1>1, <2>3, SameReflexive
    <3>4. Same(c[j] * z, x * z, P)
      BY <1>1, <3>2, <3>3, SameTimes
    <3> QED
      BY <3>4 DEF x
  <2>10. Same(v * y, v * (s * z), P)
    BY <1>1, <2>2, <2>8, SameScaled
  <2>11. (s * v) * z = v * (s * z)
    BY <2>1, <2>2, <2>3
  <2>12. Same(v * y, c[j] * z, P)
    <3> DEFINE x1 == v * y
               x2 == (s * v) * z
               x3 == c[j] * z
    <3>1. Same(x1, x2, P) /\ Same(x3, x2, P)
      BY <2>9, <2>10, <2>11
    <3> HIDE DEF x1, x2, x3
    <3>2. Same(x2, x3, P)
      BY <1>1, <3>1, SameSymmetric
    <3>3. Same(x1, x3, P)
      BY <1>1, <3>1, <3>2, SameTransitive
    <3> QED
      BY <3>3 DEF x1, x3
  <2>13. b[i] = j
    BY DEF j, k
  <2> QED
    BY <2>1, <2>7, <2>12, <2>13
<1>5. /\ \A x, y \in Index : b[x] = b[y] => x = y
      /\ \A y \in Index : \E x \in Index : b[x] = y
  BY OddPermutes
<1> HIDE DEF b, f, g
<1>6. Terms(f, Index) /\ Terms(g, Index)
  BY <1>3 DEF f, g
<1>7. Same(SumFunctionOnSet(f, Index), SumFunctionOnSet(g, Index), P)
  BY <1>1, <1>4, <1>5, <1>6, SumSame
<1> QED
  BY <1>7 DEF ValueAt, f, g

LEMMA SubstitutedNttExact ==
    ASSUME SupportsNtt, NEW r \in Roots, NEW w \in [Index -> Int], NEW e \in Nat, e % 2 = 1,
           NEW j \in Index, NEW a
    PROVE  \E x \in Index : /\ SubstitutedNtt(a, e)[j] = a[x]
                            /\ Evaluate(ComposedWith(w, e), r, j) = Evaluate(w, r, x)
<1>1. N \in Nat \ {0} /\ Index = 0 .. N - 1 /\ BitRev[j] \in Index
  BY Degree, BitRevTypes
<1> DEFINE h == (e - 1) \div 2
           u == h + BitRev[j] * e
           q == u % N
           n == u \div N
           x == BitRev[q]
           E == 2 * BitRev[j] + 1
           o == 2 * q + 1
           c == ComposedWith(w, e)
<1>2. e = 2 * h + 1 /\ h \in Int
  OBVIOUS
<1>3. BitRev[j] \in Int /\ BitRev[j] * e \in Int
  <2>1. BitRev[j] \in Int
    BY <1>1
  <2> QED
    BY <2>1
<1> HIDE DEF h
<1>4. u \in Int
  BY <1>2, <1>3
<1>5. SubstitutedNtt(a, e)[j] = a[x]
  BY <1>1 DEF SubstitutedNtt, PowerBitRev, h
<1>6. E * e = 2 * u + 1
  <2> DEFINE y == BitRev[j]
  <2>1. y \in Int
    BY <1>3
  <2> HIDE DEF y
  <2>2. (2 * y + 1) * e = 2 * (y * e) + e
    BY <2>1
  <2> QED
    BY <1>2, <1>3, <2>2 DEF y
<1> HIDE DEF u
<1>7. q \in Index /\ n \in Int /\ q \in Int /\ u = n * N + q
  <2>1. /\ u % N \in Int /\ u \div N \in Int /\ 0 <= u % N /\ u % N < N
        /\ u = (u \div N) * N + (u % N)
    BY <1>1, <1>4, Remainder
  <2> QED
    BY <1>1, <2>1
<1> HIDE DEF q, n
<1>8. x \in Index /\ BitRev[x] = q
  BY <1>7, BitRevTypes, BitRevTwice
<1>9. o \in Int /\ E * e = o + n * (2 * N)
  <2>1. n * (2 * N) = 2 * (n * N) /\ n * N \in Int
    BY <1>1, <1>7
  <2> QED
    BY <1>6, <1>7, <2>1
<1>10. c \in [Index -> Int]
  <2>1. c \in [Index -> 0 .. P - 1] /\ P \in Nat \ {0}
    BY ComposedTypes, TransformModulus
  <2> QED
    BY <2>1
<1> HIDE DEF x
<1>11. /\ E \in Int /\ E % 2 = 1 /\ ValueAt(c, r, E) \in Int
       /\ Evaluate(c, r, j) = ValueAt(c, r, E) % P
  <2> HIDE DEF c
  <2> QED
    BY <1>10, EvaluateAt
<1>12. ValueAt(w, r, o) \in Int /\ Evaluate(w, r, x) = ValueAt(w, r, o) % P
  <2>1. o = 2 * BitRev[x] + 1
    BY <1>8
  <2> HIDE DEF o
  <2> QED
    BY <1>8, <2>1, EvaluateAt
<1> HIDE DEF E, o
<1>13. Same(ValueAt(w, r, o), ValueAt(c, r, E), P)
  BY <1>7, <1>9, <1>11, ComposedAt
<1>14. P \in Nat \ {0}
  BY TransformModulus
<1>15. ValueAt(w, r, o) % P = ValueAt(c, r, E) % P
  <2> DEFINE y1 == ValueAt(w, r, o)
             y2 == ValueAt(c, r, E)
  <2>1. Same(y1, y2, P)
    BY <1>13
  <2> HIDE DEF y1, y2
  <2>2. y1 % P = y2 % P
    BY <1>14, <2>1, SameEqual
  <2> QED
    BY <2>2 DEF y1, y2
<1> QED
  BY <1>5, <1>8, <1>11, <1>12, <1>15

(* A power of X is divided by: coefficients move down and wrap around.     *)
LEMMA ShiftedExact ==
    ASSUME SupportsNtt, NEW w \in [Index -> 0 .. P - 1], NEW power \in 0 .. 2 * N, NEW j \in Index
    PROVE  /\ Shifted(w, power)[j] = TimesMonomial(w, -power)[j]
           /\ TimesMonomial(w, -power)[j] \in 0 .. P - 1
<1>1. P \in Nat \ {0} /\ PModulus.p = P
  BY TransformModulus
<1> DEFINE D == 2 * N
           y == D - power
           shift == y % D
           t == y \div D
           k == (j + D - shift) % N
           i == (j - (-power)) % N
<1>2. N \in Nat \ {0} /\ D \in Nat \ {0} /\ D \in Int /\ D = 2 * N /\ Index = 0 .. N - 1
  BY Degree
<1>3. Shifted(w, power)[j]
        = IF ((shift + k) \div N) % 2 = 0 THEN w[k] ELSE Neg(PModulus, w[k])
  BY DEF Shifted
<1>4. TimesMonomial(w, -power)[j] = (SignOf((i + (-power)) % D) * w[i]) % P
  BY DEF TimesMonomial
<1>5. y \in Int /\ y = D - power /\ j \in Int /\ power \in Int
  BY <1>2
<1> HIDE DEF D, y
<1>6. shift \in Int /\ t \in Int /\ y = t * D + shift
  BY <1>2, <1>5, Remainder
<1> HIDE DEF shift, t
<1>7. k = i /\ i \in Index
  <2> DEFINE x1 == j + D - shift
             x2 == j - (-power)
             m == 2 * t
  <2>1. x1 = m * N + x2 /\ x1 \in Int /\ x2 \in Int /\ m \in Int
    <3> DEFINE d == t * D
    <3>1. d = m * N /\ d \in Int
      BY <1>2, <1>6
    <3>2. D - power = d + shift
      BY <1>5, <1>6
    <3>3. x1 = d + x2 /\ x1 \in Int /\ x2 \in Int
      <4>1. D \in Int /\ power \in Int /\ j \in Int /\ shift \in Int /\ d \in Int
        BY <1>2, <1>5, <1>6, <3>1
      <4> HIDE DEF d, m
      <4>2. D - shift = d + power /\ -power \in Int
        BY <3>2, <4>1
      <4>3. j - (-power) = j + power /\ j + D - shift = j + (D - shift)
        BY <4>1
      <4> QED
        BY <4>1, <4>2, <4>3
    <3> HIDE DEF d, m, x1, x2
    <3>4. m \in Int
      BY <1>6 DEF m
    <3> QED
      BY <3>1, <3>3, <3>4
  <2> HIDE DEF x1, x2, m
  <2>2. x1 % N = x2 % N
    <3>1. N \in Nat \ {0}
      BY <1>2
    <3> QED
      BY <2>1, <3>1, SameRemainder, ZenonT(60)
  <2>3. x2 % N \in 0 .. N - 1
    BY <1>2, <2>1, Remainder
  <2> QED
    BY <1>2, <2>2, <2>3 DEF x1, x2
<1> HIDE DEF k, i
<1>8. i \in Int
  BY <1>2, <1>7
<1> DEFINE v == w[i]
           d == shift + i
           s == SignOf(d)
<1>9. v \in 0 .. P - 1 /\ v \in Int
  BY <1>1, <1>7
<1>10. d \in Int
  BY <1>6, <1>8
<1>11. d % D = (i + (-power)) % D
  <2> DEFINE x2 == i + (-power)
             m == 1 - t
  <2>1. d = m * D + x2 /\ x2 \in Int /\ m \in Int
    <3> DEFINE z == t * D
    <3>1. z \in Int /\ (1 - t) * D = D - z
      BY <1>2, <1>6
    <3>2. y = z + shift
      BY <1>6
    <3> HIDE DEF z
    <3> QED
      BY <1>2, <1>5, <1>6, <1>8, <3>1, <3>2
  <2> HIDE DEF d, x2, m
  <2>2. d % D = x2 % D
    <3>1. D \in Nat \ {0}
      BY <1>2
    <3> QED
      BY <1>10, <2>1, <3>1, SameRemainder, ZenonT(60)
  <2> QED
    BY <2>2 DEF x2
<1>12. SignOf((i + (-power)) % D) = s
  <2>1. SignOf(d % (2 * N)) = SignOf(d)
    <3> HIDE DEF d
    <3> QED
      BY <1>10, Signs
  <2> HIDE DEF d
  <2> QED
    BY <1>2, <1>11, <2>1
<1>13. s = IF (d \div N) % 2 = 0 THEN 1 ELSE -1
  BY DEF SignOf
<1>14. Shifted(w, power)[j] = IF (d \div N) % 2 = 0 THEN v ELSE Neg(PModulus, v)
  BY <1>3, <1>7
<1>15. TimesMonomial(w, -power)[j] = (s * v) % P
  BY <1>4, <1>12
<1> HIDE DEF v, s, d
<1>16. Neg(PModulus, v) = (-v) % P
  BY <1>1, <1>9, SumsExact
<1>17. v = v % P
  BY <1>1, <1>9, OwnRemainder
<1>18. s * v = (IF (d \div N) % 2 = 0 THEN v ELSE -v) /\ s * v \in Int
  <2>1. 1 * v = v /\ (-1) * v = -v /\ -v \in Int
    BY <1>9
  <2> QED
    BY <1>9, <1>13, <2>1
<1>19. (s * v) % P \in 0 .. P - 1
  <2> DEFINE z == s * v
  <2>1. z \in Int
    BY <1>18
  <2> HIDE DEF z
  <2>2. z % P \in 0 .. P - 1
    BY <1>1, <2>1, Remainder
  <2> QED
    BY <2>2 DEF z
<1>20. Shifted(w, power)[j] = (s * v) % P
  <2>1. CASE (d \div N) % 2 = 0
    BY <1>14, <1>17, <1>18, <2>1
  <2>2. CASE (d \div N) % 2 # 0
    BY <1>14, <1>16, <1>18, <2>2
  <2> QED
    BY <2>1, <2>2
<1> QED
  BY <1>15, <1>19, <1>20

(* Subtracting an index modulo N permutes the indices.                     *)
LEMMA ShiftPermutes ==
    ASSUME NEW i \in Index
    PROVE  /\ \A j \in Index : (j - i) % N \in Index
           /\ \A x, y \in Index : (x - i) % N = (y - i) % N => x = y
           /\ \A k \in Index : \E j \in Index : (j - i) % N = k
<1>1. N \in Nat \ {0} /\ Index = 0 .. N - 1 /\ N \in Int /\ i \in Int
  BY Degree
<1>2. ASSUME NEW j \in Index
      PROVE  /\ (j - i) % N \in Index /\ j \in Int /\ (j - i) % N \in Int
             /\ Same((j - i) % N, j - i, N)
  <2> DEFINE x == j - i
  <2>1. x \in Int /\ j \in Int
    BY <1>1
  <2> HIDE DEF x
  <2>2. x % N \in 0 .. N - 1 /\ x % N \in Int
    BY <1>1, <2>1, Remainder
  <2>3. Same(x % N, x, N)
    BY <1>1, <2>1, SameMod
  <2> QED
    BY <1>1, <2>1, <2>2, <2>3 DEF x
<1>3. ASSUME NEW x \in Index, NEW y \in Index, (x - i) % N = (y - i) % N PROVE x = y
  <2> DEFINE u == (x - i) % N
             u1 == x - i
             u2 == y - i
  <2>1. Same(u, u1, N) /\ Same(u, u2, N)
    BY <1>2, <1>3
  <2>2. x = u1 + i /\ y = u2 + i /\ Same(i, i, N)
    BY <1>1, <1>2, SameReflexive
  <2> HIDE DEF u, u1, u2
  <2>3. Same(u1, u, N)
    BY <1>1, <2>1, SameSymmetric
  <2>4. Same(u1, u2, N)
    BY <1>1, <2>1, <2>3, SameTransitive
  <2>5. Same(u1 + i, u2 + i, N)
    BY <1>1, <2>2, <2>4, SameAdd
  <2>6. Same(x, y, N)
    BY <2>2, <2>5
  <2> QED
    BY <1>1, <2>6, SameIndex
<1>4. ASSUME NEW k \in Index PROVE \E j \in Index : (j - i) % N = k
  <2>1. k \in Int /\ 0 <= k /\ k < N /\ 0 <= i /\ i < N
    BY <1>1
  <2>2. CASE k + i < N
    <3>1. k + i \in Index /\ (k + i) - i = k
      BY <1>1, <2>1, <2>2
    <3>2. k % N = k
      BY <1>1, <2>1, OwnRemainder
    <3> QED
      BY <3>1, <3>2
  <2>3. CASE ~(k + i < N)
    <3> DEFINE j == k + i - N
               x == j - i
    <3>1. j \in Index /\ x \in Int /\ x = (-1) * N + k
      BY <1>1, <2>1, <2>3
    <3> HIDE DEF x
    <3>2. x % N = k
      BY <1>1, <2>1, <3>1, RemainderUnique
    <3> QED
      BY <3>1, <3>2 DEF x
  <2> QED
    BY <2>2, <2>3
<1> QED
  BY <1>2, <1>3, <1>4

ProductTerms(w, f, j) == [i \in Index |-> SignOf((j - i) % (2 * N)) * w[i] * f[(j - i) % N]]

LEMMA ProductIs ==
    ASSUME NEW w \in [Index -> Int], NEW f \in [Index -> Int], NEW j \in Index
    PROVE  /\ \A i \in Index : /\ (j - i) % N \in Index /\ SignOf((j - i) % (2 * N)) = SignOf(j - i)
                               /\ j - i \in Int /\ SignOf(j - i) \in Int
                               /\ ProductTerms(w, f, j)[i] \in Int
                               /\ ProductTerms(w, f, j)[i]
                                    = (SignOf(j - i) * w[i]) * f[(j - i) % N]
           /\ SumFunctionOnSet(ProductTerms(w, f, j), Index) \in Int
           /\ Product1(w, f)[j] = SumFunctionOnSet(ProductTerms(w, f, j), Index) % P
           /\ Product1(w, f)[j] \in 0 .. P - 1
<1>1. N \in Nat \ {0} /\ Index = 0 .. N - 1 /\ \A i \in Index : i \in Int
  BY Degree
<1>2. ASSUME NEW i \in Index
      PROVE  /\ (j - i) % N \in Index /\ SignOf((j - i) % (2 * N)) = SignOf(j - i)
             /\ j - i \in Int /\ SignOf(j - i) \in Int
             /\ ProductTerms(w, f, j)[i] \in Int
             /\ ProductTerms(w, f, j)[i] = (SignOf(j - i) * w[i]) * f[(j - i) % N]
  <2>1. (j - i) % N \in Index
    BY ShiftPermutes
  <2>2. j - i \in Int
    BY <1>1
  <2> DEFINE d == j - i
             s == SignOf(d)
             v == w[i]
             u == f[(j - i) % N]
  <2>3. s \in Int /\ SignOf(d % (2 * N)) = s
    <3>1. d \in Int
      BY <2>2
    <3> HIDE DEF d
    <3> QED
      BY <3>1, Signs
  <2>4. v \in Int /\ u \in Int
    BY <2>1
  <2>5. ProductTerms(w, f, j)[i] = (s * v) * u
    BY <2>3 DEF ProductTerms
  <2>6. (s * v) * u \in Int
    <3> HIDE DEF s, v, u
    <3> QED
      BY <2>3, <2>4
  <2> QED
    BY <2>1, <2>2, <2>3, <2>5, <2>6
<1>3. IsFiniteSet(Index)
  <2>1. N - 1 \in Int /\ 0 \in Int
    BY <1>1
  <2> QED
    BY <1>1, <2>1, FS_Interval
<1> DEFINE g == ProductTerms(w, f, j)
<1>4. Terms(g, Index)
  BY <1>2, <1>3 DEF Terms
<1>5. Product1(w, f)[j] = SumFunction(g) % P
  BY DEF Product1, ProductTerms
<1>6. DOMAIN g = Index
  BY DEF ProductTerms
<1> HIDE DEF g
<1> DEFINE z == SumFunctionOnSet(g, Index)
<1>7. SumFunction(g) = z /\ z \in Int
  BY <1>4, <1>6, SumInt DEF SumFunction
<1> HIDE DEF z
<1>8. P \in Nat \ {0}
  BY RowModulus
<1>9. z % P \in 0 .. P - 1
  BY <1>7, <1>8, Remainder
<1> QED
  BY <1>2, <1>5, <1>7, <1>9 DEF g, z

LEMMA ProductTermIs ==
    ASSUME NEW w, NEW f, NEW j \in Index, NEW i \in Index
    PROVE  ProductTerms(w, f, j)[i] = (SignOf(j - i) * w[i]) * f[(j - i) % N]
<1>1. j - i \in Int
  BY Degree
<1> DEFINE d == j - i
<1>2. SignOf(d % (2 * N)) = SignOf(d)
  <2> HIDE DEF d
  <2> QED
    BY <1>1, Signs DEF d
<1>3. ProductTerms(w, f, j)[i] = (SignOf(d % (2 * N)) * w[i]) * f[d % N]
  BY DEF ProductTerms
<1> QED
  BY <1>2, <1>3

(* The values of the product of two polynomials.                           *)
LEMMA ProductAtRoot ==
    ASSUME SupportsNtt, NEW r \in Roots, NEW w \in [Index -> Int], NEW f \in [Index -> Int],
           NEW E \in Int, E % 2 = 1, NEW c, c = Product1(w, f)
    PROVE  c \in [Index -> Int] /\ Same(ValueAt(c, r, E), ValueAt(w, r, E) * ValueAt(f, r, E), P)
<1>1. P \in Nat \ {0} /\ P \in Int
  BY TransformModulus
<1>2. c \in [Index -> Int]
  <2> DEFINE G(j) == SumFunction(ProductTerms(w, f, j)) % P
  <2>1. c = [j \in Index |-> G(j)]
    BY DEF Product1, ProductTerms
  <2>2. \A j \in Index : c[j] \in Int
    <3>1. \A j \in Index : c[j] \in 0 .. P - 1
      BY ProductIs
    <3> QED
      BY <1>1, <3>1
  <2> HIDE DEF G
  <2> QED
    BY <2>1, <2>2
<1>3. IsFiniteSet(Index) /\ \A i \in Index : i \in Int
  BY ValueTypes
<1> DEFINE z == ValueAt(f, r, E)
<1>4. z \in Int
  BY ValueTypes
<1> HIDE DEF z
(* the terms of the double sum, by rows and by columns *)
<1> DEFINE h == [j \in Index |-> [i \in Index |->
                    RootTo(r, E * j) * ProductTerms(w, f, j)[i]]]
           v == [i \in Index |-> [j \in Index |->
                    RootTo(r, E * j) * ProductTerms(w, f, j)[i]]]
           rows == [j \in Index |-> SumFunctionOnSet(h[j], Index)]
           cols == [i \in Index |-> SumFunctionOnSet(v[i], Index)]
<1>5. ASSUME NEW j \in Index, NEW i \in Index
      PROVE  h[j][i] \in Int /\ v[i][j] = h[j][i]
  <2>1. RootTo(r, E * j) \in Int /\ ProductTerms(w, f, j)[i] \in Int
    BY ValueTypes, ProductIs
  <2>2. RootTo(r, E * j) * ProductTerms(w, f, j)[i] \in Int
    <3> DEFINE x == RootTo(r, E * j)
               y == ProductTerms(w, f, j)[i]
    <3>1. x \in Int /\ y \in Int
      BY <2>1
    <3> HIDE DEF x, y
    <3>2. x * y \in Int
      BY <3>1
    <3> QED
      BY <3>2 DEF x, y
  <2> QED
    BY <2>2
<1>6. ASSUME NEW j \in Index
      PROVE  rows[j] \in Int /\ Same(c[j] * RootTo(r, E * j), rows[j], P)
  <2> DEFINE y == RootTo(r, E * j)
             g == ProductTerms(w, f, j)
             t == SumFunctionOnSet(g, Index)
             b == h[j]
  <2>1. y \in Int /\ t \in Int /\ c[j] = t % P
    BY ValueTypes, ProductIs
  <2>2. Terms(g, Index)
    BY <1>3, ProductIs DEF Terms
  <2>3. \A i \in Index : b[i] = y * g[i]
    OBVIOUS
  <2>4. rows[j] = SumFunctionOnSet(b, Index)
    OBVIOUS
  <2> HIDE DEF y, g, b
  <2>5. SumFunctionOnSet(b, Index) = y * t
    BY <2>1, <2>2, <2>3, SumScaled
  <2> HIDE DEF t
  <2>6. Same(c[j], t, P)
    BY <1>1, <2>1, SameMod
  <2>7. Same(y * c[j], y * t, P)
    BY <1>1, <2>1, <2>6, SameScaled
  <2>8. y * c[j] = c[j] * y /\ y * t \in Int
    <3>1. c[j] \in Int
      BY <1>2
    <3> QED
      BY <2>1, <3>1
  <2> HIDE DEF rows, h
  <2>9. Same(c[j] * y, rows[j], P) /\ rows[j] \in Int
    BY <2>4, <2>5, <2>7, <2>8
  <2> QED
    BY <2>9 DEF y
<1>7. Same(ValueAt(c, r, E), SumFunctionOnSet(rows, Index), P)
  <2> DEFINE g == ValueTerms(c, r, E)
  <2>1. Terms(g, Index)
    BY <1>2, ValueTypes
  <2>2. \A j \in Index : Same(g[j], rows[j], P)
    <3> HIDE DEF rows
    <3> QED
      BY <1>6 DEF ValueTerms
  <2> HIDE DEF g, rows
  <2>3. Terms(rows, Index)
    BY <1>3, <1>6 DEF Terms
  <2>4. Same(SumFunctionOnSet(g, Index), SumFunctionOnSet(rows, Index), P)
    BY <1>1, <2>1, <2>2, <2>3, SumCongruent
  <2> QED
    BY <2>4 DEF ValueAt, g
<1>8. SumFunctionOnSet(rows, Index) = SumFunctionOnSet(cols, Index)
  <2>1. /\ \A j \in Index : rows[j] = SumFunctionOnSet(h[j], Index)
        /\ \A i \in Index : cols[i] = SumFunctionOnSet(v[i], Index)
    OBVIOUS
  <2>2. \A j \in Index, i \in Index : h[j][i] \in Int /\ v[i][j] = h[j][i]
    BY <1>5
  <2> HIDE DEF rows, cols, h, v
  <2> QED
    BY <1>3, <2>1, <2>2, SumSwap
<1>9. ASSUME NEW i \in Index
      PROVE  cols[i] \in Int /\ Same(cols[i], z * ValueTerms(w, r, E)[i], P)
  <2>0. \A j \in Index :
           ProductTerms(w, f, j)[i] = (SignOf(j - i) * w[i]) * f[(j - i) % N]
    <3> HIDE DEF rows, cols, h, v
    <3> QED
      BY ProductTermIs
  <2> DEFINE y == w[i] * RootTo(r, E * i)
             u == ValueTerms(f, r, E)
             t == [k \in Index |-> y * u[k]]
             b == [j \in Index |-> (j - i) % N]
             d == v[i]
  <2>1. y \in Int /\ Terms(u, Index) /\ z = SumFunctionOnSet(u, Index)
    BY ValueTypes DEF ValueAt, z
  <2>2. ASSUME NEW j \in Index PROVE b[j] \in Index /\ Same(d[j], t[b[j]], P)
    <3> DEFINE n == j - i
               k == n % N
               s == SignOf(n)
               Ri == RootTo(r, E * i)
               Rj == RootTo(r, E * j)
               Rk == RootTo(r, E * k)
               Rn == RootTo(r, E * n)
               wi == w[i]
               fk == f[k]
    <3>1. k \in Index /\ n \in Int /\ s \in Int
      BY ProductIs
    <3>2. d[j] = Rj * ((s * wi) * fk)
      <4>1. ProductTerms(w, f, j)[i] = (SignOf(j - i) * w[i]) * f[(j - i) % N]
        BY <2>0
      <4>2. d[j] = Rj * ProductTerms(w, f, j)[i]
        OBVIOUS
      <4> QED
        BY <4>1, <4>2
    <3>3. t[b[j]] = (wi * Ri) * (fk * Rk)
      BY <3>1 DEF ValueTerms
    <3>4. s = 1 \/ s = -1
      BY DEF SignOf
    <3>5. Ri \in Int /\ Rj \in Int /\ Rk \in Int /\ wi \in Int /\ fk \in Int
      <4> HIDE DEF k
      <4> QED
        BY <3>1, ValueTypes
    <3>6. Same(Rn, s * Rk, P)
      <4> HIDE DEF n
      <4> QED
        BY <3>1, RootSign
    <3>7. Same(Ri * Rn, Rj, P)
      <4> DEFINE p1 == E * i
                 p2 == E * n
      <4>1. i \in Int /\ j \in Int /\ i + n = j
        BY <1>3
      <4> HIDE DEF n
      <4>2. p1 \in Int /\ p2 \in Int /\ p1 + p2 = E * j
        <5>1. E * (i + n) = E * i + E * n /\ E * i \in Int /\ E * n \in Int
          BY <3>1, <4>1, Distributes
        <5> QED
          BY <4>1, <5>1
      <4> HIDE DEF p1, p2
      <4>3. Same(RootTo(r, p1) * RootTo(r, p2), RootTo(r, p1 + p2), P)
        BY <4>2, RootTimes
      <4> QED
        BY <4>2, <4>3 DEF p1, p2
    <3>8. b[j] = k
      OBVIOUS
    <3> HIDE DEF n, k, s, Ri, Rj, Rk, Rn, wi, fk, d, t, b
    <3>9. Same(Ri * Rn, Ri * (s * Rk), P)
      BY <1>1, <3>5, <3>6, SameScaled
    <3>10. Same(Rj, Ri * (s * Rk), P)
      <4> DEFINE x1 == Ri * Rn
                 x2 == Ri * (s * Rk)
      <4>1. Same(x1, Rj, P) /\ Same(x1, x2, P)
        BY <3>7, <3>9
      <4> HIDE DEF x1, x2
      <4>2. Same(Rj, x1, P)
        BY <1>1, <4>1, SameSymmetric
      <4>3. Same(Rj, x2, P)
        BY <1>1, <4>1, <4>2, SameTransitive
      <4> QED
        BY <4>3 DEF x2
    <3> DEFINE x == (s * wi) * fk
               x2 == Ri * (s * Rk)
    <3>11. x \in Int /\ x2 * x = (wi * Ri) * (fk * Rk)
      <4>1. CASE s = 1
        <5>1. x = wi * fk /\ x2 = Ri * Rk
          BY <3>5, <4>1
        <5>2. (Ri * Rk) * (wi * fk) = (wi * Ri) * (fk * Rk)
          BY <3>5
        <5>3. x \in Int
          BY <3>5, <5>1
        <5> QED
          BY <5>1, <5>2, <5>3
      <4>2. CASE s = -1
        <5>1. x = -(wi * fk) /\ x2 = -(Ri * Rk)
          BY <3>5, <4>2
        <5>2. (Ri * Rk) * (wi * fk) = (wi * Ri) * (fk * Rk)
          BY <3>5
        <5>3. wi * fk \in Int /\ Ri * Rk \in Int
          BY <3>5
        <5> DEFINE y1 == wi * fk
                   y2 == Ri * Rk
        <5>4. (-y2) * (-y1) = y2 * y1 /\ -y1 \in Int
          <6> HIDE DEF y1, y2
          <6>1. y1 \in Int /\ y2 \in Int
            BY <5>3 DEF y1, y2
          <6> QED
            BY <6>1
        <5> QED
          BY <5>1, <5>2, <5>4
      <4> QED
        BY <3>4, <4>1, <4>2
    <3> HIDE DEF x, x2
    <3>12. Same(Rj * x, x2 * x, P)
      <4>1. Same(x, x, P)
        BY <1>1, <3>11, SameReflexive
      <4>2. Same(Rj, x2, P)
        BY <3>10 DEF x2
      <4> QED
        BY <1>1, <4>1, <4>2, SameTimes
    <3>13. Same(d[j], t[b[j]], P)
      BY <3>2, <3>3, <3>11, <3>12 DEF x
    <3> QED
      BY <3>1, <3>8, <3>13
  <2>3. /\ \A x1, x2 \in Index : b[x1] = b[x2] => x1 = x2
        /\ \A x2 \in Index : \E x1 \in Index : b[x1] = x2
    BY ShiftPermutes
  <2>4. Terms(d, Index)
    BY <1>3, <1>5 DEF Terms
  <2>5. Terms(t, Index)
    <3>1. \A k \in Index : u[k] \in Int
      BY <2>1 DEF Terms
    <3> HIDE DEF y, u
    <3>2. \A k \in Index : y * u[k] \in Int
      BY <2>1, <3>1
    <3> QED
      BY <1>3, <3>2 DEF Terms
  <2>6. \A k \in Index : t[k] = y * u[k]
    OBVIOUS
  <2>7. cols[i] = SumFunctionOnSet(d, Index)
    OBVIOUS
  <2>8. ValueTerms(w, r, E)[i] = y
    BY DEF ValueTerms
  <2> HIDE DEF b, d, t, u, y, cols
  <2>9. Same(SumFunctionOnSet(d, Index), SumFunctionOnSet(t, Index), P)
    BY <1>1, <2>2, <2>3, <2>4, <2>5, SumSame
  <2>10. SumFunctionOnSet(t, Index) = y * z
    BY <2>1, <2>6, SumScaled
  <2>11. y * z = z * y /\ SumFunctionOnSet(d, Index) \in Int
    BY <1>4, <2>1, <2>4, SumInt
  <2> QED
    BY <2>7, <2>8, <2>9, <2>10, <2>11
<1>10. Same(SumFunctionOnSet(cols, Index), z * ValueAt(w, r, E), P)
  <2> DEFINE g == ValueTerms(w, r, E)
             t == [i \in Index |-> z * g[i]]
  <2>1. Terms(g, Index) /\ ValueAt(w, r, E) = SumFunctionOnSet(g, Index)
    BY ValueTypes DEF ValueAt
  <2>2. \A i \in Index : cols[i] \in Int /\ Same(cols[i], z * g[i], P)
    <3> HIDE DEF cols
    <3> QED
      BY <1>9
  <2> HIDE DEF g, cols
  <2>3. Terms(cols, Index)
    BY <1>3, <2>2 DEF Terms
  <2>4. Terms(t, Index)
    <3>1. \A i \in Index : g[i] \in Int
      BY <2>1 DEF Terms
    <3>2. \A i \in Index : z * g[i] \in Int
      BY <1>4, <3>1
    <3> QED
      BY <1>3, <3>2 DEF Terms
  <2>5. \A i \in Index : t[i] = z * g[i] /\ Same(cols[i], t[i], P)
    BY <2>2
  <2> HIDE DEF t
  <2>6. Same(SumFunctionOnSet(cols, Index), SumFunctionOnSet(t, Index), P)
    BY <1>1, <2>3, <2>4, <2>5, SumCongruent
  <2>7. SumFunctionOnSet(t, Index) = z * SumFunctionOnSet(g, Index)
    BY <1>4, <2>1, <2>5, SumScaled
  <2> QED
    BY <2>1, <2>6, <2>7
<1> HIDE DEF rows, cols, h, v
<1> DEFINE y == ValueAt(w, r, E)
           x1 == ValueAt(c, r, E)
           x2 == SumFunctionOnSet(rows, Index)
           x3 == y * z
<1>11. z * y = y * z
  <2>1. y \in Int
    BY ValueTypes
  <2> HIDE DEF y
  <2> QED
    BY <1>4, <2>1
<1>12. Same(x1, x2, P) /\ Same(x2, x3, P)
  BY <1>7, <1>8, <1>10, <1>11
<1> HIDE DEF x1, x2, x3
<1>13. Same(x1, x3, P)
  BY <1>1, <1>12, SameTransitive
<1> QED
  BY <1>2, <1>13 DEF x1, x3, z

(* Values multiplied by values with their Shoup quotients.                 *)
LEMMA MultipliedExact ==
    ASSUME SupportsNtt, NEW r \in Roots, NEW w \in [Index -> Int], NEW g \in [Index -> Int],
           NEW j \in Index, NEW x \in 0 .. 4 * P - 1, x % P = Evaluate(w, r, j),
           NEW v, v = Evaluate(g, r, j)
    PROVE  MulShoup(PModulus, x, v, Shoup(PModulus, v)) = Evaluate(Product1(w, g), r, j)
<1>1. /\ P \in Nat \ {0} /\ P \in Nat /\ P \in Int /\ NewModulusOk(P) /\ PModulus = NewModulus(P)
      /\ 4 * P < B
  BY TransformModulus
<1>2. x \in Word /\ x \in Int
  BY <1>1, WordTypes DEF Word
<1> DEFINE E == 2 * BitRev[j] + 1
           c == Product1(w, g)
           y1 == ValueAt(w, r, E)
           y2 == ValueAt(g, r, E)
           y3 == ValueAt(c, r, E)
<1>3. E \in Int /\ E % 2 = 1 /\ y1 \in Int /\ Evaluate(w, r, j) = y1 % P
  BY EvaluateAt
<1>4. y2 \in Int /\ v = y2 % P /\ v \in 0 .. P - 1
  BY EvaluateAt
<1>5. c \in [Index -> Int] /\ Same(y3, y1 * y2, P)
  <2> HIDE DEF E
  <2> QED
    BY <1>3, ProductAtRoot
<1>6. y3 \in Int /\ Evaluate(c, r, j) = y3 % P
  <2> HIDE DEF c
  <2> QED
    BY <1>5, EvaluateAt
<1> HIDE DEF E, c, y1, y2, y3
<1>7. MulShoup(PModulus, x, v, Shoup(PModulus, v)) = (x * v) % P
  BY <1>1, <1>2, <1>4, MulShoupExact
<1>8. Same(x, y1, P)
  <2>1. Same(x % P, x, P) /\ Same(y1 % P, y1, P)
    BY <1>1, <1>2, <1>3, SameMod
  <2> DEFINE y == y1 % P
  <2>2. Same(y, x, P) /\ Same(y, y1, P)
    BY <1>3, <2>1
  <2> HIDE DEF y
  <2>3. Same(x, y, P)
    BY <1>1, <2>2, SameSymmetric
  <2> QED
    BY <1>1, <2>2, <2>3, SameTransitive
<1>9. Same(v, y2, P)
  BY <1>1, <1>4, SameMod
<1> DEFINE z1 == x * v
           z2 == y1 * y2
<1>10. Same(z1, z2, P)
  BY <1>1, <1>8, <1>9, SameTimes
<1>11. Same(y3, z2, P)
  BY <1>5
<1> HIDE DEF z1, z2
<1>12. Same(z2, y3, P)
  BY <1>1, <1>11, SameSymmetric
<1>13. Same(z1, y3, P)
  BY <1>1, <1>10, <1>12, SameTransitive
<1>14. z1 % P = y3 % P
  BY <1>1, <1>13, SameEqual
<1> QED
  BY <1>6, <1>7, <1>14 DEF z1, c

LEMMA ProductTypes ==
    ASSUME NEW w \in [Index -> Int], NEW g \in [Index -> Int]
    PROVE  Product1(w, g) \in [Index -> 0 .. P - 1]
<1> DEFINE G(j) == SumFunction(ProductTerms(w, g, j)) % P
<1>1. Product1(w, g) = [j \in Index |-> G(j)]
  BY DEF Product1, ProductTerms
<1>2. \A j \in Index : Product1(w, g)[j] \in 0 .. P - 1
  BY ProductIs
<1> HIDE DEF G
<1> QED
  BY <1>1, <1>2

-----------------------------------------------------------------------------
(* The invariant of a row. *)

Passes ==
    [dir : {"", "forward", "backward"}, vt : BOOLEAN, keepLazy : BOOLEAN,
     l : Int, i : Int, k : Int]

RowSet ==
    [root : Roots, a : [Index -> Int], rep : {"power", "ntt"}, lazy : BOOLEAN, pass : Passes,
     left : Int, want : [Index -> 0 .. P - 1]]

HoldsValues(a, w, r, bound) ==
    \A x \in Index : a[x] \in 0 .. bound - 1 /\ a[x] % P = Evaluate(w, r, x)

(* Between transforms: reduced coefficients, or values.                    *)
IdleRow(v) ==
    /\ v.pass = NoPass
    /\ v.rep = "power" => ~v.lazy /\ v.a = v.want
    /\ v.rep = "ntt" => HoldsValues(v.a, v.want, v.root, IF v.lazy THEN 4 * P ELSE P)

(* In chunk i of level l, of m chunks.                                     *)
ForwardHeld(v, w) ==
    /\ v.pass.dir = "forward" /\ v.rep = "power"
    /\ \E m : /\ IsLevel(v.pass.l, m) /\ v.pass.i \in 0 .. m - 1 /\ v.pass.k = m + v.pass.i
              /\ Forwards(v.a, w, v.root, v.pass.l, v.pass.i)
              /\ Finished(v.a, v.pass.l, v.pass.i, v.pass.vt)

BackwardHeld(v, w) ==
    /\ v.pass.dir = "backward" /\ v.rep = "ntt" /\ ~v.lazy
    /\ \E m : /\ IsLevel(v.pass.l, m) /\ v.pass.i \in 0 .. m - 1
              /\ v.pass.k = N - 2 * m + v.pass.i
              /\ Backwards(v.a, w, v.root, v.pass.l, v.pass.i)

ForwardRow(v) == ForwardHeld(v, v.want)

BackwardRow(v) == BackwardHeld(v, v.want)

GoodRow(v) == v \in RowSet /\ (IdleRow(v) \/ ForwardRow(v) \/ BackwardRow(v))

RowInv == row = NoRow \/ (SupportsNtt /\ GoodRow(row))

LEMMA RowFields ==
    ASSUME NEW v \in RowSet
    PROVE  /\ v.root \in Roots /\ v.a \in [Index -> Int] /\ (v.rep = "power" \/ v.rep = "ntt")
           /\ v.lazy \in BOOLEAN /\ v.pass.vt \in BOOLEAN /\ v.pass.keepLazy \in BOOLEAN
           /\ v.pass.l \in Int /\ v.pass.i \in Int /\ v.pass.k \in Int /\ v.left \in Int
           /\ v.want \in [Index -> 0 .. P - 1] /\ v.pass \in Passes
           /\ v.pass = Pass(v.pass.dir, v.pass.vt, v.pass.keepLazy, v.pass.l, v.pass.i, v.pass.k)
BY DEF RowSet, Passes, Pass

LEMMA WantTypes ==
    ASSUME SupportsNtt, NEW w \in [Index -> 0 .. P - 1]
    PROVE  w \in [Index -> Int] /\ \A x \in Index : w[x] \in 0 .. P - 1 /\ w[x] \in 0 .. 4 * P - 1
                                                    /\ Same(w[x], w[x], P) /\ w[x] % P = w[x]
<1>1. P \in Nat \ {0} /\ P \in Int
  BY TransformModulus
<1>2. ASSUME NEW x \in Index
      PROVE  w[x] \in 0 .. P - 1 /\ w[x] \in 0 .. 4 * P - 1 /\ Same(w[x], w[x], P) /\ w[x] % P = w[x]
  <2> DEFINE y == w[x]
  <2>1. y \in 0 .. P - 1
    OBVIOUS
  <2> HIDE DEF y
  <2>2. y \in Int /\ 0 <= y /\ y < P /\ y \in 0 .. 4 * P - 1
    BY <1>1, <2>1
  <2>3. y % P = y /\ Same(y, y, P)
    BY <1>1, <2>2, OwnRemainder, SameReflexive
  <2> QED
    BY <2>1, <2>2, <2>3 DEF y
<1> QED
  BY <1>1, <1>2

(* A pass begins. *)
LEMMA PassTypes ==
    ASSUME NEW dir \in {"", "forward", "backward"}, NEW vt \in BOOLEAN, NEW keep \in BOOLEAN,
           NEW l \in Int, NEW i \in Int, NEW k \in Int, NEW q, q = Pass(dir, vt, keep, l, i, k)
    PROVE  /\ q \in Passes
           /\ q.dir = dir /\ q.vt = vt /\ q.keepLazy = keep /\ q.l = l /\ q.i = i /\ q.k = k
BY DEF Pass, Passes

LEMMA FirstPass ==
    ASSUME NEW vt \in BOOLEAN, NEW keep \in BOOLEAN, N \div 2 \in Int
    PROVE  LET q == Pass("forward", vt, keep, N \div 2, 0, 1)
           IN  /\ q \in Passes /\ q.dir = "forward" /\ q.vt = vt /\ q.keepLazy = keep
               /\ q.l = N \div 2 /\ q.i = 0 /\ q.k = 1
<1> DEFINE n == N \div 2
<1>1. n \in Int
  OBVIOUS
<1>2. LET q == Pass("forward", vt, keep, n, 0, 1)
      IN  /\ q \in Passes /\ q.dir = "forward" /\ q.vt = vt /\ q.keepLazy = keep
          /\ q.l = n /\ q.i = 0 /\ q.k = 1
  <2> HIDE DEF n
  <2> QED
    BY <1>1 DEF Pass, Passes
<1> QED
  BY <1>2

LEMMA NoPassTypes == NoPass \in Passes /\ NoPass.dir = "" /\ NoPass.l = 0
BY DEF NoPass, Pass, Passes

LEMMA NothingFinished ==
    ASSUME NEW a, NEW l, NEW vt
    PROVE  Finished(a, l, 0, vt)
<1>1. \A x \in Index : x \div 2 >= 0
  BY Degree
<1> QED
  BY <1>1 DEF Finished, Index

LEMMA LevelTypes ==
    ASSUME NEW l, NEW m, IsLevel(l, m)
    PROVE  /\ l \in Int /\ m \in Int /\ m \in Nat \ {0} /\ l \in Nat \ {0} /\ N \in Nat /\ N \in Int
           /\ N \div (2 * l) = m /\ N \div (2 * l) - 1 = m - 1
<1>1. l \in Nat \ {0} /\ m \in Nat \ {0} /\ m * (2 * l) = N /\ N \in Nat
  BY LevelSize, Degree
<1> DEFINE d == 2 * l
<1>2. d \in Nat \ {0} /\ N = m * d + 0
  BY <1>1
<1> HIDE DEF d
<1>3. N \div d = m
  BY <1>1, <1>2, QuotientUnique
<1> QED
  BY <1>1, <1>3 DEF d

LEMMA LoadRowKeeps ==
    ASSUME NEW c \in Coefficients, NEW r \in Roots, LoadRow(c, r)
    PROVE  RowInv'
<1>1. SupportsNtt
  BY DEF LoadRow
<1>2. P \in Nat \ {0} /\ P \in Nat /\ NewModulusOk(P) /\ PModulus = NewModulus(P)
  BY <1>1, TransformModulus
<1> DEFINE a == [j \in Index |-> Reduce(PModulus, c[j + 1])]
           w == [j \in Index |-> c[j + 1] % P]
<1>3. ASSUME NEW j \in Index
      PROVE  Reduce(PModulus, c[j + 1]) = c[j + 1] % P /\ c[j + 1] % P \in 0 .. P - 1
  <2> DEFINE y == c[j + 1]
  <2>1. y \in Word
    <3>1. j + 1 \in 1 .. N
      BY Degree
    <3> QED
      BY <3>1, TransformAssumption
  <2> HIDE DEF y
  <2>2. Reduce(PModulus, y) = y % P
    BY <1>2, <2>1, ReductionsExact
  <2>3. y \in Int
    BY <2>1, WordTypes DEF Word
  <2>4. y % P \in 0 .. P - 1
    BY <1>2, <2>3, Remainder
  <2> QED
    BY <2>2, <2>4 DEF y
<1>4. a = w /\ w \in [Index -> 0 .. P - 1]
  BY <1>3
<1>5. row' = [root |-> r, a |-> a, rep |-> "power", lazy |-> FALSE, pass |-> NoPass,
              left |-> MaxOperations, want |-> w]
  BY DEF LoadRow
<1> HIDE DEF a, w
<1>6. w \in [Index -> Int]
  BY <1>1, <1>4, WantTypes
<1> DEFINE v == row'
<1>7. /\ v.root = r /\ v.a = w /\ v.rep = "power" /\ v.lazy = FALSE /\ v.pass = NoPass /\ v.want = w
      /\ v = [root |-> r, a |-> w, rep |-> "power", lazy |-> FALSE, pass |-> NoPass,
              left |-> MaxOperations, want |-> w]
  BY <1>4, <1>5
<1>8. NoPass \in Passes
  BY NoPassTypes
<1>9. MaxOperations \in Int
  BY TransformAssumption
<1> HIDE DEF v
<1>10. v \in RowSet
  <2>1. w \in [Index -> 0 .. P - 1]
    BY <1>4
  <2> QED
    BY <1>6, <1>7, <1>8, <1>9, <2>1 DEF RowSet
<1>11. IdleRow(v)
  BY <1>7 DEF IdleRow
<1>12. GoodRow(v)
  BY <1>10, <1>11 DEF GoodRow
<1> QED
  BY <1>1, <1>12 DEF RowInv, v

LEMMA LoadLazyRowKeeps ==
    ASSUME NEW c \in Coefficients, NEW r \in Roots, LoadLazyRow(c, r)
    PROVE  RowInv'
<1>1. SupportsNtt
  BY DEF LoadLazyRow
<1>2. P \in Nat \ {0} /\ P \in Int /\ P \in Nat /\ NewModulusOk(P) /\ PModulus = NewModulus(P)
  BY <1>1, TransformModulus
<1> DEFINE a == [j \in Index |-> LazyReduceEntry(PModulus, c[j + 1])]
           w == [j \in Index |-> c[j + 1] % P]
           q == Pass("forward", TRUE, TRUE, N \div 2, 0, 1)
<1>3. ASSUME NEW j \in Index
      PROVE  /\ LazyReduceEntry(PModulus, c[j + 1]) \in 0 .. 4 * P - 1
             /\ LazyReduceEntry(PModulus, c[j + 1]) \in Int
             /\ Same(LazyReduceEntry(PModulus, c[j + 1]), c[j + 1] % P, P)
             /\ c[j + 1] % P \in 0 .. P - 1
  <2> DEFINE y == c[j + 1]
  <2>1. y \in Word
    <3>1. j + 1 \in 1 .. N
      BY Degree
    <3> QED
      BY <3>1, TransformAssumption
  <2> HIDE DEF y
  <2> DEFINE x == LazyReduceEntry(PModulus, y)
  <2>2. LazyOf(x, y, P)
    BY <1>2, <2>1, ReductionsExact
  <2> HIDE DEF x
  <2>3. y \in Int
    BY <2>1, WordTypes DEF Word
  <2>4. y % P \in 0 .. P - 1
    BY <1>2, <2>3, Remainder
  <2>5. x \in Int /\ x \in 0 .. 4 * P - 1 /\ x % P = y % P
    BY <1>2, <2>2 DEF LazyOf
  <2>6. Same(x % P, x, P)
    BY <1>2, <2>5, SameMod
  <2>7. Same(x, x % P, P)
    BY <1>2, <2>6, SameSymmetric
  <2> QED
    BY <2>4, <2>5, <2>7 DEF x, y
<1>4. /\ a \in [Index -> Int] /\ w \in [Index -> 0 .. P - 1]
      /\ \A x \in Index : a[x] \in 0 .. 4 * P - 1 /\ Same(a[x], w[x], P)
  BY <1>3
<1>5. row' = [root |-> r, a |-> a, rep |-> "power", lazy |-> TRUE, pass |-> q,
              left |-> MaxOperations, want |-> w]
  BY DEF LoadLazyRow
<1> HIDE DEF a, w
<1>6. w \in [Index -> Int]
  BY <1>1, <1>4, WantTypes
<1> DEFINE v == row'
<1>7. IsLevel(N \div 2, 1)
  BY FirstLevel
<1>8. N \div 2 \in Int
  BY <1>7, LevelTypes
<1>9. /\ q \in Passes /\ q.dir = "forward" /\ q.vt = TRUE /\ q.keepLazy = TRUE
      /\ q.l = N \div 2 /\ q.i = 0 /\ q.k = 1
  BY <1>8, FirstPass
<1>10. MaxOperations \in Int
  BY TransformAssumption
<1>11. v = [root |-> r, a |-> a, rep |-> "power", lazy |-> TRUE, pass |-> q,
            left |-> MaxOperations, want |-> w]
  BY <1>5
<1> HIDE DEF v, q
<1>12. /\ v \in RowSet /\ v.root = r /\ v.a = a /\ v.rep = "power" /\ v.lazy = TRUE
       /\ v.pass = q /\ v.want = w
  BY <1>4, <1>9, <1>10, <1>11 DEF RowSet
<1>13. Forwards(a, w, r, N \div 2, 0)
  BY <1>1, <1>4, <1>6, ForwardBegins
<1>14. Finished(a, N \div 2, 0, TRUE)
  BY NothingFinished
<1>15. ForwardRow(v)
  <2>1. 0 \in 0 .. 1 - 1 /\ 1 = 1 + 0
    OBVIOUS
  <2> QED
    BY <1>7, <1>9, <1>12, <1>13, <1>14, <2>1 DEF ForwardRow, ForwardHeld
<1>16. GoodRow(v)
  BY <1>12, <1>15 DEF GoodRow
<1> QED
  BY <1>1, <1>16 DEF RowInv, v

(* A row that is idle holds what it should. *)
LEMMA IdleHolds ==
    ASSUME RowInv, Idle
    PROVE  SupportsNtt /\ row \in RowSet /\ IdleRow(row)
<1>1. row # NoRow /\ row.pass.l = 0
  BY DEF Idle
<1>2. SupportsNtt /\ GoodRow(row)
  BY <1>1 DEF RowInv
<1>3. ASSUME NEW m, IsLevel(row.pass.l, m) PROVE FALSE
  <2>1. row.pass.l \in Nat \ {0}
    BY <1>3, LevelSize
  <2> QED
    BY <1>1, <2>1
<1>4. ~ForwardRow(row) /\ ~BackwardRow(row)
  BY <1>3 DEF ForwardRow, ForwardHeld, BackwardRow, BackwardHeld
<1> QED
  BY <1>2, <1>4 DEF GoodRow

LEMMA StartForwardKeeps ==
    ASSUME RowInv, NEW vt \in BOOLEAN, StartForward(vt)
    PROVE  RowInv'
<1>1. Idle /\ row.rep = "power"
  BY DEF StartForward
<1>2. SupportsNtt /\ row \in RowSet /\ IdleRow(row)
  BY <1>1, IdleHolds
<1> DEFINE q == Pass("forward", vt, FALSE, N \div 2, 0, 1)
           v == row'
           r == row.root
           w == row.want
           a == row.a
<1>3. v = [row EXCEPT !.pass = q]
  BY DEF StartForward, ForwardStarted
<1>4. /\ r \in Roots /\ a \in [Index -> Int] /\ w \in [Index -> 0 .. P - 1] /\ row.lazy \in BOOLEAN
      /\ row.left \in Int
  BY <1>2, RowFields
<1>5. a = w
  BY <1>1, <1>2 DEF IdleRow
<1>6. IsLevel(N \div 2, 1)
  BY FirstLevel
<1>7. N \div 2 \in Int
  BY <1>6, LevelTypes
<1>8. /\ q \in Passes /\ q.dir = "forward" /\ q.vt = vt /\ q.l = N \div 2 /\ q.i = 0 /\ q.k = 1
  BY <1>7, FirstPass
<1> HIDE DEF q, v
<1>9. /\ v \in RowSet /\ v.root = r /\ v.a = a /\ v.rep = "power" /\ v.pass = q /\ v.want = w
  BY <1>1, <1>2, <1>3, <1>8 DEF RowSet
<1> HIDE DEF r, w, a
<1>10. /\ w \in [Index -> Int]
       /\ \A x \in Index : a[x] \in 0 .. 4 * P - 1 /\ Same(a[x], w[x], P)
  BY <1>2, <1>4, <1>5, WantTypes
<1>11. Forwards(a, w, r, N \div 2, 0)
  BY <1>2, <1>4, <1>10, ForwardBegins
<1>12. Finished(a, N \div 2, 0, vt)
  BY NothingFinished
<1>13. ForwardRow(v)
  <2>1. 0 \in 0 .. 1 - 1 /\ 1 = 1 + 0
    OBVIOUS
  <2> QED
    BY <1>6, <1>8, <1>9, <1>11, <1>12, <2>1 DEF ForwardRow, ForwardHeld
<1>14. GoodRow(v)
  BY <1>9, <1>13 DEF GoodRow
<1> QED
  BY <1>2, <1>14 DEF RowInv, v

LEMMA StartBackwardKeeps ==
    ASSUME RowInv, NEW vt \in BOOLEAN, StartBackward(vt)
    PROVE  RowInv'
<1>1. Idle /\ row.rep = "ntt" /\ ~row.lazy
  BY DEF StartBackward, BackwardStarted
<1>2. SupportsNtt /\ row \in RowSet /\ IdleRow(row)
  BY <1>1, IdleHolds
<1>3. P \in Nat \ {0} /\ P \in Int
  BY <1>2, TransformModulus
<1> DEFINE q == Pass("backward", vt, FALSE, 1, 0, 0)
           v == row'
           r == row.root
           w == row.want
           a == row.a
<1>4. v = [row EXCEPT !.pass = q]
  BY DEF StartBackward, BackwardStarted
<1>5. /\ r \in Roots /\ a \in [Index -> Int] /\ w \in [Index -> 0 .. P - 1] /\ row.lazy \in BOOLEAN
      /\ row.left \in Int
  BY <1>2, RowFields
<1>6. HoldsValues(a, w, r, P)
  BY <1>1, <1>2 DEF IdleRow
<1>7. q \in Passes /\ q.dir = "backward" /\ q.l = 1 /\ q.i = 0 /\ q.k = 0
  BY DEF Pass, Passes
<1> HIDE DEF q, v
<1>8. /\ v \in RowSet /\ v.root = r /\ v.a = a /\ v.rep = "ntt" /\ v.pass = q /\ v.want = w
      /\ v.lazy = row.lazy
  BY <1>1, <1>2, <1>4, <1>7 DEF RowSet
<1> HIDE DEF r, w, a
<1>9. w \in [Index -> Int]
  BY <1>2, <1>5, WantTypes
<1>10. ASSUME NEW x \in Index
       PROVE  a[x] \in 0 .. 2 * P - 1 /\ Same(a[x], Fold(w, r, 1, x, 0), P)
  <2> DEFINE y == a[x]
             z == Evaluate(w, r, x)
             f == Fold(w, r, 1, x, 0)
  <2>1. y \in 0 .. P - 1 /\ y % P = z
    BY <1>6 DEF HoldsValues
  <2>2. Same(z, f, P)
    BY <1>2, <1>5, <1>9, FoldOne
  <2> HIDE DEF y, z, f
  <2>3. y \in Int /\ 0 <= y /\ y < P /\ y \in 0 .. 2 * P - 1
    BY <1>3, <2>1
  <2>4. y = z
    BY <1>3, <2>1, <2>3, OwnRemainder
  <2> QED
    BY <2>2, <2>3, <2>4 DEF y, f
<1>11. Backwards(a, w, r, 1, 0)
  BY <1>2, <1>5, <1>9, <1>10, BackwardBegins
<1> DEFINE m == N \div 2
<1>12. IsLevel(1, m)
  BY FirstLevel
<1> HIDE DEF m
<1>13. 0 \in 0 .. m - 1 /\ 0 = N - 2 * m + 0
  <2>1. m \in Nat \ {0} /\ m * (2 * 1) = N
    BY <1>12, LevelSize
  <2> QED
    BY <2>1
<1>14. BackwardRow(v)
  BY <1>1, <1>7, <1>8, <1>11, <1>12, <1>13 DEF BackwardRow, BackwardHeld
<1>15. GoodRow(v)
  BY <1>8, <1>14 DEF GoodRow
<1> QED
  BY <1>2, <1>15 DEF RowInv, v

LEMMA ForwardHolds ==
    ASSUME RowInv, row # NoRow, row.pass.dir = "forward"
    PROVE  SupportsNtt /\ row \in RowSet /\ ForwardRow(row)
<1>1. SupportsNtt /\ GoodRow(row)
  BY DEF RowInv
<1>2. ~IdleRow(row) /\ ~BackwardRow(row)
  BY NoPassTypes DEF IdleRow, BackwardRow, BackwardHeld
<1> QED
  BY <1>1, <1>2 DEF GoodRow

LEMMA BackwardHolds ==
    ASSUME RowInv, row # NoRow, row.pass.dir = "backward"
    PROVE  SupportsNtt /\ row \in RowSet /\ BackwardRow(row)
<1>1. SupportsNtt /\ GoodRow(row)
  BY DEF RowInv
<1>2. ~IdleRow(row) /\ ~ForwardRow(row)
  BY NoPassTypes DEF IdleRow, ForwardRow, ForwardHeld
<1> QED
  BY <1>1, <1>2 DEF GoodRow

(* The last chunk of the last level leaves the values, reduced unless the  *)
(* pass keeps them lazy.                                                   *)
LEMMA ForwardEnds ==
    ASSUME SupportsNtt, NEW r \in Roots, NEW w \in [Index -> Int], NEW m, IsLevel(1, m),
           NEW b, b \in [Index -> Int], Forwards(b, w, r, 1, m),
           NEW vt \in BOOLEAN, NEW keep \in BOOLEAN, Finished(b, 1, m, vt),
           NEW d, d = IF vt /\ ~keep THEN [j \in Index |-> Reduce3(b[j])] ELSE b
    PROVE  d \in [Index -> Int] /\ HoldsValues(d, w, r, IF keep THEN 4 * P ELSE P)
<1>1. P \in Nat \ {0} /\ P \in Int
  BY TransformModulus
<1>2. \A x \in Index : b[x] \in 0 .. 4 * P - 1 /\ Same(b[x], Fold(w, r, 1, x, 0), P)
  BY ForwardLevel
<1>3. N = m * (2 * 1) /\ m \in Nat \ {0}
  BY LevelSize
<1>4. ASSUME NEW x \in Index
      PROVE  /\ b[x] \in 0 .. 4 * P - 1 /\ b[x] % P = Evaluate(w, r, x)
             /\ Reduce3(b[x]) \in 0 .. P - 1 /\ Reduce3(b[x]) % P = Evaluate(w, r, x)
             /\ ~vt => b[x] \in 0 .. P - 1
  <2> DEFINE y == b[x]
             f == Fold(w, r, 1, x, 0)
  <2>1. y \in 0 .. 4 * P - 1 /\ Same(y, f, P)
    BY <1>2
  <2>2. Evaluate(w, r, x) = f % P
    BY FoldOne
  <2>3. ~vt => y \in 0 .. P - 1
    <3>1. x \div 2 < m
      <4>1. x \in 0 .. N - 1
        BY DEF Index
      <4> QED
        BY <1>3, <4>1
    <3> QED
      BY <3>1 DEF Finished
  <2> HIDE DEF y, f
  <2>4. y % P = f % P
    BY <1>1, <2>1, SameEqual
  <2>5. Reduce3(y) \in 0 .. P - 1 /\ Reduce3(y) = y % P
    BY <2>1, Reduce3Exact
  <2> DEFINE z == Reduce3(y)
  <2>6. z % P = z
    <3> HIDE DEF z
    <3>1. z \in Int /\ 0 <= z /\ z < P
      BY <1>1, <2>5 DEF z
    <3> QED
      BY <1>1, <3>1, OwnRemainder
  <2> QED
    BY <2>1, <2>2, <2>3, <2>4, <2>5, <2>6 DEF y
<1>5. CASE vt /\ ~keep
  <2>1. d = [j \in Index |-> Reduce3(b[j])]
    BY <1>5
  <2>2. \A x \in Index : d[x] \in 0 .. P - 1 /\ d[x] % P = Evaluate(w, r, x)
    BY <1>4, <2>1
  <2>3. \A x \in Index : Reduce3(b[x]) \in Int
    BY <1>1, <1>4
  <2> QED
    BY <1>5, <2>1, <2>2, <2>3 DEF HoldsValues
<1>6. CASE ~(vt /\ ~keep)
  <2>1. d = b
    BY <1>6
  <2>2. \A x \in Index : d[x] \in 0 .. (IF keep THEN 4 * P ELSE P) - 1
    <3>1. CASE keep
      BY <1>4, <2>1, <3>1
    <3>2. CASE ~keep
      BY <1>4, <1>6, <2>1, <3>2
    <3> QED
      BY <3>1, <3>2
  <2> QED
    BY <1>4, <2>1, <2>2 DEF HoldsValues
<1> QED
  BY <1>5, <1>6

LEMMA ChunksFit == ASSUME NEW l, NEW m, IsLevel(l, m) PROVE 2 * m <= N
<1>1. l \in Nat \ {0} /\ m \in Nat \ {0} /\ 2 * (l * m) = N
  BY LevelSize
<1>2. l * m >= m
  BY <1>1
<1> DEFINE n == l * m
<1>3. n \in Nat
  BY <1>1
<1> HIDE DEF n
<1> QED
  BY <1>1, <1>2, <1>3 DEF n

(* A row after the next chunk: on its way, or done after N - 1 chunks.     *)
LEMMA ForwardChunkedExact ==
    ASSUME SupportsNtt, NEW v \in RowSet, NEW w \in [Index -> 0 .. P - 1], ForwardHeld(v, w),
           NEW u, u = ForwardChunked(v)
    PROVE  /\ u \in RowSet /\ u.want = v.want /\ u.root = v.root
           /\ \/ /\ v.pass.k + 1 < N /\ ForwardHeld(u, w) /\ u.pass.k = v.pass.k + 1
                 /\ u.pass.keepLazy = v.pass.keepLazy
              \/ /\ v.pass.k + 1 = N /\ u.pass = NoPass /\ u.rep = "ntt"
                 /\ u.lazy = v.pass.keepLazy
                 /\ HoldsValues(u.a, w, u.root, IF u.lazy THEN 4 * P ELSE P)
<1> DEFINE q == v.pass
           b == ForwardChunkOf(v.a, v.root, q)
           last == q.i = N \div (2 * q.l) - 1
           next == IF last THEN Pass("forward", q.vt, q.keepLazy, q.l \div 2, 0, q.k + 1)
                   ELSE [q EXCEPT !.i = q.i + 1, !.k = q.k + 1]
           d == IF q.vt /\ ~q.keepLazy THEN [j \in Index |-> Reduce3(b[j])] ELSE b
           r == v.root
           a == v.a
           y == v.want
           l == q.l
           i == q.i
           k == q.k
           vt == q.vt
           keep == q.keepLazy
<1>2. u = IF next.l # 0 THEN [v EXCEPT !.a = b, !.pass = next]
          ELSE [v EXCEPT !.pass = NoPass, !.rep = "ntt", !.lazy = keep, !.a = d]
  BY DEF ForwardChunked
<1>3. /\ r \in Roots /\ a \in [Index -> Int] /\ w \in [Index -> 0 .. P - 1]
      /\ vt \in BOOLEAN /\ keep \in BOOLEAN /\ l \in Int /\ i \in Int /\ k \in Int
      /\ q \in Passes
  BY RowFields
<1>4. PICK m : /\ IsLevel(l, m) /\ i \in 0 .. m - 1 /\ k = m + i
               /\ Forwards(a, w, r, l, i) /\ Finished(a, l, i, vt)
  BY DEF ForwardHeld
<1>5. /\ q.dir = "forward" /\ v.rep = "power" /\ v \in RowSet
      /\ v.root = r /\ v.want = y /\ y \in [Index -> 0 .. P - 1] /\ v.lazy \in BOOLEAN
  BY RowFields DEF ForwardHeld
<1>6. w \in [Index -> Int]
  BY <1>3, WantTypes
<1> HIDE DEF next, d, r, a, y
<1>7. b \in [Index -> Int] /\ Forwards(b, w, r, l, i + 1) /\ Finished(b, l, i + 1, vt)
  <2>1. b = ForwardChunkOf(a, r, q)
    BY DEF a, r
  <2> HIDE DEF b, q
  <2> QED
    BY <1>3, <1>4, <1>6, <2>1, ForwardChunkExact
<1>8. /\ m \in Nat \ {0} /\ m \in Int /\ l \in Nat \ {0} /\ (last <=> i = m - 1)
  BY <1>4, LevelTypes
<1> HIDE DEF b, last
<1>9. CASE ~last
  <2>1. next = [q EXCEPT !.i = i + 1, !.k = k + 1]
    BY <1>9 DEF next
  <2>3. /\ next.dir = "forward" /\ next.l = l /\ next.i = i + 1 /\ next.k = k + 1 /\ next.vt = vt
        /\ next.keepLazy = keep /\ next \in Passes
    <3> DEFINE j == i + 1
               h == k + 1
    <3>1. j \in Int /\ h \in Int /\ q \in Passes
      BY <1>3
    <3>2. next = [q EXCEPT !.i = j, !.k = h]
      BY <2>1
    <3> HIDE DEF q, j, h
    <3>3. /\ next \in Passes /\ next.dir = q.dir /\ next.vt = q.vt /\ next.keepLazy = q.keepLazy
          /\ next.l = q.l /\ next.i = j /\ next.k = h
      BY <3>1, <3>2 DEF Passes
    <3> QED
      BY <1>5, <3>3 DEF j, h
  <2> HIDE DEF q, l, i, k, vt, keep
  <2>4. u = [v EXCEPT !.a = b, !.pass = next]
    BY <1>2, <1>8, <2>3
  <2>5. u \in RowSet /\ u.a = b /\ u.pass = next /\ u.rep = "power" /\ u.root = r /\ u.want = y
    BY <1>5, <1>7, <2>3, <2>4 DEF RowSet
  <2>6. i + 1 \in 0 .. m - 1 /\ k + 1 = m + (i + 1)
    BY <1>4, <1>8, <1>9
  <2>7. ForwardHeld(u, w)
    BY <1>4, <1>7, <2>3, <2>5, <2>6 DEF ForwardHeld
  <2>8. k + 1 < N
    <3>1. 2 * m <= N
      BY <1>4, ChunksFit
    <3> QED
      BY <1>4, <1>8, <2>6, <3>1, Degree
  <2> QED
    BY <2>3, <2>5, <2>7, <2>8 DEF q, k, y, r, keep
<1>10. CASE last /\ l \div 2 # 0
  <2> DEFINE h == l \div 2
  <2>1. next = Pass("forward", vt, keep, h, 0, k + 1)
    BY <1>10 DEF next
  <2>2. h # 0 /\ IsLevel(h, 2 * m)
    BY <1>4, <1>10, NextLevel
  <2>3. h \in Int
    BY <2>2, LevelTypes
  <2>4. i + 1 = m
    BY <1>4, <1>8, <1>10
  <2>5. Forwards(b, w, r, h, 0)
    <3>1. Forwards(b, w, r, l, m)
      BY <1>7, <2>4
    <3> QED
      BY <1>4, <1>10, <3>1, ForwardLevel
  <2> HIDE DEF h, q, l, i, k, vt, keep
  <2>6. /\ next.dir = "forward" /\ next.l = h /\ next.i = 0 /\ next.k = k + 1 /\ next.vt = vt
        /\ next.keepLazy = keep /\ next \in Passes
    <3>1. k + 1 \in Int /\ vt \in BOOLEAN /\ keep \in BOOLEAN
      BY <1>3
    <3> QED
      BY <2>1, <2>3, <3>1 DEF Pass, Passes
  <2>7. u = [v EXCEPT !.a = b, !.pass = next]
    BY <1>2, <2>2, <2>6
  <2>8. u \in RowSet /\ u.a = b /\ u.pass = next /\ u.rep = "power" /\ u.root = r /\ u.want = y
    BY <1>5, <1>7, <2>6, <2>7 DEF RowSet
  <2>9. 0 \in 0 .. 2 * m - 1 /\ k + 1 = 2 * m + 0
    BY <1>4, <1>8, <2>4
  <2>10. Finished(b, h, 0, vt)
    BY NothingFinished
  <2> DEFINE n == 2 * m
  <2>11. IsLevel(h, n) /\ 0 \in 0 .. n - 1 /\ k + 1 = n + 0
    BY <2>2, <2>9
  <2> HIDE DEF n
  <2>12. ForwardHeld(u, w)
    BY <2>5, <2>6, <2>8, <2>10, <2>11 DEF ForwardHeld
  <2>13. k + 1 < N
    <3>1. 2 * n <= N
      BY <2>11, ChunksFit
    <3>2. n \in Nat \ {0}
      BY <2>11, LevelSize
    <3> QED
      BY <2>11, <3>1, <3>2, Degree
  <2> QED
    BY <2>6, <2>8, <2>12, <2>13 DEF q, k, y, r, keep
<1>11. CASE last /\ l \div 2 = 0
  <2>1. next = Pass("forward", vt, keep, l \div 2, 0, k + 1)
    BY <1>11 DEF next
  <2>2. next.l = 0
    BY <1>11, <2>1 DEF Pass
  <2>3. l = 1 /\ i + 1 = m
    BY <1>4, <1>8, <1>11, NextLevel
  <2>4. u = [v EXCEPT !.pass = NoPass, !.rep = "ntt", !.lazy = keep, !.a = d]
    BY <1>2, <2>2
  <2> HIDE DEF q, l, i, k, vt, keep
  <2>5. d = IF vt /\ ~keep THEN [j \in Index |-> Reduce3(b[j])] ELSE b
    BY DEF d, vt, keep
  <2>6. IsLevel(1, m) /\ Forwards(b, w, r, 1, m) /\ Finished(b, 1, m, vt)
    BY <1>4, <1>7, <2>3
  <2>7. d \in [Index -> Int] /\ HoldsValues(d, w, r, IF keep THEN 4 * P ELSE P)
    BY <1>3, <1>6, <1>7, <2>5, <2>6, ForwardEnds
  <2>8. NoPass \in Passes
    BY NoPassTypes
  <2>9. /\ u \in RowSet /\ u.a = d /\ u.pass = NoPass /\ u.rep = "ntt" /\ u.root = r /\ u.want = y
        /\ u.lazy = keep
    BY <1>3, <1>5, <2>4, <2>7, <2>8 DEF RowSet
  <2>10. k + 1 = N
    <3>1. 2 * m = N
      BY <1>4, <1>11, NextLevel DEF l
    <3> QED
      BY <1>4, <1>8, <2>3, <3>1
  <2> QED
    BY <2>7, <2>9, <2>10 DEF q, k, y, r, keep
<1> QED
  BY <1>9, <1>10, <1>11

LEMMA ForwardChunkKeeps ==
    ASSUME RowInv, ForwardChunk
    PROVE  RowInv'
<1> DEFINE u == row'
           w == row.want
<1>1. SupportsNtt /\ row \in RowSet /\ ForwardRow(row)
  BY ForwardHolds DEF ForwardChunk
<1>2. u = ForwardChunked(row) /\ w \in [Index -> 0 .. P - 1] /\ ForwardHeld(row, w)
  BY <1>1, RowFields DEF ForwardChunk, ForwardRow
<1> HIDE DEF u, w
<1>3. /\ u \in RowSet /\ u.want = row.want
      /\ \/ ForwardHeld(u, w)
         \/ /\ u.pass = NoPass /\ u.rep = "ntt"
            /\ HoldsValues(u.a, w, u.root, IF u.lazy THEN 4 * P ELSE P)
  BY <1>1, <1>2, ForwardChunkedExact
<1>4. ForwardRow(u) \/ IdleRow(u)
  BY <1>3 DEF ForwardRow, IdleRow, w
<1>5. GoodRow(u)
  BY <1>3, <1>4 DEF GoodRow
<1> QED
  BY <1>1, <1>5 DEF RowInv, u

(* The last chunk of the last level backwards, and the division by N.      *)
LEMMA BackwardEnds ==
    ASSUME SupportsNtt, NEW r \in Roots, NEW w \in [Index -> 0 .. P - 1],
           NEW l, NEW m, IsLevel(l, m), m = 1,
           NEW b, Backwards(b, w, r, l, m),
           NEW d, d = [j \in Index |-> MulShoup(PModulus, b[j], SizeInv, Shoup(PModulus, SizeInv))]
    PROVE  d = w
<1>1. w \in [Index -> Int] /\ \A x \in Index : w[x] % P = w[x]
  BY WantTypes
<1>2. \A x \in Index : b[x] \in 0 .. 2 * P - 1 /\ Same(b[x], N * w[x], P)
  BY <1>1, BackwardLevel
<1>3. ASSUME NEW x \in Index PROVE d[x] = w[x]
  <2> DEFINE y == b[x]
             z == w[x]
  <2>1. y \in 0 .. 2 * P - 1 /\ Same(y, N * z, P) /\ z \in Int /\ z % P = z
    BY <1>1, <1>2
  <2>2. d[x] = MulShoup(PModulus, y, SizeInv, Shoup(PModulus, SizeInv))
    OBVIOUS
  <2> HIDE DEF y, z
  <2>3. d[x] = z
    BY <2>1, <2>2, SizeInvExact
  <2> QED
    BY <2>3 DEF z
<1> QED
  BY <1>3

(* A row after the next chunk backwards: on its way, or done.              *)
LEMMA BackwardChunkedExact ==
    ASSUME SupportsNtt, NEW v \in RowSet, NEW w \in [Index -> 0 .. P - 1], BackwardHeld(v, w),
           NEW u, u = BackwardChunked(v)
    PROVE  /\ u \in RowSet /\ u.want = v.want /\ u.root = v.root
           /\ \/ v.pass.k + 2 < N /\ BackwardHeld(u, w) /\ u.pass.k = v.pass.k + 1
              \/ /\ v.pass.k + 2 = N /\ u.pass = NoPass /\ u.rep = "power" /\ ~u.lazy
                 /\ u.a = w
<1> DEFINE q == v.pass
           b == BackwardChunkOf(v.a, v.root, q)
           last == q.i = N \div (2 * q.l) - 1
           next == IF last THEN Pass("backward", q.vt, FALSE, q.l * 2, 0, q.k + 1)
                   ELSE [q EXCEPT !.i = q.i + 1, !.k = q.k + 1]
           d == [j \in Index |-> MulShoup(PModulus, b[j], SizeInv, Shoup(PModulus, SizeInv))]
           r == v.root
           a == v.a
           y == v.want
           l == q.l
           i == q.i
           k == q.k
           vt == q.vt
<1>2. u = IF next.l < N THEN [v EXCEPT !.a = b, !.pass = next]
          ELSE [v EXCEPT !.pass = NoPass, !.rep = "power", !.a = d]
  BY DEF BackwardChunked
<1>3. /\ r \in Roots /\ a \in [Index -> Int] /\ w \in [Index -> 0 .. P - 1]
      /\ vt \in BOOLEAN /\ l \in Int /\ i \in Int /\ k \in Int /\ q \in Passes
  BY RowFields
<1>4. PICK m : /\ IsLevel(l, m) /\ i \in 0 .. m - 1 /\ k = N - 2 * m + i /\ Backwards(a, w, r, l, i)
  BY DEF BackwardHeld
<1>5. /\ q.dir = "backward" /\ v.rep = "ntt" /\ v.lazy = FALSE /\ v \in RowSet
      /\ v.root = r /\ v.want = y /\ y \in [Index -> 0 .. P - 1]
  BY RowFields DEF BackwardHeld
<1>6. w \in [Index -> Int]
  BY <1>3, WantTypes
<1> HIDE DEF next, d, r, a, y
<1>7. b \in [Index -> Int] /\ Backwards(b, w, r, l, i + 1)
  <2>1. b = BackwardChunkOf(a, r, q)
    BY DEF a, r
  <2> HIDE DEF b, q
  <2> QED
    BY <1>3, <1>4, <1>6, <2>1, BackwardChunkExact
<1>8. /\ m \in Nat \ {0} /\ m \in Int /\ l \in Nat \ {0} /\ (last <=> i = m - 1)
      /\ N \in Nat /\ m * (2 * l) = N
  BY <1>4, LevelTypes, LevelSize
<1> HIDE DEF b, last
<1>9. CASE ~last
  <2>1. next = [q EXCEPT !.i = i + 1, !.k = k + 1]
    BY <1>9 DEF next
  <2>2. /\ next.dir = "backward" /\ next.l = l /\ next.i = i + 1 /\ next.k = k + 1
        /\ next \in Passes
    <3> DEFINE j == i + 1
               h == k + 1
    <3>1. j \in Int /\ h \in Int /\ q \in Passes
      BY <1>3
    <3>2. next = [q EXCEPT !.i = j, !.k = h]
      BY <2>1
    <3> HIDE DEF q, j, h
    <3>3. next \in Passes /\ next.dir = q.dir /\ next.l = q.l /\ next.i = j /\ next.k = h
      BY <3>1, <3>2 DEF Passes
    <3> QED
      BY <1>5, <3>3 DEF j, h
  <2> HIDE DEF q, l, i, k, vt
  <2>3. l < N
    <3>1. m * (2 * l) >= 2 * l
      <4> DEFINE g == 2 * l
      <4>1. g \in Nat
        BY <1>8
      <4> HIDE DEF g
      <4>2. m * g >= g
        BY <1>8, <4>1
      <4> QED
        BY <4>2 DEF g
    <3> QED
      BY <1>8, <3>1
  <2>4. u = [v EXCEPT !.a = b, !.pass = next]
    BY <1>2, <2>2, <2>3
  <2>5. /\ u \in RowSet /\ u.a = b /\ u.pass = next /\ u.rep = "ntt" /\ u.root = r /\ u.want = y
        /\ u.lazy = FALSE
    BY <1>5, <1>7, <2>2, <2>4 DEF RowSet
  <2>6. i + 1 \in 0 .. m - 1 /\ k + 1 = N - 2 * m + (i + 1)
    BY <1>4, <1>8, <1>9
  <2>7. BackwardHeld(u, w)
    BY <1>4, <1>7, <2>2, <2>5, <2>6 DEF BackwardHeld
  <2>8. k + 2 < N
    BY <1>3, <1>4, <1>8, <2>6
  <2> QED
    BY <2>2, <2>5, <2>7, <2>8 DEF q, k, y, r
<1>10. CASE last /\ m # 1
  <2> DEFINE h == 2 * l
             n == m \div 2
  <2>1. next = Pass("backward", vt, FALSE, h, 0, k + 1)
    <3>1. l * 2 = h
      BY <1>8
    <3> QED
      BY <1>10, <3>1 DEF next
  <2>2. IsLevel(h, n) /\ m = 2 * n
    BY <1>4, <1>10, NextLevel
  <2>3. h \in Int /\ n \in Int /\ n \in Nat \ {0} /\ n * (2 * h) = N
    <3> HIDE DEF h, n
    <3> QED
      BY <2>2, LevelTypes, LevelSize
  <2>4. i + 1 = m
    <3>1. i = m - 1
      BY <1>8, <1>10
    <3>2. m \in Int
      BY <1>8
    <3> QED
      BY <3>1, <3>2
  <2>5. Backwards(b, w, r, h, 0)
    <3>1. Backwards(b, w, r, l, m)
      BY <1>7, <2>4
    <3> QED
      BY <1>3, <1>4, <1>6, <1>10, <3>1, BackwardLevel
  <2>6. h < N
    <3>1. n * (2 * h) >= 2 * h /\ h > 0
      <4> DEFINE g == 2 * h
      <4>1. g \in Nat /\ h > 0
        BY <1>8
      <4> HIDE DEF g, n
      <4>2. n * g >= g
        BY <2>3, <4>1
      <4> QED
        BY <4>1, <4>2 DEF g
    <3> HIDE DEF h, n
    <3> QED
      BY <2>3, <3>1
  <2> HIDE DEF h, n, q, l, i, k, vt
  <2>7. /\ next.dir = "backward" /\ next.l = h /\ next.i = 0 /\ next.k = k + 1
        /\ next \in Passes
    <3>1. k + 1 \in Int /\ vt \in BOOLEAN
      BY <1>3
    <3> QED
      BY <2>1, <2>3, <3>1 DEF Pass, Passes
  <2>8. u = [v EXCEPT !.a = b, !.pass = next]
    BY <1>2, <2>6, <2>7
  <2>9. /\ u \in RowSet /\ u.a = b /\ u.pass = next /\ u.rep = "ntt" /\ u.root = r /\ u.want = y
        /\ u.lazy = FALSE
    BY <1>5, <1>7, <2>7, <2>8 DEF RowSet
  <2>10. 0 \in 0 .. n - 1 /\ k + 1 = N - 2 * n + 0
    BY <1>4, <1>8, <2>2, <2>3, <2>4
  <2>11. BackwardHeld(u, w)
    BY <2>2, <2>5, <2>7, <2>9, <2>10 DEF BackwardHeld
  <2>12. k + 2 < N
    BY <1>3, <1>8, <2>3, <2>10
  <2> QED
    BY <2>7, <2>9, <2>11, <2>12 DEF q, k, y, r
<1>11. CASE last /\ m = 1
  <2>1. next = Pass("backward", vt, FALSE, l * 2, 0, k + 1)
    BY <1>11 DEF next
  <2>2. next.l = l * 2
    BY <2>1 DEF Pass
  <2>3. i + 1 = m /\ ~(next.l < N)
    BY <1>4, <1>8, <1>11, <2>2
  <2>4. u = [v EXCEPT !.pass = NoPass, !.rep = "power", !.a = d]
    BY <1>2, <2>3
  <2>5. d = w
    <3>1. Backwards(b, w, r, l, m)
      BY <1>7, <2>3
    <3>2. d = [j \in Index |-> MulShoup(PModulus, b[j], SizeInv, Shoup(PModulus, SizeInv))]
      BY DEF d
    <3> HIDE DEF q, l, i, k, vt
    <3> QED
      BY <1>3, <1>4, <1>11, <3>1, <3>2, BackwardEnds
  <2>6. NoPass \in Passes
    BY NoPassTypes
  <2> HIDE DEF q, l, i, k, vt
  <2>7. /\ u \in RowSet /\ u.a = w /\ u.pass = NoPass /\ u.rep = "power" /\ u.root = r /\ u.want = y
        /\ u.lazy = FALSE
    BY <1>5, <1>6, <2>4, <2>5, <2>6 DEF RowSet
  <2>8. k + 2 = N
    BY <1>3, <1>4, <1>8, <1>11
  <2> QED
    BY <2>7, <2>8 DEF q, k, y, r
<1> QED
  BY <1>9, <1>10, <1>11

LEMMA BackwardChunkKeeps ==
    ASSUME RowInv, BackwardChunk
    PROVE  RowInv'
<1> DEFINE u == row'
           w == row.want
<1>1. SupportsNtt /\ row \in RowSet /\ BackwardRow(row)
  BY BackwardHolds DEF BackwardChunk
<1>2. u = BackwardChunked(row) /\ w \in [Index -> 0 .. P - 1] /\ BackwardHeld(row, w)
  BY <1>1, RowFields DEF BackwardChunk, BackwardRow
<1> HIDE DEF u, w
<1>3. /\ u \in RowSet /\ u.want = row.want
      /\ \/ BackwardHeld(u, w)
         \/ u.pass = NoPass /\ u.rep = "power" /\ ~u.lazy /\ u.a = w
  BY <1>1, <1>2, BackwardChunkedExact
<1>4. BackwardRow(u) \/ IdleRow(u)
  BY <1>3 DEF BackwardRow, IdleRow, w
<1>5. GoodRow(u)
  BY <1>3, <1>4 DEF GoodRow
<1> QED
  BY <1>1, <1>5 DEF RowInv, u

(* An operation between transforms.                                        *)
LEMMA OperateKeeps ==
    ASSUME RowInv, NEW a \in [Index -> Int], NEW w \in [Index -> 0 .. P - 1], Operate(a, w),
           row.rep = "power" => a = w,
           row.rep = "ntt" => HoldsValues(a, w, row.root, P)
    PROVE  RowInv'
<1>1. SupportsNtt /\ row \in RowSet /\ IdleRow(row)
  BY IdleHolds DEF Operate
<1> DEFINE u == row'
           n == row.left - 1
<1>2. u = [row EXCEPT !.a = a, !.want = w, !.lazy = FALSE, !.left = n]
  BY DEF Operate
<1>3. row.pass = NoPass /\ n \in Int
  BY <1>1, RowFields DEF IdleRow
<1> HIDE DEF u, n
<1>4. /\ u \in RowSet /\ u.a = a /\ u.want = w /\ u.lazy = FALSE /\ u.rep = row.rep
      /\ u.root = row.root /\ u.pass = NoPass
  BY <1>1, <1>2, <1>3 DEF RowSet
<1>5. IdleRow(u)
  BY <1>4 DEF IdleRow
<1> QED
  BY <1>1, <1>4, <1>5 DEF GoodRow, RowInv, u

LEMMA SubstituteKeeps ==
    ASSUME RowInv, NEW e \in Exponents, Substitute(e)
    PROVE  RowInv'
<1> DEFINE r == row.root
           w == row.want
           c == ComposedWith(w, e)
           n == SubstitutedNtt(row.a, e)
           p == SubstitutedPower(row.a, e)
           a == IF row.rep = "ntt" THEN n ELSE p
<1>1. Idle /\ ~row.lazy /\ Operate(a, c)
  BY DEF Substitute
<1>2. SupportsNtt /\ row \in RowSet /\ IdleRow(row)
  BY <1>1, IdleHolds
<1>3. /\ r \in Roots /\ w \in [Index -> 0 .. P - 1] /\ row.a \in [Index -> Int]
      /\ (row.rep = "power" \/ row.rep = "ntt")
  BY <1>2, RowFields
<1>4. e \in Nat /\ e % 2 = 1
  BY TransformAssumption, Degree
<1>5. w \in [Index -> Int] /\ P \in Nat \ {0}
  BY <1>2, <1>3, WantTypes, TransformModulus
<1> HIDE DEF w, r
<1>6. c \in [Index -> 0 .. P - 1]
  BY <1>2, <1>4, <1>5, ComposedTypes
<1>7. n = [j \in Index |-> n[j]] /\ p = [j \in Index |-> p[j]]
  BY DEF SubstitutedNtt, SubstitutedPower
<1>8. CASE row.rep = "ntt"
  <2>1. HoldsValues(row.a, w, r, P)
    BY <1>1, <1>2, <1>8 DEF IdleRow, w, r
  <2>2. ASSUME NEW j \in Index
        PROVE  n[j] \in 0 .. P - 1 /\ n[j] % P = Evaluate(c, r, j)
    <3> DEFINE b == row.a
    <3>1. PICK x \in Index : n[j] = b[x] /\ Evaluate(c, r, j) = Evaluate(w, r, x)
      <4> HIDE DEF b
      <4>1. \E x \in Index : /\ SubstitutedNtt(b, e)[j] = b[x]
                             /\ Evaluate(ComposedWith(w, e), r, j) = Evaluate(w, r, x)
        BY <1>2, <1>3, <1>4, <1>5, SubstitutedNttExact
      <4> QED
        BY <4>1 DEF b
    <3>2. b[x] \in 0 .. P - 1 /\ b[x] % P = Evaluate(w, r, x)
      BY <2>1 DEF HoldsValues
    <3> QED
      BY <3>1, <3>2
  <2>3. a = n
    BY <1>8
  <2> HIDE DEF n, p, c, a
  <2>4. n \in [Index -> Int]
    <3>1. \A j \in Index : n[j] \in Int
      BY <1>5, <2>2
    <3> QED
      BY <1>7, <3>1
  <2>5. HoldsValues(n, c, r, P)
    BY <2>2 DEF HoldsValues
  <2>6. Operate(n, c)
    BY <1>1, <2>3
  <2>7. row.rep # "power" /\ HoldsValues(n, c, row.root, P)
    BY <1>8, <2>5 DEF r
  <2> QED
    BY <1>6, <2>4, <2>6, <2>7, OperateKeeps
<1>9. CASE row.rep = "power"
  <2>1. row.a = w
    BY <1>2, <1>9 DEF IdleRow, w
  <2>2. \A j \in Index : p[j] = c[j]
    <3>1. \A j \in Index : SubstitutedPower(w, e)[j] = ComposedWith(w, e)[j]
      BY <1>2, <1>3, <1>4, SubstitutedPowerExact
    <3> QED
      BY <2>1, <3>1
  <2>3. a = p
    BY <1>9
  <2> HIDE DEF n, p, c, a
  <2>4. p = c
    <3>1. c = [j \in Index |-> c[j]]
      BY <1>6
    <3> QED
      BY <1>7, <2>2, <3>1
  <2>5. c \in [Index -> Int]
    BY <1>5, <1>6
  <2>6. Operate(c, c)
    BY <1>1, <2>3, <2>4
  <2>7. row.rep # "ntt"
    BY <1>9
  <2> QED
    BY <1>6, <2>5, <2>6, <2>7, OperateKeeps
<1> QED
  BY <1>3, <1>8, <1>9

LEMMA DivideKeeps ==
    ASSUME RowInv, NEW k \in Shifts, DivideByPower(k)
    PROVE  RowInv'
<1> DEFINE w == row.want
           c == TimesMonomial(w, -k)
           p == Shifted(row.a, k)
<1>1. Idle /\ row.rep = "power" /\ Operate(p, c)
  BY DEF DivideByPower
<1>2. SupportsNtt /\ row \in RowSet /\ IdleRow(row)
  BY <1>1, IdleHolds
<1>3. w \in [Index -> 0 .. P - 1] /\ row.a = w
  BY <1>1, <1>2, RowFields DEF IdleRow
<1>4. k \in 0 .. 2 * N
  BY TransformAssumption
<1>5. P \in Nat \ {0}
  BY <1>2, TransformModulus
<1>6. p = [j \in Index |-> p[j]] /\ c = [j \in Index |-> c[j]]
  BY DEF Shifted, TimesMonomial
<1> HIDE DEF w
<1>7. \A j \in Index : p[j] = c[j] /\ c[j] \in 0 .. P - 1
  <2>1. \A j \in Index : /\ Shifted(w, k)[j] = TimesMonomial(w, -k)[j]
                         /\ TimesMonomial(w, -k)[j] \in 0 .. P - 1
    BY <1>2, <1>3, <1>4, ShiftedExact
  <2> QED
    BY <1>3, <2>1
<1> HIDE DEF c, p
<1>8. p = c
  BY <1>6, <1>7
<1>9. c \in [Index -> 0 .. P - 1] /\ c \in [Index -> Int]
  <2>1. \A j \in Index : c[j] \in Int
    BY <1>5, <1>7
  <2> QED
    BY <1>6, <1>7, <2>1
<1>10. Operate(c, c) /\ row.rep # "ntt"
  BY <1>1, <1>8
<1> QED
  BY <1>9, <1>10, OperateKeeps

LEMMA MultiplyKeeps ==
    ASSUME RowInv, NEW f \in Factors, MultiplyBy(f)
    PROVE  RowInv'
<1> DEFINE w == row.want
           r == row.root
           b == row.a
           g == [j \in Index |-> f[j + 1]]
           h == [j \in Index |-> Evaluate(g, r, j)]
           c == Product1(w, g)
           d == [j \in Index |-> MulShoup(PModulus, b[j], h[j], Shoup(PModulus, h[j]))]
<1>1. Idle /\ row.rep = "ntt" /\ Operate(d, c)
  BY DEF MultiplyBy
<1>2. SupportsNtt /\ row \in RowSet /\ IdleRow(row)
  BY <1>1, IdleHolds
<1>3. P \in Nat \ {0} /\ P \in Int
  BY <1>2, TransformModulus
<1>4. r \in Roots /\ w \in [Index -> 0 .. P - 1] /\ b \in [Index -> Int] /\ row.lazy \in BOOLEAN
  BY <1>2, RowFields
<1>5. HoldsValues(b, w, r, IF row.lazy THEN 4 * P ELSE P)
  BY <1>1, <1>2 DEF IdleRow
<1>6. \A x \in Index : b[x] \in 0 .. 4 * P - 1 /\ b[x] % P = Evaluate(w, r, x)
  <2>1. CASE row.lazy
    BY <1>5, <2>1 DEF HoldsValues
  <2>2. CASE ~row.lazy
    <3>1. \A x \in Index : b[x] \in 0 .. P - 1 /\ b[x] % P = Evaluate(w, r, x)
      BY <1>5, <2>2 DEF HoldsValues
    <3>2. 0 .. P - 1 \subseteq 0 .. 4 * P - 1
      BY <1>3
    <3> QED
      BY <3>1, <3>2
  <2> QED
    BY <2>1, <2>2
<1>7. g \in [Index -> Int]
  <2>1. \A j \in Index : j + 1 \in 1 .. N
    BY Degree
  <2> QED
    BY <2>1, TransformAssumption
<1>8. w \in [Index -> Int]
  BY <1>2, <1>4, WantTypes
<1> HIDE DEF w, r, b, g
<1>9. ASSUME NEW j \in Index PROVE d[j] = Evaluate(c, r, j)
  <2>1. d[j] = MulShoup(PModulus, b[j], h[j], Shoup(PModulus, h[j])) /\ h[j] = Evaluate(g, r, j)
    OBVIOUS
  <2> DEFINE x == b[j]
             v == h[j]
  <2>2. x \in 0 .. 4 * P - 1 /\ x % P = Evaluate(w, r, j) /\ v = Evaluate(g, r, j)
    BY <1>6, <2>1
  <2> HIDE DEF x, v
  <2>3. MulShoup(PModulus, x, v, Shoup(PModulus, v)) = Evaluate(Product1(w, g), r, j)
    BY <1>2, <1>4, <1>7, <1>8, <2>2, MultipliedExact
  <2> QED
    BY <2>1, <2>3 DEF x, v
<1>10. c \in [Index -> 0 .. P - 1]
  BY <1>2, <1>7, <1>8, ProductTypes
<1>11. c \in [Index -> Int]
  BY <1>3, <1>10
<1>12. d = [j \in Index |-> d[j]]
  OBVIOUS
<1> HIDE DEF c, d, h
<1>13. \A j \in Index : d[j] \in 0 .. P - 1 /\ d[j] % P = d[j] /\ d[j] \in Int
  <2> TAKE j \in Index
  <2> DEFINE y == d[j]
             E == 2 * BitRev[j] + 1
  <2>1. y \in 0 .. P - 1
    <3>1. Evaluate(c, r, j) \in 0 .. P - 1
      BY <1>2, <1>4, <1>11, FoldOne
    <3> QED
      BY <1>9, <3>1
  <2> HIDE DEF y
  <2>2. y \in Int /\ 0 <= y /\ y < P
    BY <1>3, <2>1
  <2>3. y % P = y
    BY <1>3, <2>2, OwnRemainder
  <2> QED
    BY <2>1, <2>2, <2>3 DEF y
<1>14. d \in [Index -> Int]
  BY <1>12, <1>13
<1>15. HoldsValues(d, c, r, P)
  BY <1>9, <1>13 DEF HoldsValues
<1>16. row.rep # "power" /\ HoldsValues(d, c, row.root, P)
  BY <1>1, <1>15 DEF r
<1> QED
  BY <1>1, <1>10, <1>14, <1>16, OperateKeeps

LEMMA StepsKeepRow ==
    ASSUME RowInv, [RowNext]_row
    PROVE  RowInv'
<1>1. CASE \E r \in Roots, c \in Coefficients : LoadRow(c, r) \/ LoadLazyRow(c, r)
  BY <1>1, LoadRowKeeps, LoadLazyRowKeeps
<1>2. CASE \E vt \in BOOLEAN : StartForward(vt) \/ StartBackward(vt)
  BY <1>2, StartForwardKeeps, StartBackwardKeeps
<1>3. CASE ForwardChunk \/ BackwardChunk
  BY <1>3, ForwardChunkKeeps, BackwardChunkKeeps
<1>4. CASE \E e \in Exponents : Substitute(e)
  BY <1>4, SubstituteKeeps
<1>5. CASE \E k \in Shifts : DivideByPower(k)
  BY <1>5, DivideKeeps
<1>6. CASE \E f \in Factors : MultiplyBy(f)
  BY <1>6, MultiplyKeeps
<1>7. CASE UNCHANGED row
  BY <1>7 DEF RowInv
<1> QED
  BY <1>1, <1>2, <1>3, <1>4, <1>5, <1>6, <1>7 DEF RowNext

(* The invariant of a row implies what is asked of it. *)
LEMMA RowInvExact ==
    ASSUME RowInv
    PROVE  TransformExact
<1> SUFFICES ASSUME row # NoRow, row.pass.l = 0, NEW x \in Index
             PROVE  row.a[x] % P = IF row.rep = "power" THEN row.want[x]
                                   ELSE Evaluate(row.want, row.root, x)
  BY DEF TransformExact
<1>1. SupportsNtt /\ row \in RowSet /\ IdleRow(row)
  BY IdleHolds DEF Idle
<1>2. row.want \in [Index -> 0 .. P - 1] /\ (row.rep = "power" \/ row.rep = "ntt")
  BY <1>1, RowFields
<1>3. CASE row.rep = "power"
  <2>1. row.a = row.want
    BY <1>1, <1>3 DEF IdleRow
  <2>2. row.want[x] % P = row.want[x]
    BY <1>1, <1>2, WantTypes
  <2> QED
    BY <1>3, <2>1, <2>2
<1>4. CASE row.rep = "ntt"
  BY <1>1, <1>4 DEF IdleRow, HoldsValues
<1> QED
  BY <1>2, <1>3, <1>4

LEMMA RowInvBounded ==
    ASSUME RowInv
    PROVE  EntriesBounded
<1> SUFFICES ASSUME row # NoRow, NEW x \in Index
             PROVE  row.a[x] < P * (IF row.pass.dir = "forward" THEN 4
                                    ELSE IF row.pass.dir = "backward" THEN 2
                                    ELSE IF row.lazy THEN 4 ELSE 1)
  BY DEF EntriesBounded
<1>1. SupportsNtt /\ GoodRow(row)
  BY DEF RowInv
<1>2. P \in Nat \ {0} /\ P * 4 = 4 * P /\ P * 2 = 2 * P /\ P * 1 = P /\ P < 4 * P
  BY <1>1, TransformModulus
<1> DEFINE y == row.a[x]
<1>3. CASE ForwardRow(row)
  <2>1. row.pass.dir = "forward" /\ y \in 0 .. 4 * P - 1
    BY <1>3 DEF ForwardRow, ForwardHeld, Forwards
  <2> HIDE DEF y
  <2>2. y < P * 4
    BY <1>2, <2>1
  <2> QED
    BY <2>1, <2>2 DEF y
<1>4. CASE BackwardRow(row)
  <2>1. row.pass.dir = "backward" /\ y \in 0 .. 2 * P - 1
    BY <1>4 DEF BackwardRow, BackwardHeld, Backwards
  <2> HIDE DEF y
  <2>2. y < P * 2
    BY <1>2, <2>1
  <2> QED
    BY <2>1, <2>2 DEF y
<1>5. CASE IdleRow(row)
  <2>1. row.pass.dir = ""
    BY <1>5, NoPassTypes DEF IdleRow
  <2>2. /\ row.lazy \in BOOLEAN /\ row.want \in [Index -> 0 .. P - 1]
        /\ (row.rep = "power" \/ row.rep = "ntt")
    BY <1>1, RowFields DEF GoodRow
  <2>3. y \in 0 .. (IF row.lazy THEN 4 * P ELSE P) - 1
    <3>1. CASE row.rep = "power"
      BY <1>5, <2>2, <3>1 DEF IdleRow
    <3>2. CASE row.rep = "ntt"
      BY <1>5, <3>2 DEF IdleRow, HoldsValues
    <3> QED
      BY <2>2, <3>1, <3>2
  <2> HIDE DEF y
  <2>4. y < P * (IF row.lazy THEN 4 ELSE 1)
    <3>1. CASE row.lazy
      BY <1>2, <2>3, <3>1
    <3>2. CASE ~row.lazy
      BY <1>2, <2>3, <3>2
    <3> QED
      BY <3>1, <3>2
  <2> QED
    BY <2>1, <2>4 DEF y
<1> QED
  BY <1>1, <1>3, <1>4, <1>5 DEF GoodRow

LEMMA RowAlways == RowSpec => []RowInv
<1>1. RowInit => RowInv
  BY DEF RowInit, RowInv
<1>2. RowInv /\ [RowNext]_row => RowInv'
  BY StepsKeepRow
<1> QED
  BY <1>1, <1>2, PTL DEF RowSpec

(* A transform is evaluation at the odd powers of its root, in the order   *)
(* that the substitutions and products expect, and its inverse             *)
(* interpolation: for every degree, every prime, every root that           *)
(* primitive_root may return, and any operations between transforms.       *)
THEOREM TransformsAreExact == RowSpec => []TransformExact
<1>1. RowInv => TransformExact
  BY RowInvExact
<1> QED
  BY <1>1, RowAlways, PTL

(* The words never grow beyond what the next butterfly takes: the debug    *)
(* assertions of NttOperator hold, so that no sum of a row overflows.      *)
THEOREM EntriesStayBounded == RowSpec => []EntriesBounded
<1>1. RowInv => EntriesBounded
  BY RowInvBounded
<1> QED
  BY <1>1, RowAlways, PTL

-----------------------------------------------------------------------------
(* Key switching: the moduli, sums, and rounding *)

LEMMA LevelIs ==
    ASSUME NEW l \in SwitchLevels
    PROVE  /\ l \in Nat /\ Len(SwitchModuli) \in Nat \ {0} /\ Len(SwitchModuli) - l \in 1 .. Len(SwitchModuli)
           /\ IsContext(ContextAt(l)) /\ Len(ContextAt(l)) = Len(SwitchModuli) - l
           /\ DOMAIN ContextAt(l) = 1 .. Len(SwitchModuli) - l
           /\ \A i \in 1 .. Len(SwitchModuli) - l :
                 /\ ContextAt(l)[i] = SwitchModuli[i] /\ SwitchModuli[i] \in Nat \ {0}
                 /\ SwitchModuli[i] >= 2
           /\ ModulusAt[l] \in Nat \ {0} /\ ModulusAt[l] = ProductOf(ContextAt(l))
<1> DEFINE n == Len(SwitchModuli)
           c == ContextAt(l)
<1>1. IsContext(SwitchModuli)
  BY SwitchAssumption DEF IsContext
<1>2. /\ SwitchModuli \in Seq(Nat) /\ n \in Nat \ {0} /\ DOMAIN SwitchModuli = 1 .. n
      /\ \A i \in 1 .. n : SwitchModuli[i] \in Nat \ {0} /\ SwitchModuli[i] >= 2
  BY <1>1, SwitchAssumption, ContextTypes
<1>3. l \in Nat /\ n - l \in 1 .. n
  BY <1>2 DEF SwitchLevels
<1>4. c = SubSeq(SwitchModuli, 1, n - l)
  BY DEF ContextAt
<1>5. c \in Seq(Nat) /\ Len(c) = n - l /\ \A i \in 1 .. n - l : c[i] = SwitchModuli[i]
  BY <1>2, <1>3, <1>4, SMTT(60)
<1>6. ModulusAt[l] = ProductOf(c)
  BY DEF ModulusAt
<1> HIDE DEF c, n
<1>7. DOMAIN c = 1 .. n - l /\ c # << >> /\ \A i \in 1 .. n - l : i \in 1 .. n
  BY <1>2, <1>3, <1>5
<1>8. RnsContextOk(c)
  <2>1. /\ \A i, j \in DOMAIN SwitchModuli : i # j => Coprime(SwitchModuli[i], SwitchModuli[j])
        /\ \A i \in DOMAIN SwitchModuli : NewModulusOk(SwitchModuli[i])
    BY SwitchAssumption DEF RnsContextOk
  <2>2. /\ \A i, j \in 1 .. n - l : i # j => Coprime(c[i], c[j])
        /\ \A i \in 1 .. n - l : NewModulusOk(c[i])
    BY ONLY <1>2, <1>5, <1>7, <2>1
  <2> QED
    BY ONLY <1>7, <2>2 DEF RnsContextOk
<1>9. IsContext(c)
  BY <1>5, <1>8 DEF IsContext
<1>10. ProductOf(c) \in Nat \ {0}
  BY <1>9, ContextTypes
<1> QED
  BY <1>2, <1>3, <1>5, <1>6, <1>7, <1>9, <1>10 DEF c, n

(* A level down takes off the last modulus. *)
LEMMA NextModulus ==
    ASSUME NEW l \in SwitchLevels, l - 1 \in SwitchLevels
    PROVE  /\ SwitchModuli[Len(SwitchModuli) - l + 1] \in Nat \ {0}
           /\ SwitchModuli[Len(SwitchModuli) - l + 1] >= 2
           /\ ModulusAt[l - 1] = SwitchModuli[Len(SwitchModuli) - l + 1] * ModulusAt[l]
<1> DEFINE n == Len(SwitchModuli)
           a == ContextAt(l - 1)
           j == n - (l - 1)
<1>1. /\ IsContext(a) /\ Len(a) = j /\ j \in 1 .. n /\ n \in Nat /\ l \in Nat
      /\ a[j] = SwitchModuli[j] /\ SwitchModuli[j] \in Nat \ {0} /\ SwitchModuli[j] >= 2
      /\ ModulusAt[l - 1] = ProductOf(a) /\ ModulusAt[l] = ProductOf(ContextAt(l))
  <2>1. j \in 1 .. j
    BY LevelIs
  <2> QED
    BY <2>1, LevelIs
<1>2. j = n - l + 1 /\ j - 1 = n - l /\ n - l \in 1 .. n
  BY <1>1, LevelIs
<1>3. SubSeq(a, 1, j - 1) = ContextAt(l)
  <2> DEFINE m == SwitchModuli
             b == SubSeq(m, 1, j)
             c == SubSeq(m, 1, j - 1)
  <2>1. m \in Seq(Nat) /\ Len(m) = n
    BY SwitchAssumption
  <2> HIDE DEF m, n, j
  <2>2. b \in Seq(Nat) /\ Len(b) = j /\ \A i \in 1 .. j : b[i] = m[i]
    BY <1>1, <2>1
  <2> DEFINE k == j - 1
  <2>7. k \in 1 .. n /\ k \in 1 .. j /\ c = SubSeq(m, 1, k)
    BY <1>1, <1>2
  <2> HIDE DEF b, c, k
  <2>8. SubSeq(m, 1, k) \in Seq(Nat) /\ Len(SubSeq(m, 1, k)) = k /\ \A i \in 1 .. k : SubSeq(m, 1, k)[i] = m[i]
    BY ONLY <2>1, <2>7, n \in Nat
  <2>3. c \in Seq(Nat) /\ Len(c) = j - 1 /\ \A i \in 1 .. j - 1 : c[i] = m[i]
    BY <2>7, <2>8 DEF k
  <2>9. SubSeq(b, 1, k) \in Seq(Nat) /\ Len(SubSeq(b, 1, k)) = k /\ \A i \in 1 .. k : SubSeq(b, 1, k)[i] = b[i]
    BY ONLY <2>2, <2>7, j \in Nat
  <2>4. SubSeq(b, 1, j - 1) \in Seq(Nat) /\ Len(SubSeq(b, 1, j - 1)) = j - 1
        /\ \A i \in 1 .. j - 1 : SubSeq(b, 1, j - 1)[i] = b[i]
    BY <2>9 DEF k
  <2> DEFINE d == SubSeq(b, 1, j - 1)
  <2> HIDE DEF d
  <2>5. d \in Seq(Nat) /\ Len(d) = Len(c) /\ \A i \in 1 .. Len(d) : d[i] = c[i]
    BY <1>1, <1>2, <2>2, <2>3, <2>4, SMTT(60) DEF d
  <2>6. d = c
    BY <2>3, <2>5, SeqEqual
  <2> QED
    BY <1>2, <2>6 DEF b, c, d, m, j, n, ContextAt
<1>4. a \in Seq(Nat \ {0}) /\ a # << >>
  BY <1>1, ContextTypes
<1> HIDE DEF a, j
<1>5. ProductOf(a) = a[Len(a)] * ProductOf(SubSeq(a, 1, Len(a) - 1))
  BY <1>4, ProductOfFront
<1> QED
  BY <1>1, <1>2, <1>3, <1>5

(* Sums of terms that are the same, bounded, scaled and added. *)
LEMMA SumOfSame ==
    ASSUME NEW n \in Nat, NEW f, NEW g, NEW q \in Int, \A i \in 1 .. n : Same(f[i], g[i], q)
    PROVE  Same(SumOf(f, n), SumOf(g, n), q)
<1>1. \A i \in 1 .. n : f[i] \in Int /\ g[i] \in Int
  BY DEF Same
<1>2. Terms(f, 1 .. n) /\ SumOf(f, n) = SumFunctionOnSet(f, 1 .. n)
  BY <1>1, SumOfIsSum
<1>3. Terms(g, 1 .. n) /\ SumOf(g, n) = SumFunctionOnSet(g, 1 .. n)
  BY <1>1, SumOfIsSum
<1> QED
  BY <1>2, <1>3, SumCongruent

Combined(h, c, f, d, g, n) ==
    \A i \in 1 .. n : f[i] \in Int /\ g[i] \in Int /\ h[i] = c * f[i] + d * g[i]

LEMMA SumOfLinear ==
    ASSUME NEW n \in Nat, NEW f, NEW g, NEW h, NEW c \in Int, NEW d \in Int, Combined(h, c, f, d, g, n)
    PROVE  SumOf(h, n) = c * SumOf(f, n) + d * SumOf(g, n)
<1> DEFINE u == [i \in 1 .. n |-> c * f[i]]
           v == [i \in 1 .. n |-> d * g[i]]
<1>0. \A i \in 1 .. n : f[i] \in Int /\ g[i] \in Int /\ h[i] = c * f[i] + d * g[i]
  BY DEF Combined
<1>1. \A i \in 1 .. n : u[i] \in Int /\ v[i] \in Int /\ u[i] = c * f[i] /\ v[i] = d * g[i]
  BY <1>0
<1>2. \A i \in 1 .. n : h[i] = u[i] + v[i] /\ h[i] \in Int
  BY <1>0, <1>1
<1> HIDE DEF u, v
<1>3. Terms(f, 1 .. n) /\ SumOf(f, n) = SumFunctionOnSet(f, 1 .. n)
  BY <1>0, SumOfIsSum
<1>4. Terms(g, 1 .. n) /\ SumOf(g, n) = SumFunctionOnSet(g, 1 .. n)
  BY <1>0, SumOfIsSum
<1>5. Terms(h, 1 .. n) /\ SumOf(h, n) = SumFunctionOnSet(h, 1 .. n)
  BY <1>2, SumOfIsSum
<1>6. Terms(u, 1 .. n) /\ Terms(v, 1 .. n)
  BY <1>1, SumOfIsSum
<1>7. SumFunctionOnSet(u, 1 .. n) = c * SumFunctionOnSet(f, 1 .. n)
  <2>1. \A x \in 1 .. n : u[x] = c * f[x]
    BY <1>1
  <2> QED
    BY ONLY c \in Int, <1>3, <2>1, SumScaled
<1>8. SumFunctionOnSet(v, 1 .. n) = d * SumFunctionOnSet(g, 1 .. n)
  <2>1. \A x \in 1 .. n : v[x] = d * g[x]
    BY <1>1
  <2> QED
    BY ONLY d \in Int, <1>4, <2>1, SumScaled
<1>9. SumFunctionOnSet(h, 1 .. n) = SumFunctionOnSet(u, 1 .. n) + SumFunctionOnSet(v, 1 .. n)
  BY <1>2, <1>6, SumPlus
<1> QED
  BY <1>3, <1>4, <1>5, <1>7, <1>8, <1>9

LEMMA SumOfBounded ==
    ASSUME NEW n \in Nat, NEW f, NEW g,
           \A i \in 1 .. n : f[i] \in Int /\ g[i] \in Int /\ -g[i] <= f[i] /\ f[i] <= g[i]
    PROVE  -SumOf(g, n) <= SumOf(f, n) /\ SumOf(f, n) <= SumOf(g, n)
<1> DEFINE S == {k \in 0 .. n : -SumOf(g, k) <= SumOf(f, k) /\ SumOf(f, k) <= SumOf(g, k)}
<1>1. 0 \in S
  BY SumOfNothing
<1>2. ASSUME NEW k \in 0 .. n - 1, k \in S PROVE k + 1 \in S
  <2>1. k \in Nat /\ k + 1 \in 1 .. n /\ k + 1 \in 0 .. n /\ \A i \in 1 .. k + 1 : i \in 1 .. n
    OBVIOUS
  <2>2. SumOf(f, k) \in Int /\ SumOf(f, k + 1) = SumOf(f, k) + f[k + 1]
    BY <2>1, SumOfNext
  <2>3. SumOf(g, k) \in Int /\ SumOf(g, k + 1) = SumOf(g, k) + g[k + 1]
    BY <2>1, SumOfNext
  <2> DEFINE a == SumOf(f, k)
             b == SumOf(g, k)
             x == f[k + 1]
             y == g[k + 1]
  <2>4. a \in Int /\ b \in Int /\ x \in Int /\ y \in Int /\ -y <= x /\ x <= y /\ -b <= a /\ a <= b
    BY <1>2, <2>1, <2>2, <2>3
  <2> HIDE DEF a, b, x, y
  <2>5. -(b + y) <= a + x /\ a + x <= b + y
    BY ONLY <2>4
  <2> QED
    BY <2>1, <2>2, <2>3, <2>5 DEF a, b, x, y
<1> HIDE DEF S
<1>3. \A k \in 0 .. n : k \in S
  BY <1>1, <1>2, InductionUpTo
<1> QED
  BY <1>3 DEF S

(* Residues in the middle range. *)
LEMMA CenteredIs ==
    ASSUME NEW x \in Int, NEW l \in SwitchLevels
    PROVE  CenteredAt(x, l) \in Int /\ Same(CenteredAt(x, l), x, ModulusAt[l])
<1> DEFINE q == ModulusAt[l]
           r == x % q
<1>1. q \in Nat \ {0}
  BY LevelIs
<1> HIDE DEF q
<1>2. r \in Int /\ Same(r, x, q)
  BY <1>1, Remainder, SameMod
<1>3. CenteredAt(x, l) = r \/ CenteredAt(x, l) = r - q
  BY DEF CenteredAt, q
<1> HIDE DEF r
<1>4. Same(r - q, x, q) /\ r - q \in Int
  <2>1. r - q \in Int /\ r - q = r + (-1) * q /\ -1 \in Int /\ q \in Int
    BY <1>1, <1>2
  <2>2. Same(r - q, r, q)
    BY <1>2, <2>1, IsSame
  <2> QED
    BY <1>2, <2>1, <2>2, SameTransitive
<1> QED
  BY <1>2, <1>3, <1>4 DEF q

(* No representative of a residue is smaller than the centred one. *)
LEMMA CenteredSmallest ==
    ASSUME NEW x \in Int, NEW y \in Int, NEW l \in SwitchLevels, Same(x, y, ModulusAt[l])
    PROVE  SwitchAbs(CenteredAt(x, l)) <= SwitchAbs(y)
<1> DEFINE q == ModulusAt[l]
           r == x % q
           k == y \div q
           kq == k * q
<1>1. q \in Nat \ {0}
  BY LevelIs
<1>2. x % q = y % q
  BY <1>1, SameEqual
<1> HIDE DEF q
<1>3. r \in Int /\ 0 <= r /\ r < q /\ y = k * q + r /\ k \in Int
  BY <1>1, <1>2, Remainder
<1>4. CenteredAt(x, l) = IF 2 * r > q THEN r - q ELSE r
  BY DEF CenteredAt, q
<1> HIDE DEF r, k
<1>5. kq \in Int /\ y = kq + r /\ (kq >= 0 \/ kq <= -q)
  <2>1. k >= 0 \/ k <= -1
    BY <1>3
  <2>2. k >= 0 => k * q >= 0
    BY <1>1, <1>3
  <2>3. k <= -1 => k * q <= -q
    BY <1>1, <1>3
  <2> QED
    BY <1>1, <1>3, <2>1, <2>2, <2>3
<1> HIDE DEF kq
<1>6. CASE 2 * r > q
  <2>1. SwitchAbs(r - q) = q - r
    BY <1>1, <1>3 DEF SwitchAbs
  <2>2. y >= q - r \/ -y >= q - r
    BY ONLY <1>1, <1>3, <1>5, <1>6
  <2>3. SwitchAbs(y) >= q - r
    BY <1>1, <1>3, <2>2 DEF SwitchAbs
  <2> QED
    BY <1>4, <1>6, <2>1, <2>3
<1>7. CASE ~(2 * r > q)
  <2>1. SwitchAbs(r) = r
    BY <1>1, <1>3 DEF SwitchAbs
  <2>2. y >= r \/ -y >= r
    BY ONLY <1>1, <1>3, <1>5, <1>7
  <2>3. SwitchAbs(y) >= r
    BY <1>1, <1>3, <2>2 DEF SwitchAbs
  <2> QED
    BY <1>4, <1>7, <2>1, <2>3
<1> QED
  BY <1>6, <1>7

(* The size of the first modulus in bits. *)
LEMMA LogModulusIs ==
    /\ SwitchModuli[1] \in Nat \ {0} /\ LogModulus \in 1 .. W /\ W \in Nat
    /\ SwitchModuli[1] <= Pow2[LogModulus]
<1> DEFINE p == SwitchModuli[1]
           S == {k \in 0 .. 4 * W : Pow2[k] >= p}
<1>1. p \in Nat /\ NewModulusOk(p)
  <2>1. IsContext(SwitchModuli)
    BY SwitchAssumption DEF IsContext
  <2>2. 1 \in 1 .. Len(SwitchModuli)
    BY <2>1, ContextTypes
  <2> QED
    BY <2>1, <2>2, ContextTypes
<1>2. p \in Nat \ {0} /\ p >= 2 /\ p < B /\ W \in Nat
  <2>1. p \in Nat \ {0} /\ p >= 2 /\ p \in Word
    BY <1>1, ModulusSize
  <2> QED
    BY <2>1, WordTypes, WordsAssumption DEF Word
<1> HIDE DEF p
<1>3. W \in S /\ S \in SUBSET Nat /\ S # {}
  <2>1. W \in 0 .. 4 * W /\ Pow2[W] >= p
    BY <1>2, WordTypes DEF B
  <2> QED
    BY <2>1, <1>2
<1>4. PICK k \in S : \A m \in S : k <= m
  BY <1>3, LeastElement
<1>5. k \in 0 .. 4 * W /\ k <= W /\ Pow2[k] >= p
  BY <1>3, <1>4
<1>6. k = 0 \/ Pow2[k - 1] < p
  <2>1. CASE k = 0
    BY <2>1
  <2>2. CASE k # 0
    <3>1. k - 1 \in 0 .. 4 * W /\ ~(k <= k - 1)
      BY <1>5, <2>2, <1>2
    <3>2. k - 1 \notin S
      BY <1>4, <3>1
    <3>3. Pow2[k - 1] \in Nat
      BY <3>1, PowerTypes
    <3> QED
      BY <1>2, <3>1, <3>2, <3>3
  <2> QED
    BY <2>1, <2>2
<1>7. LogModulus = CHOOSE l \in 0 .. 4 * W : Pow2[l] >= p /\ (l = 0 \/ Pow2[l - 1] < p)
  BY DEF LogModulus, NextPowerOfTwoLog, p
<1> DEFINE L == LogModulus
<1>8. L \in 0 .. 4 * W /\ Pow2[L] >= p /\ (L = 0 \/ Pow2[L - 1] < p)
  BY <1>5, <1>6, <1>7
<1> HIDE DEF L
<1>9. L # 0
  <2>1. Pow2[0] = 1
    BY PowersDouble
  <2> QED
    BY <1>2, <1>8, <2>1
<1>10. L <= k
  <2> SUFFICES ASSUME k < L PROVE FALSE
    BY <1>5, <1>8
  <2>1. L - 1 \in 0 .. 4 * W /\ k \in 0 .. 4 * W /\ (k = L - 1 \/ k < L - 1) /\ k \in Nat /\ L - 1 \in Nat /\ L - 1 <= 4 * W
    BY <1>5, <1>8, <1>2
  <2>2. Pow2[k] \in Nat /\ Pow2[L - 1] \in Nat
    BY <2>1, PowerTypes
  <2>3. Pow2[k] <= Pow2[L - 1]
    <3>1. CASE k = L - 1
      BY <2>2, <3>1
    <3>2. CASE k < L - 1
      <4>1. 2 * Pow2[k] <= Pow2[L - 1]
        BY <2>1, <3>2, PowerGrows
      <4> QED
        BY <2>2, <4>1
    <3> QED
      BY <2>1, <3>1, <3>2
  <2> QED
    BY <1>2, <1>5, <1>8, <1>9, <2>2, <2>3
<1> QED
  BY <1>2, <1>5, <1>8, <1>9, <1>10 DEF L, p

(* The digits of a remainder: those below, and one more. *)
LEMMA RemainderOfProduct ==
    ASSUME NEW x \in Nat, NEW a \in Nat \ {0}, NEW b \in Nat \ {0}
    PROVE  x % (a * b) = (x % a) + a * ((x \div a) % b)
<1> DEFINE r == x % a
           d == x \div a
           m == d % b
           e == d \div b
           ab == a * b
<1>1. x = d * a + r /\ d \in Int /\ r \in Int /\ 0 <= r /\ r < a
  BY Remainder
<1> HIDE DEF r, d
<1>2. d = e * b + m /\ e \in Int /\ m \in Int /\ 0 <= m /\ m < b
  BY <1>1, Remainder
<1> HIDE DEF m, e
<1>3. x = e * ab + (r + a * m) /\ r + a * m \in Int /\ ab \in Nat \ {0}
  <2>1. d * a = e * (a * b) + a * m /\ e * (a * b) \in Int /\ a * m \in Int
    BY <1>2
  <2>2. ab \in Nat \ {0}
    OBVIOUS
  <2> QED
    BY <1>1, <2>1, <2>2
<1>4. 0 <= r + a * m /\ r + a * m < ab
  <2>1. a * m >= 0 /\ a * m \in Int
    BY <1>2
  <2>2. a * (b - 1 - m) >= 0
    BY <1>2
  <2>3. a * (b - 1 - m) = ab - a - a * m /\ ab \in Int
    BY <1>2
  <2> QED
    BY <1>1, <2>1, <2>2, <2>3
<1> DEFINE z == r + a * m
<1>5. z \in Int /\ x = e * ab + z /\ 0 <= z /\ z < ab /\ x \in Int
  BY <1>3, <1>4
<1> HIDE DEF z, ab
<1>6. x % ab = z
  BY <1>2, <1>3, <1>5, RemainderUnique
<1> QED
  BY <1>6 DEF z, ab, r, m, d

(* Bits of a number, and what they count for, make it up. *)
LEMMA BitDigits ==
    ASSUME NEW p \in Nat, NEW b \in Nat \ {0}, NEW n \in Nat, n * b <= 4 * W, NEW f,
           \A i \in 1 .. n : f[i] = ((p \div Pow2[(i - 1) * b]) % Pow2[b]) * Pow2[(i - 1) * b]
    PROVE  SumOf(f, n) = p % Pow2[n * b]
<1> DEFINE S == {k \in 0 .. n : SumOf(f, k) = p % Pow2[k * b]}
<1>1. \A k \in 0 .. n : k * b \in 0 .. 4 * W /\ k * b \in Nat
  <2> TAKE k \in 0 .. n
  <2>1. (n - k) * b >= 0 /\ (n - k) * b = n * b - k * b /\ k * b \in Int /\ n * b \in Int /\ k * b >= 0
    OBVIOUS
  <2> QED
    BY <2>1, WordsAssumption
<1>2. \A k \in 0 .. n : Pow2[k * b] \in Nat \ {0}
  BY <1>1, PowerTypes
<1>3. \A i \in 1 .. n : f[i] \in Int
  <2> TAKE i \in 1 .. n
  <2> DEFINE A == Pow2[(i - 1) * b]
             D == Pow2[b]
  <2>1. i - 1 \in 0 .. n /\ 1 \in 0 .. n /\ 1 * b = b
    OBVIOUS
  <2>2. A \in Nat \ {0} /\ D \in Nat \ {0}
    BY <1>2, <2>1
  <2>3. f[i] = ((p \div A) % D) * A
    OBVIOUS
  <2> HIDE DEF A, D
  <2> QED
    BY <2>2, <2>3
<1>4. 0 \in S
  <2>1. SumOf(f, 0) = 0 /\ Pow2[0] = 1 /\ 0 * b = 0 /\ p % 1 = 0
    BY SumOfNothing, PowersDouble
  <2> QED
    BY <2>1
<1>5. ASSUME NEW k \in 0 .. n - 1, k \in S PROVE k + 1 \in S
  <2> DEFINE A == Pow2[k * b]
             D == Pow2[b]
  <2>1. /\ k \in Nat /\ k \in 0 .. n /\ 1 \in 0 .. n /\ 1 * b = b /\ k + 1 \in 1 .. n /\ k + 1 \in 0 .. n
        /\ (k + 1) - 1 = k /\ \A i \in 1 .. k + 1 : i \in 1 .. n
    OBVIOUS
  <2>2. A \in Nat \ {0} /\ D \in Nat \ {0}
    BY <1>2, <2>1
  <2>3. (k + 1) * b = k * b + b /\ k * b \in Nat /\ (k + 1) * b \in 0 .. 4 * W
    <3>1. (k + 1) * b = k * b + b
      BY <2>1
    <3>2. k * b \in Nat
      BY <1>1, <2>1
    <3>3. (k + 1) * b \in 0 .. 4 * W
      BY <1>1, <2>1, Zenon
    <3> QED
      BY <3>1, <3>2, <3>3
  <2>4. Pow2[(k + 1) * b] = A * D
    BY <2>3, PowerOfSum
  <2>5. f[k + 1] = ((p \div A) % D) * A
    BY <2>1
  <2>6. SumOf(f, k + 1) = SumOf(f, k) + f[k + 1]
    BY <1>3, <2>1, SumOfNext
  <2>7. SumOf(f, k) = p % A
    BY <1>5
  <2> HIDE DEF A, D
  <2>8. p % (A * D) = (p % A) + A * ((p \div A) % D)
    BY <2>2, RemainderOfProduct
  <2>9. A * ((p \div A) % D) = ((p \div A) % D) * A
    BY <2>2
  <2>10. SumOf(f, k + 1) = p % Pow2[(k + 1) * b]
    BY <2>4, <2>5, <2>6, <2>7, <2>8, <2>9
  <2> QED
    BY <2>1, <2>10
<1> HIDE DEF S
<1>6. \A k \in 0 .. n : k \in S
  BY <1>4, <1>5, InductionUpTo
<1> QED
  BY <1>6 DEF S

(* The moduli that a ciphertext at a lower level does not have. *)
LEMMA LevelRatio ==
    ASSUME NEW a \in SwitchLevels, NEW b \in SwitchLevels, a <= b
    PROVE  \E R \in Nat \ {0} : ModulusAt[a] = R * ModulusAt[b] /\ ModulusAt[a] \div ModulusAt[b] = R
<1> DEFINE n == Len(SwitchModuli)
           S == {j \in 0 .. b - a : \E R \in Nat \ {0} : ModulusAt[b - j] = R * ModulusAt[b]}
<1>1. n \in Nat \ {0} /\ a \in Nat /\ b \in Nat /\ a <= n - 1 /\ b <= n - 1
  BY LevelIs DEF SwitchLevels
<1>2. ASSUME NEW j \in 0 .. b - a PROVE b - j \in SwitchLevels
  BY <1>1 DEF SwitchLevels
<1>3. ModulusAt[b] \in Nat \ {0}
  BY LevelIs
<1>4. 0 \in S
  <2>1. ModulusAt[b - 0] = 1 * ModulusAt[b] /\ 1 \in Nat \ {0}
    BY <1>1, <1>3
  <2> QED
    BY <1>1, <2>1
<1>5. ASSUME NEW j \in 0 .. b - a - 1, j \in S PROVE j + 1 \in S
  <2>1. PICK R \in Nat \ {0} : ModulusAt[b - j] = R * ModulusAt[b]
    BY <1>5
  <2> DEFINE l == b - j
             q == SwitchModuli[Len(SwitchModuli) - l + 1]
  <2>2. l \in SwitchLevels /\ l - 1 \in SwitchLevels /\ l - 1 = b - (j + 1) /\ j + 1 \in 0 .. b - a
    <3>1. j \in 0 .. b - a /\ j + 1 \in 0 .. b - a /\ l - 1 = b - (j + 1)
      BY <1>1
    <3>2. b - (j + 1) \in SwitchLevels
      BY <1>2, <3>1, Zenon
    <3> QED
      BY <1>2, <3>1, <3>2
  <2>3. q \in Nat \ {0} /\ ModulusAt[l - 1] = q * ModulusAt[l]
    BY <2>2, NextModulus
  <2>4. ModulusAt[l] = R * ModulusAt[b]
    BY <2>1
  <2> HIDE DEF l, q
  <2>5. q * R \in Nat \ {0} /\ ModulusAt[b - (j + 1)] = (q * R) * ModulusAt[b]
    <3>1. q * R \in Nat \ {0}
      BY <2>3
    <3>2. q * (R * ModulusAt[b]) = (q * R) * ModulusAt[b]
      BY <2>3, <1>3
    <3> QED
      BY <2>2, <2>3, <2>4, <3>1, <3>2
  <2> QED
    BY <2>2, <2>5
<1> HIDE DEF S
<1>6. b - a \in Nat
  BY <1>1
<1>7. \A j \in 0 .. b - a : j \in S
  BY <1>4, <1>5, <1>6, InductionUpTo
<1>8. b - a \in 0 .. b - a /\ b - (b - a) = a
  BY <1>1
<1>9. PICK R \in Nat \ {0} : ModulusAt[a] = R * ModulusAt[b]
  BY <1>7, <1>8 DEF S
<1> DEFINE q == ModulusAt[b]
           Q == ModulusAt[a]
<1>10. Q = R * q + 0 /\ Q \in Int /\ q \in Nat \ {0}
  BY <1>3, <1>9
<1> HIDE DEF q, Q
<1>11. Q \div q = R
  BY <1>10, QuotientUnique
<1> QED
  BY <1>9, <1>11 DEF q, Q

(* How residues, or bits, make up a coefficient. *)
DigitsOf(k, p, cl, kl) ==
    [i \in 1 .. Rows(cl, kl) |-> Digit(k, p, i) * Gadget(cl, kl, i)]

DigitOk(k, p, cl, kl, i) ==
    /\ Digit(k, p, i) \in Int /\ Gadget(cl, kl, i) \in Int
    /\ 0 <= Digit(k, p, i) /\ Digit(k, p, i) <= LargestDigit(k, i) /\ LargestDigit(k, i) \in Int

LEMMA RestDigits ==
    ASSUME NEW cl \in SwitchLevels, NEW kl \in SwitchLevels, LogBase(kl) = 0,
           NEW k, k.logBase = 0, NEW p \in 0 .. ModulusAt[cl] - 1
    PROVE  /\ Rows(cl, kl) \in Nat
           /\ \A i \in 1 .. Rows(cl, kl) : DigitOk(k, p, cl, kl, i)
           /\ Same(SumOf(DigitsOf(k, p, cl, kl), Rows(cl, kl)), p, ModulusAt[cl])
<1> DEFINE c == ContextAt(cl)
           n == Len(c)
           H == ProductOf(c)
           f == [i \in DOMAIN c |-> Project(c, p)[i] * GarnerOf(c, i)]
<1>1. /\ IsContext(c) /\ n \in Nat /\ DOMAIN c = 1 .. n /\ H \in Nat \ {0} /\ H = ModulusAt[cl]
      /\ \A i \in 1 .. n : c[i] = SwitchModuli[i] /\ c[i] \in Nat \ {0}
  BY LevelIs
<1>2. Rows(cl, kl) = n /\ \A i : Gadget(cl, kl, i) = GarnerOf(c, i)
  BY DEF Rows, Gadget
<1>3. \A i : Digit(k, p, i) = p % SwitchModuli[i] /\ LargestDigit(k, i) = SwitchModuli[i] - 1
  BY DEF Digit, LargestDigit
<1>4. p \in Int /\ 0 <= p /\ p < H
  BY <1>1
<1> HIDE DEF c, n, H
<1>5. \A i \in 1 .. n : GarnerOf(c, i) \in Nat
  <2> TAKE i \in 1 .. n
  <2> QED
    BY <1>1, GarnerRests DEF n
<1>6. \A i \in 1 .. n : DigitOk(k, p, cl, kl, i)
  <2> TAKE i \in 1 .. n
  <2> DEFINE q == SwitchModuli[i]
  <2>1. q \in Nat \ {0}
    BY <1>1
  <2> HIDE DEF q
  <2>2. p % q \in Int /\ 0 <= p % q /\ p % q <= q - 1 /\ q - 1 \in Int
    BY <2>1, <1>4, Remainder
  <2> QED
    BY <1>2, <1>3, <1>5, <2>2 DEF DigitOk, q
<1>7. DigitsOf(k, p, cl, kl) = f
  <2>1. \A i \in 1 .. n : Project(c, p)[i] = p % SwitchModuli[i]
    BY <1>1 DEF Project
  <2>2. \A i \in 1 .. n : Digit(k, p, i) * Gadget(cl, kl, i) = Project(c, p)[i] * GarnerOf(c, i)
    BY <1>2, <1>3, <2>1
  <2> QED
    BY <1>1, <1>2, <2>2 DEF DigitsOf
<1> HIDE DEF f
<1>8. Lift(c, Project(c, p)) = SumOf(f, n) % H
  BY DEF Lift, f, n, H
<1>9. Lift(c, Project(c, p)) = p % H
  BY <1>1, <1>4, LiftProjected DEF H
<1>10. SumOf(f, n) \in Int
  <2>1. \A i \in 1 .. n : f[i] \in Int
    <3> TAKE i \in 1 .. n
    <3>1. f[i] = Digit(k, p, i) * Gadget(cl, kl, i)
      BY <1>2, <1>7 DEF DigitsOf
    <3> QED
      BY <1>6, <3>1 DEF DigitOk
  <2> QED
    BY <1>1, <2>1, SumOfInt
<1>11. Same(SumOf(f, n), p, H)
  <2> DEFINE s == SumOf(f, n)
  <2>1. s \in Int /\ s % H = p % H
    BY <1>8, <1>9, <1>10
  <2> HIDE DEF s
  <2>2. Same(s % H, s, H) /\ Same(p % H, p, H)
    BY <1>1, <1>4, <2>1, SameMod
  <2>3. Same(s, s % H, H) /\ H \in Int
    BY <1>1, <2>2, SameSymmetric
  <2> QED
    BY <2>1, <2>2, <2>3, SameTransitive DEF s
<1> QED
  BY <1>1, <1>2, <1>6, <1>7, <1>11

LEMMA PairLeast ==
    ASSUME NEW x \in Int, NEW y \in Int
    PROVE  Least({x, y}) = x \/ Least({x, y}) = y
<1>1. \E u \in {x, y} : \A v \in {x, y} : u <= v
  <2>1. x <= y \/ y <= x
    OBVIOUS
  <2> QED
    BY <2>1
<1>2. Least({x, y}) \in {x, y}
  BY <1>1 DEF Least
<1> QED
  BY <1>2

LEMMA ProductOfEmpty == ProductOf(<< >>) = 1
<1>1. << >> \in Seq(Nat \ {0}) /\ Len(<< >>) = 0
  OBVIOUS
<1>2. PICK g \in [0 .. Len(<< >>) -> Nat \ {0}] : RunningProducts(g, << >>)
  BY <1>1, RunningProductsExist
<1>3. ProductOf(<< >>) = g[Len(<< >>)]
  BY <1>1, <1>2, ProductOfAll
<1>4. g[0] = 1
  BY <1>1, <1>2 DEF RunningProducts
<1> QED
  BY <1>1, <1>3, <1>4

(* A key with a single modulus: as many digits as its bits need. *)
LEMMA BitRows ==
    ASSUME NEW kl \in SwitchLevels, LogBase(kl) # 0, NEW cl \in SwitchLevels, kl <= cl
    PROVE  /\ LogBase(kl) \in Nat \ {0} /\ Rows(cl, kl) \in Nat
           /\ Rows(cl, kl) * LogBase(kl) <= 4 * W /\ LogModulus <= Rows(cl, kl) * LogBase(kl)
           /\ cl = kl /\ ModulusAt[cl] = SwitchModuli[1]
<1> DEFINE L == LogModulus
           b == L \div 2
           n == (L + b - 1) \div b
           m == Len(SwitchModuli)
           c == ContextAt(cl)
<1>1. Len(ContextAt(kl)) = 1 /\ LogBase(kl) = b /\ Rows(cl, kl) = n
  BY DEF LogBase, Rows
<1>2. L \in 1 .. W /\ W \in Nat
  BY LogModulusIs
<1>3. cl = kl
  <2>1. /\ m - kl = 1 /\ m - cl \in 1 .. m /\ m \in Nat \ {0} /\ kl \in Nat /\ cl \in Nat
    BY <1>1, LevelIs
  <2> HIDE DEF m
  <2> QED
    BY <2>1
<1>4. ModulusAt[cl] = SwitchModuli[1]
  <2>1. /\ IsContext(c) /\ Len(c) = 1 /\ ModulusAt[cl] = ProductOf(c) /\ m - cl = 1
        /\ \A i \in 1 .. m - cl : c[i] = SwitchModuli[i]
    BY <1>1, <1>3, LevelIs
  <2> HIDE DEF m
  <2> DEFINE q == SwitchModuli[1]
  <2>2. c \in Seq(Nat \ {0}) /\ Len(c) = 1 /\ c[1] = q /\ q \in Nat \ {0}
    <3>1. 1 \in 1 .. m - cl /\ 1 \in 1 .. Len(c)
      BY <2>1
    <3>2. c \in Seq(Nat \ {0}) /\ c[1] \in Nat \ {0}
      BY <2>1, <3>1, ContextTypes
    <3>3. c[1] = q
      BY <2>1, <3>1, Zenon
    <3> QED
      BY <2>1, <3>2, <3>3
  <2> HIDE DEF c, q
  <2>3. c # << >> /\ c[Len(c)] = q /\ SubSeq(c, 1, Len(c) - 1) = << >>
    <3>1. Len(c) - 1 = 0
      BY <2>2
    <3>2. c # << >>
      <4>1. Len(<< >>) = 0
        OBVIOUS
      <4> QED
        BY ONLY <2>2, <4>1
    <3>3. Len(SubSeq(c, 1, 0)) = 0 /\ SubSeq(c, 1, 0) = << >>
      BY <2>2
    <3> QED
      BY <2>2, <3>1, <3>2, <3>3
  <2>4. ProductOf(c) = c[Len(c)] * ProductOf(SubSeq(c, 1, Len(c) - 1))
    BY <2>2, <2>3, ProductOfFront
  <2>5. ProductOf(c) = q * 1
    BY <2>3, <2>4, ProductOfEmpty
  <2>6. ProductOf(c) = q
    BY <2>2, <2>5
  <2> QED
    BY <2>1, <2>6 DEF q
<1>5. b \in Nat \ {0}
  BY <1>1, <1>2
<1> HIDE DEF L
<1>6. b <= L /\ L <= W
  BY <1>2
<1> HIDE DEF b
<1> DEFINE x == L + b - 1
           r == x % b
           nb == n * b
<1>7. x \in Nat /\ r \in Int /\ 0 <= r /\ r < b /\ n \in Int /\ x = nb + r /\ nb \in Int
  BY <1>2, <1>5, Remainder
<1>8. n \in Nat
  BY <1>2, <1>5
<1> HIDE DEF nb, r, n
<1>9. nb <= 4 * W /\ L <= nb
  BY <1>2, <1>5, <1>6, <1>7
<1> QED
  BY <1>1, <1>3, <1>4, <1>5, <1>8, <1>9 DEF nb, L

LEMMA BitsAreDigits ==
    ASSUME NEW cl \in SwitchLevels, NEW kl \in SwitchLevels, kl <= cl, LogBase(kl) # 0,
           NEW k, k.logBase = LogBase(kl), NEW p \in 0 .. ModulusAt[cl] - 1
    PROVE  /\ Rows(cl, kl) \in Nat
           /\ \A i \in 1 .. Rows(cl, kl) : DigitOk(k, p, cl, kl, i)
           /\ Same(SumOf(DigitsOf(k, p, cl, kl), Rows(cl, kl)), p, ModulusAt[cl])
<1> DEFINE b == LogBase(kl)
           n == Rows(cl, kl)
           H == ModulusAt[cl]
           f == DigitsOf(k, p, cl, kl)
           G(i) == Pow2[(i - 1) * b]
           D == Pow2[b]
           q == SwitchModuli[1]
<1>1. b \in Nat \ {0} /\ n \in Nat /\ n * b <= 4 * W /\ LogModulus <= n * b /\ H = q
  BY BitRows
<1>2. H \in Nat \ {0} /\ q \in Nat \ {0} /\ LogModulus \in 1 .. W /\ W \in Nat /\ q <= Pow2[LogModulus]
  BY LevelIs, LogModulusIs
<1>3. \A i : Gadget(cl, kl, i) = G(i)
  BY DEF Gadget
<1>4. \A i : /\ Digit(k, p, i) = (p \div G(i)) % D
             /\ LargestDigit(k, i) = Least({D - 1, (q - 1) \div G(i)})
  BY DEF Digit, LargestDigit
<1>5. \A i \in 1 .. n : f[i] = Digit(k, p, i) * Gadget(cl, kl, i)
  BY DEF DigitsOf
<1> HIDE DEF b, n, f
<1>6. \A i \in 1 .. n : G(i) \in Nat \ {0} /\ D \in Nat \ {0}
  <2> TAKE i \in 1 .. n
  <2>1. (i - 1) * b \in 0 .. 4 * W /\ b \in 0 .. 4 * W
    <3>1. /\ (i - 1) * b >= 0 /\ (n - (i - 1)) * b >= 0 /\ (n - (i - 1)) * b = n * b - (i - 1) * b
          /\ (i - 1) * b \in Int /\ n * b \in Int
      BY <1>1
    <3>2. (n - 1) * b >= 0 /\ (n - 1) * b = n * b - b
      BY <1>1
    <3> QED
      BY <1>1, <1>2, <3>1, <3>2
  <2> QED
    BY <2>1, PowerTypes
<1>7. p \in Nat /\ p <= q - 1
  BY <1>1, <1>2
<1> HIDE DEF H, q, D
<1>8. \A i \in 1 .. n : DigitOk(k, p, cl, kl, i)
  <2> TAKE i \in 1 .. n
  <2> DEFINE g == G(i)
             d == p \div g
             e == (q - 1) \div g
  <2>1. g \in Nat \ {0} /\ D \in Nat \ {0}
    BY <1>6
  <2>2. Digit(k, p, i) = d % D /\ LargestDigit(k, i) = Least({D - 1, e}) /\ Gadget(cl, kl, i) = g
    BY <1>3, <1>4
  <2> HIDE DEF g
  <2>3. d \in Int /\ 0 <= d /\ e \in Int /\ d <= e
    <3>1. p = d * g + (p % g) /\ p % g \in Int /\ 0 <= p % g /\ p % g < g /\ d \in Int
      BY <1>7, <2>1, Remainder
    <3>2. q - 1 = e * g + ((q - 1) % g) /\ (q - 1) % g \in Int /\ 0 <= (q - 1) % g /\ (q - 1) % g < g /\ e \in Int
      BY <1>2, <1>7, <2>1, Remainder
    <3> HIDE DEF d, e
    <3> DEFINE r == p % g
               s == (q - 1) % g
    <3>3. /\ p = d * g + r /\ r \in Int /\ 0 <= r /\ r < g /\ q - 1 = e * g + s /\ s \in Int /\ 0 <= s /\ s < g
          /\ d \in Int /\ e \in Int /\ q \in Nat
      BY <3>1, <3>2, <1>2
    <3> HIDE DEF r, s
    <3>4. d >= 0
      <4>1. (d + 1) * g = d * g + g /\ d * g \in Int /\ d + 1 \in Int
        BY <3>3, <2>1
      <4>2. (d + 1) * g > 0
        BY <4>1, <3>3, <1>7, <2>1
      <4>3. d + 1 >= 1
        BY <4>1, <4>2, <2>1, Positive
      <4> QED
        BY <4>3, <3>3
    <3>5. d <= e
      <4>1. (e - d + 1) * g = e * g - d * g + g /\ d * g \in Int /\ e * g \in Int /\ e - d + 1 \in Int
        BY <3>3, <2>1
      <4>2. (e - d + 1) * g > 0
        BY <4>1, <3>3, <1>7, <2>1
      <4>3. e - d + 1 >= 1
        BY <4>1, <4>2, <2>1, Positive
      <4> QED
        BY <4>3, <3>3
    <3> QED
      BY <3>3, <3>4, <3>5
  <2> HIDE DEF d, e
  <2>4. d % D \in Int /\ 0 <= d % D /\ d % D <= D - 1 /\ d % D <= d
    <3>1. d % D \in Int /\ 0 <= d % D /\ d % D < D /\ d = (d \div D) * D + (d % D) /\ d \div D \in Int
      BY <2>1, <2>3, Remainder
    <3>2. d \div D >= 0
      BY <2>1, <2>3
    <3>3. (d \div D) * D >= 0
      BY <2>1, <3>1, <3>2
    <3> QED
      BY <2>1, <2>3, <3>1, <3>3
  <2>5. Least({D - 1, e}) = D - 1 \/ Least({D - 1, e}) = e
    <3>1. D - 1 \in Int
      BY <2>1
    <3> QED
      BY <2>3, <3>1, PairLeast
  <2> QED
    BY <2>1, <2>2, <2>3, <2>4, <2>5 DEF DigitOk
<1>9. SumOf(f, n) = p % Pow2[n * b]
  <2>1. \A i \in 1 .. n : f[i] = ((p \div Pow2[(i - 1) * b]) % Pow2[b]) * Pow2[(i - 1) * b]
    BY <1>3, <1>4, <1>5 DEF D
  <2> QED
    BY <1>1, <1>7, <2>1, BitDigits
<1>10. p < Pow2[n * b] /\ Pow2[n * b] \in Nat \ {0}
  <2> DEFINE L == LogModulus
             J == n * b
  <2>1. L \in Nat /\ J \in Nat /\ L <= J /\ J <= 4 * W /\ L \in 0 .. 4 * W /\ J \in 0 .. 4 * W /\ q <= Pow2[L]
    BY <1>1, <1>2
  <2> HIDE DEF L, J
  <2>2. Pow2[L] \in Nat \ {0} /\ Pow2[J] \in Nat \ {0}
    BY <2>1, PowerTypes
  <2>3. Pow2[L] <= Pow2[J]
    <3>1. CASE L = J
      BY <2>2, <3>1
    <3>2. CASE L < J
      <4>1. 2 * Pow2[L] <= Pow2[J]
        BY <2>1, <3>2, PowerGrows
      <4> QED
        BY <2>2, <4>1
    <3> QED
      BY <2>1, <3>1, <3>2
  <2>4. p < Pow2[J]
    BY <1>2, <1>7, <2>1, <2>2, <2>3
  <2> QED
    BY <2>2, <2>4 DEF J
<1>11. SumOf(f, n) = p
  <2> DEFINE T == Pow2[n * b]
  <2>1. T \in Nat \ {0} /\ p \in Int /\ 0 <= p /\ p < T
    BY <1>7, <1>10
  <2> HIDE DEF T
  <2>2. p % T = p
    BY <2>1, OwnRemainder
  <2> QED
    BY <1>9, <2>2 DEF T
<1>12. Same(p, p, H)
  BY <1>2, <1>7, SameReflexive
<1> QED
  BY <1>1, <1>8, <1>11, <1>12 DEF n, f, H

LEMMA DigitsMakeUp ==
    ASSUME NEW cl \in SwitchLevels, NEW kl \in SwitchLevels, kl <= cl,
           NEW k, k.logBase = LogBase(kl), NEW p \in 0 .. ModulusAt[cl] - 1
    PROVE  /\ Rows(cl, kl) \in Nat
           /\ \A i \in 1 .. Rows(cl, kl) : DigitOk(k, p, cl, kl, i)
           /\ Same(SumOf(DigitsOf(k, p, cl, kl), Rows(cl, kl)), p, ModulusAt[cl])
<1>1. CASE LogBase(kl) = 0
  BY <1>1, RestDigits
<1>2. CASE LogBase(kl) # 0
  BY <1>2, BitsAreDigits
<1> QED
  BY <1>1, <1>2

(* A key that switches from x to s: its rows are errors, less the other    *)
(* polynomials times s, and x at the moduli of the key by what each digit  *)
(* counts for.                                                             *)
GoodKey(k, s, x) ==
    /\ k.ctLevel \in SwitchLevels /\ k.kskLevel \in SwitchLevels /\ k.kskLevel <= k.ctLevel
    /\ k.logBase = LogBase(k.kskLevel) /\ k.seed \in DOMAIN Expand
    /\ DOMAIN k.c0 = 1 .. Rows(k.ctLevel, k.kskLevel) /\ Len(k.c0) = Rows(k.ctLevel, k.kskLevel)
    /\ Rows(k.ctLevel, k.kskLevel) \in Nat
    /\ k.c1 = GenerateC1(k.kskLevel, k.seed, Rows(k.ctLevel, k.kskLevel))
    /\ \E F \in Int :
          /\ Same(F, (ModulusAt[k.kskLevel] \div ModulusAt[k.ctLevel]) * x, ModulusAt[k.kskLevel])
          /\ \A i \in 1 .. Rows(k.ctLevel, k.kskLevel) :
                \E e \in -MaxError .. MaxError :
                    Same(k.c0[i], e - k.c1[i] * s + Gadget(k.ctLevel, k.kskLevel, i) * F,
                         ModulusAt[k.kskLevel])

(* What any digit counts for is a number. *)
LEMMA GadgetTypes ==
    ASSUME NEW cl \in SwitchLevels, NEW kl \in SwitchLevels, kl <= cl
    PROVE  /\ Rows(cl, kl) \in Nat
           /\ \A i \in 1 .. Rows(cl, kl) : Gadget(cl, kl, i) \in Int
<1> DEFINE k == [logBase |-> LogBase(kl)]
<1>1. k.logBase = LogBase(kl)
  OBVIOUS
<1>2. 0 \in 0 .. ModulusAt[cl] - 1
  <2>1. ModulusAt[cl] \in Nat \ {0}
    BY LevelIs
  <2> QED
    BY <2>1
<1> HIDE DEF k
<1> QED
  BY <1>1, <1>2, DigitsMakeUp DEF DigitOk

LEMMA NewKeyGood ==
    ASSUME NEW cl \in SwitchLevels, NEW kl \in SwitchLevels, kl <= cl, NEW s \in Int,
           NEW from \in Int, NEW x \in Int,
           Same(from, (ModulusAt[kl] \div ModulusAt[cl]) * x, ModulusAt[kl]),
           NEW seed \in DOMAIN Expand, NEW e \in SwitchErrors
    PROVE  GoodKey(NewKey(s, from, cl, kl, seed, e), s, x)
<1> DEFINE n == Rows(cl, kl)
           c1 == GenerateC1(kl, seed, n)
           F == CenteredAt(from, kl)
           g(i) == Gadget(cl, kl, i)
           Q == ModulusAt[kl]
           k == NewKey(s, from, cl, kl, seed, e)
           R == ModulusAt[kl] \div ModulusAt[cl]
<1>1. n \in Nat /\ \A i \in 1 .. n : g(i) \in Int
  BY GadgetTypes
<1>2. Q \in Nat \ {0}
  BY LevelIs
<1>3. /\ \A i \in 1 .. n : e[i] \in -MaxError .. MaxError /\ Expand[seed][kl][i] \in Int
      /\ MaxError \in Nat
  BY SwitchAssumption
<1>4. F \in Int /\ Same(F, from, Q)
  BY CenteredIs
<1>5. DOMAIN c1 = 1 .. n /\ Len(c1) = n /\ \A i \in 1 .. n : c1[i] \in Int
  BY <1>1, <1>3 DEF GenerateC1
<1>6. /\ k.ctLevel = cl /\ k.kskLevel = kl /\ k.logBase = LogBase(kl) /\ k.seed = seed /\ k.c1 = c1
      /\ k.c0 = [i \in DOMAIN c1 |-> (e[i] - c1[i] * s + g(i) * F) % Q]
  BY DEF NewKey
<1> HIDE DEF n, c1, F, Q, k, g, R
<1>7. DOMAIN k.c0 = 1 .. n /\ Len(k.c0) = n /\ \A i \in 1 .. n : k.c0[i] = (e[i] - c1[i] * s + g(i) * F) % Q
  <2>1. k.c0 = [i \in 1 .. n |-> (e[i] - c1[i] * s + g(i) * F) % Q]
    BY <1>5, <1>6
  <2> QED
    BY <1>1, <2>1
<1>8. Same(F, R * x, Q)
  <2>1. Same(from, R * x, Q)
    BY DEF R, Q
  <2> QED
    BY <1>2, <1>4, <2>1, SameTransitive
<1>9. ASSUME NEW i \in 1 .. n
      PROVE  /\ e[i] \in -MaxError .. MaxError
             /\ Same(k.c0[i], e[i] - k.c1[i] * s + g(i) * F, Q)
  <2> DEFINE z == e[i] - c1[i] * s + g(i) * F
  <2>1. z \in Int
    <3>1. e[i] \in Int /\ c1[i] * s \in Int /\ g(i) * F \in Int
      <4>1. e[i] \in Int /\ c1[i] \in Int /\ g(i) \in Int
        BY <1>1, <1>3, <1>5
      <4> QED
        BY <1>4, <4>1
    <3> QED
      BY <3>1
  <2>2. k.c0[i] = z % Q /\ k.c1[i] = c1[i]
    BY <1>6, <1>7
  <2> HIDE DEF z
  <2>3. Same(z % Q, z, Q)
    BY <1>2, <2>1, SameMod
  <2>4. Same(k.c0[i], z, Q)
    BY <2>2, <2>3
  <2> QED
    BY <1>3, <2>2, <2>4 DEF z
<1>10. \E G \in Int :
          /\ Same(G, R * x, Q)
          /\ \A i \in 1 .. n : \E d \in -MaxError .. MaxError : Same(k.c0[i], d - k.c1[i] * s + g(i) * G, Q)
  BY <1>4, <1>8, <1>9
<1> QED
  BY <1>1, <1>6, <1>7, <1>10 DEF GoodKey, n, c1, g, Q, R, k

(* The bytes of a key hold it. *)
LEMMA KeySent ==
    ASSUME NEW k, NEW s, NEW x, GoodKey(k, s, x)
    PROVE  GoodKey(KeyFromBytes(KeyToBytes(k)), s, x)
<1> DEFINE d == KeyFromBytes(KeyToBytes(k))
<1>1. /\ d.ctLevel = k.ctLevel /\ d.kskLevel = k.kskLevel /\ d.logBase = k.logBase /\ d.seed = k.seed
      /\ d.c0 = k.c0 /\ d.c1 = GenerateC1(k.kskLevel, k.seed, Len(k.c0))
  BY DEF KeyFromBytes, KeyToBytes
<1> HIDE DEF d
<1>2. d.c1 = k.c1
  BY <1>1 DEF GoodKey
<1> QED
  BY <1>1, <1>2 DEF GoodKey, d

(* One digit times one row of a key, under the secret key.                 *)
LEMMA RowSwitched ==
    ASSUME NEW Q \in Nat \ {0}, NEW d \in Int, NEW a, NEW b \in Int, NEW e \in Int, NEW g \in Int,
           NEW s \in Int, NEW F \in Int, Same(a, e - b * s + g * F, Q)
    PROVE  Same(d * a + s * (d * b), d * e + F * (d * g), Q)
<1> DEFINE z == e - b * s + g * F
           bs == b * s
           gF == g * F
<1>1. z \in Int /\ z = e - bs + gF /\ bs \in Int /\ gF \in Int /\ Same(a, z, Q) /\ Q \in Int
  OBVIOUS
<1>2. s * (d * b) = d * bs /\ s * (d * b) \in Int /\ F * (d * g) = d * gF
  OBVIOUS
<1> HIDE DEF z, bs, gF
<1>3. Same(d * a, d * z, Q)
  BY <1>1, SameScaled
<1> DEFINE y == s * (d * b)
<1>4. y \in Int /\ Same(y, y, Q)
  BY <1>1, <1>2, SameReflexive
<1>5. Same(d * a + y, d * z + y, Q)
  BY <1>1, <1>3, <1>4, SameAdd
<1>6. d * z = d * e - d * bs + d * gF /\ d * e \in Int /\ d * bs \in Int /\ d * gF \in Int
  BY <1>1
<1>7. d * z + y = d * e + F * (d * g)
  BY <1>2, <1>6
<1> QED
  BY <1>5, <1>7

(* At more moduli both grow by the moduli that are there in addition. *)
LEMMA ScaledUp ==
    ASSUME NEW R \in Nat \ {0}, NEW q \in Nat \ {0}, NEW Q, Q = R * q, NEW x \in Int, NEW F, NEW V, NEW p \in Int,
           Same(F, R * x, Q), Same(V, p, q)
    PROVE  Same(F * V, (R * x) * p, Q)
<1>1. Q \in Nat \ {0} /\ Q \in Int /\ R * x \in Int
  OBVIOUS
<1>2. PICK j \in Int : V = p + j * q
  BY DEF Same
<1>3. V \in Int /\ F \in Int
  BY DEF Same
<1>4. Same(V * F, V * (R * x), Q)
  BY <1>1, <1>3, SameScaled
<1> DEFINE y == V * (R * x)
           z == (R * x) * p
           l == x * j
<1>5. y = z + l * Q /\ y \in Int /\ z \in Int /\ l \in Int
  <2>1. y \in Int /\ z \in Int /\ l \in Int
    BY <1>1, <1>2, <1>3
  <2>2. V * (R * x) = p * (R * x) + (j * q) * (R * x)
    BY <1>1, <1>2
  <2>3. p * (R * x) = z
    BY <1>1
  <2>4. (j * q) * (R * x) = (x * j) * (R * q)
    <3> DEFINE a == R * q
    <3>1. (j * q) * (R * x) = (x * j) * a
      BY <1>2
    <3> QED
      BY <3>1
  <2> QED
    BY <2>1, <2>2, <2>3, <2>4
<1> HIDE DEF y, z, l
<1>6. Same(y, z, Q)
  BY <1>1, <1>5, IsSame
<1>7. V * F = F * V
  BY <1>3
<1>8. Same(F * V, y, Q)
  BY <1>4, <1>7 DEF y
<1> QED
  BY <1>1, <1>6, <1>8, SameTransitive DEF z

(* KeyNoise is the sum of the largest digits, times the largest error.     *)
LEMMA NoiseOfDigits ==
    ASSUME NEW k, NEW n \in Nat, DOMAIN k.c0 = 1 .. n, Len(k.c0) = n,
           NEW u, \A i \in 1 .. n : /\ u[i] \in Int /\ LargestDigit(k, i) \in Int
                                    /\ -(MaxError * LargestDigit(k, i)) <= u[i]
                                    /\ u[i] <= MaxError * LargestDigit(k, i)
    PROVE  /\ KeyNoise(k) \in Nat /\ SumOf(u, n) \in Int
           /\ -KeyNoise(k) <= SumOf(u, n) /\ SumOf(u, n) <= KeyNoise(k)
<1> DEFINE M == MaxError
           f == [i \in 1 .. n |-> LargestDigit(k, i)]
           h == [i \in 1 .. n |-> M * LargestDigit(k, i)]
<1>1. M \in Nat /\ M \in Int /\ 0 \in Int
  BY SwitchAssumption
<1>2. KeyNoise(k) = M * SumOf(f, n)
  BY DEF KeyNoise
<1>3. \A i \in 1 .. n : f[i] \in Int /\ h[i] = M * f[i] + 0 * f[i] /\ h[i] \in Int
  <2> TAKE i \in 1 .. n
  <2> DEFINE l == LargestDigit(k, i)
  <2>1. l \in Int /\ f[i] = l /\ h[i] = M * l
    OBVIOUS
  <2> HIDE DEF l
  <2> QED
    BY <1>1, <2>1
<1>4. \A i \in 1 .. n : h[i] \in Int /\ -h[i] <= u[i] /\ u[i] <= h[i] /\ u[i] \in Int
  BY <1>3
<1> HIDE DEF f, h, M
<1>5. SumOf(h, n) = M * SumOf(f, n) + 0 * SumOf(f, n)
  <2>1. Combined(h, M, f, 0, f, n)
    BY <1>3 DEF Combined
  <2> QED
    BY <1>1, <2>1, SumOfLinear
<1>6. SumOf(f, n) \in Int /\ SumOf(u, n) \in Int /\ SumOf(h, n) \in Int
  BY <1>3, <1>4, SumOfInt
<1>7. -SumOf(h, n) <= SumOf(u, n) /\ SumOf(u, n) <= SumOf(h, n)
  BY <1>4, SumOfBounded
<1>8. KeyNoise(k) = SumOf(h, n)
  BY <1>1, <1>2, <1>5, <1>6
<1> QED
  BY <1>6, <1>7, <1>8

(* A digit times an error is as small as the key's noise allows. *)
LEMMA DigitError ==
    ASSUME NEW M \in Nat, NEW e \in -M .. M, NEW d \in Int, NEW l \in Int, 0 <= d, d <= l
    PROVE  d * e \in Int /\ -(M * l) <= d * e /\ d * e <= M * l
<1>1. d * (M - e) >= 0 /\ d * (M + e) >= 0 /\ M * (l - d) >= 0
  <2>1. d \in Nat /\ M - e \in Nat /\ M + e \in Nat /\ l - d \in Nat
    OBVIOUS
  <2> QED
    BY <2>1
<1>2. d * (M - e) = d * M - d * e /\ d * (M + e) = d * M + d * e /\ M * (l - d) = M * l - d * M
      /\ d * M \in Int /\ d * e \in Int /\ M * l \in Int
  OBVIOUS
<1> QED
  BY <1>1, <1>2

LEMMA KeySwitched ==
    ASSUME NEW k, NEW s \in Int, NEW x \in Int, GoodKey(k, s, x), NEW p \in 0 .. ModulusAt[k.ctLevel] - 1
    PROVE  /\ KeyNoise(k) \in Nat
           /\ \A j \in 1 .. 2 : KeySwitch(k, p)[j] \in 0 .. ModulusAt[k.kskLevel] - 1
           /\ \E E \in Int :
                 /\ -KeyNoise(k) <= E /\ E <= KeyNoise(k)
                 /\ Same(KeySwitch(k, p)[1] + KeySwitch(k, p)[2] * s,
                         E + ((ModulusAt[k.kskLevel] \div ModulusAt[k.ctLevel]) * x) * p,
                         ModulusAt[k.kskLevel])
<1> DEFINE cl == k.ctLevel
           kl == k.kskLevel
           n == Rows(cl, kl)
           Q == ModulusAt[kl]
           q == ModulusAt[cl]
           R == Q \div q
           d(i) == Digit(k, p, i)
           g(i) == Gadget(cl, kl, i)
<1>1. /\ cl \in SwitchLevels /\ kl \in SwitchLevels /\ kl <= cl /\ k.logBase = LogBase(kl) /\ n \in Nat
      /\ DOMAIN k.c0 = 1 .. n /\ Len(k.c0) = n /\ k.c1 = GenerateC1(kl, k.seed, n) /\ k.seed \in DOMAIN Expand
  BY DEF GoodKey
<1>2. PICK F \in Int : /\ Same(F, R * x, Q)
                       /\ \A i \in 1 .. n : \E e \in -MaxError .. MaxError :
                             Same(k.c0[i], e - k.c1[i] * s + g(i) * F, Q)
  BY DEF GoodKey
<1>3. Q \in Nat \ {0} /\ q \in Nat \ {0} /\ MaxError \in Nat
  BY <1>1, LevelIs, SwitchAssumption
<1>4. R \in Nat \ {0} /\ Q = R * q
  BY <1>1, LevelRatio
<1>5. /\ \A i \in 1 .. n : DigitOk(k, p, cl, kl, i)
      /\ Same(SumOf(DigitsOf(k, p, cl, kl), n), p, q)
  BY <1>1, DigitsMakeUp
<1>6. \A i \in 1 .. n : k.c1[i] \in Int
  <2>1. \A i \in 1 .. n : Expand[k.seed][kl][i] \in Int
    BY <1>1, SwitchAssumption
  <2> QED
    BY <1>1, <2>1 DEF GenerateC1
<1> DEFINE e == [i \in 1 .. n |-> CHOOSE z \in -MaxError .. MaxError :
                                        Same(k.c0[i], z - k.c1[i] * s + g(i) * F, Q)]
           f0 == [i \in 1 .. n |-> d(i) * k.c0[i]]
           f1 == [i \in 1 .. n |-> d(i) * k.c1[i]]
           h == [i \in 1 .. n |-> d(i) * k.c0[i] + s * (d(i) * k.c1[i])]
           u == [i \in 1 .. n |-> d(i) * e[i]]
           v == DigitsOf(k, p, cl, kl)
           w == [i \in 1 .. n |-> d(i) * e[i] + F * (d(i) * g(i))]
<1>7. KeySwitch(k, p)[1] = SumOf(f0, n) % Q /\ KeySwitch(k, p)[2] = SumOf(f1, n) % Q
  BY <1>1 DEF KeySwitch
<1>8. \A i \in 1 .. n : e[i] \in -MaxError .. MaxError /\ Same(k.c0[i], e[i] - k.c1[i] * s + g(i) * F, Q)
  BY <1>2
<1> HIDE DEF e
<1>9. \A i \in 1 .. n : /\ f0[i] = d(i) * k.c0[i] /\ f1[i] = d(i) * k.c1[i] /\ u[i] = d(i) * e[i] /\ v[i] = d(i) * g(i)
                        /\ h[i] = d(i) * k.c0[i] + s * (d(i) * k.c1[i])
                        /\ w[i] = d(i) * e[i] + F * (d(i) * g(i))
  BY DEF DigitsOf
<1> HIDE DEF n, f0, f1, h, u, v, w, Q, q, R, cl, kl
<1>10. ASSUME NEW i \in 1 .. n
       PROVE  /\ f0[i] \in Int /\ f1[i] \in Int /\ u[i] \in Int /\ v[i] \in Int
              /\ h[i] = 1 * f0[i] + s * f1[i] /\ w[i] = 1 * u[i] + F * v[i] /\ Same(h[i], w[i], Q)
              /\ LargestDigit(k, i) \in Int
              /\ -(MaxError * LargestDigit(k, i)) <= u[i] /\ u[i] <= MaxError * LargestDigit(k, i)
  <2> DEFINE D == d(i)
             a == k.c0[i]
             b == k.c1[i]
             G == g(i)
             z == e[i]
             l == LargestDigit(k, i)
  <2>1. /\ D \in Int /\ G \in Int /\ 0 <= D /\ D <= l /\ l \in Int /\ b \in Int /\ z \in -MaxError .. MaxError /\ z \in Int
        /\ Same(a, z - b * s + G * F, Q)
    <3>1. DigitOk(k, p, cl, kl, i)
      BY <1>5
    <3> QED
      BY <1>6, <1>8, <3>1, <1>3 DEF DigitOk
  <2>2. /\ f0[i] = D * a /\ f1[i] = D * b /\ u[i] = D * z /\ v[i] = D * G /\ h[i] = D * a + s * (D * b)
        /\ w[i] = D * z + F * (D * G)
    BY <1>9
  <2> HIDE DEF D, a, b, G, z, l
  <2>3. a \in Int
    BY <2>1 DEF Same
  <2>4. Same(D * a + s * (D * b), D * z + F * (D * G), Q)
    BY <1>3, <2>1, RowSwitched
  <2>5. D * z \in Int /\ -(MaxError * l) <= D * z /\ D * z <= MaxError * l
    BY <1>3, <2>1, DigitError
  <2>6. D * a \in Int /\ D * b \in Int /\ D * G \in Int
    BY <2>1, <2>3
  <2> QED
    BY <2>1, <2>2, <2>4, <2>5, <2>6 DEF l
<1> DEFINE A == SumOf(f0, n)
           C == SumOf(f1, n)
           E == SumOf(u, n)
           V == SumOf(v, n)
<1>11. A \in Int /\ C \in Int /\ E \in Int /\ V \in Int
  BY <1>1, <1>10, SumOfInt
<1>12. SumOf(h, n) = 1 * A + s * C
  <2>1. Combined(h, 1, f0, s, f1, n) /\ 1 \in Int /\ s \in Int /\ n \in Nat
    BY <1>1, <1>10 DEF Combined
  <2> QED
    BY ONLY <2>1, SumOfLinear
<1>13. SumOf(w, n) = 1 * E + F * V
  <2>1. Combined(w, 1, u, F, v, n) /\ 1 \in Int /\ F \in Int /\ n \in Nat
    BY <1>1, <1>10 DEF Combined
  <2> QED
    BY ONLY <2>1, SumOfLinear
<1>14. Same(SumOf(h, n), SumOf(w, n), Q)
  BY <1>1, <1>3, <1>10, SumOfSame
<1>15. KeyNoise(k) \in Nat /\ -KeyNoise(k) <= E /\ E <= KeyNoise(k)
  BY <1>1, <1>10, NoiseOfDigits
<1>16. Same(V, p, q)
  BY <1>5 DEF v
<1> HIDE DEF A, C, E, V
<1>17. Same(F * V, (R * x) * p, Q)
  <2>1. p \in Int
    BY <1>3
  <2> QED
    BY <1>2, <1>3, <1>4, <1>16, <2>1, ScaledUp
<1> DEFINE X == (R * x) * p
           Y == F * V
           a == A % Q
           b == C % Q
<1>18. X \in Int /\ Y \in Int /\ Same(Y, X, Q)
  BY <1>17 DEF Same
<1>19. /\ a \in Int /\ b \in Int /\ 0 <= a /\ a < Q /\ 0 <= b /\ b < Q /\ Same(a, A, Q) /\ Same(b, C, Q)
  BY <1>3, <1>11, Remainder, SameMod
<1> HIDE DEF X, Y, a, b
<1>20. Same(A + s * C, E + Y, Q)
  BY <1>11, <1>12, <1>13, <1>14 DEF Y
<1>21. Same(E + Y, E + X, Q)
  BY <1>3, <1>11, <1>18, SameReflexive, SameAdd
<1>22. Same(a + b * s, A + s * C, Q)
  <2> DEFINE y == b * s
             z == s * C
  <2>1. Q \in Int
    BY <1>3
  <2>2. Same(s * b, s * C, Q)
    BY ONLY s \in Int, <1>19, <2>1, SameScaled
  <2>3. s * b = y
    BY <1>19
  <2>4. Same(y, z, Q)
    BY <2>2, <2>3
  <2> HIDE DEF y, z
  <2>5. Same(a + y, A + z, Q)
    BY ONLY <1>19, <2>1, <2>4, SameAdd
  <2> QED
    BY <2>5 DEF y, z
<1>23. Same(a + b * s, E + X, Q)
  BY <1>3, <1>20, <1>21, <1>22, SameTransitive
<1>24. KeySwitch(k, p)[1] = a /\ KeySwitch(k, p)[2] = b
  BY <1>7 DEF a, b, A, C
<1>25. \A j \in 1 .. 2 : KeySwitch(k, p)[j] \in 0 .. Q - 1
  <2>1. a \in 0 .. Q - 1 /\ b \in 0 .. Q - 1 /\ \A j \in 1 .. 2 : j = 1 \/ j = 2
    BY <1>3, <1>19
  <2> QED
    BY <1>24, <2>1
<1>26. Same(KeySwitch(k, p)[1] + KeySwitch(k, p)[2] * s, E + X, Q)
  BY <1>23, <1>24
<1> QED
  BY <1>11, <1>15, <1>25, <1>26 DEF X, R, Q, q, cl, kl

(* One modulus taken off, with rounding. *)
StepDown(y, l) ==
    ((y + SwitchModuli[Len(SwitchModuli) - l + 1] \div 2) \div SwitchModuli[Len(SwitchModuli) - l + 1])
        % ModulusAt[l]

Lowering(f, x, from, to) ==
    f = [l \in from .. to |-> IF l = from THEN x ELSE StepDown(f[l - 1], l)]

LEMMA StepDownIs ==
    ASSUME NEW l \in SwitchLevels, l - 1 \in SwitchLevels, NEW y \in Int
    PROVE  /\ StepDown(y, l) \in 0 .. ModulusAt[l] - 1
           /\ \E q \in Nat, e \in Int :
                 /\ q >= 2 /\ ModulusAt[l - 1] = q * ModulusAt[l]
                 /\ -(q \div 2) <= e /\ e <= q \div 2
                 /\ Same(q * StepDown(y, l), y + e, ModulusAt[l - 1])
<1> DEFINE q == SwitchModuli[Len(SwitchModuli) - l + 1]
           H == ModulusAt[l]
           Q == ModulusAt[l - 1]
           h == q \div 2
           v == y + h
           d == v \div q
           r == v % q
           z == d % H
           e == h - r
<1>1. q \in Nat \ {0} /\ q >= 2 /\ Q = q * H /\ H \in Nat \ {0}
  BY NextModulus, LevelIs
<1>2. StepDown(y, l) = z
  BY DEF StepDown
<1> HIDE DEF q, H, Q
<1>3. h \in Int /\ 2 * h <= q /\ q <= 2 * h + 1
  BY <1>1
<1> HIDE DEF h
<1>4. v \in Int /\ v = y + h
  BY <1>3
<1> HIDE DEF v
<1>5. r \in Int /\ d \in Int /\ 0 <= r /\ r < q /\ v = d * q + r
  BY <1>1, <1>4, Remainder
<1> HIDE DEF r, d
<1>6. z \in Int /\ 0 <= z /\ z < H /\ Same(z, d, H)
  BY <1>1, <1>5, Remainder, SameMod
<1> HIDE DEF z
<1>7. e \in Int /\ -h <= e /\ e <= h /\ q * d = y + e
  <2>1. q * d = d * q /\ d * q \in Int
    BY <1>1, <1>5
  <2> QED
    BY <1>1, <1>3, <1>4, <1>5, <2>1
<1> HIDE DEF e
<1>8. Same(q * z, q * d, Q)
  <2>1. PICK k \in Int : z = d + k * H
    BY <1>6 DEF Same
  <2>2. q * z = q * d + k * Q /\ q * z \in Int /\ q * d \in Int /\ Q \in Int
    <3>1. q * (d + k * H) = q * d + k * (q * H)
      BY <1>1, <1>5
    <3> QED
      BY <1>1, <1>5, <1>6, <2>1, <3>1
  <2> DEFINE a == q * z
             b == q * d
  <2>3. a \in Int /\ b \in Int /\ k \in Int /\ Q \in Int /\ a = b + k * Q
    BY <2>2
  <2> HIDE DEF a, b
  <2>4. Same(a, b, Q)
    BY ONLY <2>3, IsSame
  <2> QED
    BY <2>4 DEF a, b
<1>9. Same(q * StepDown(y, l), y + e, Q)
  BY <1>2, <1>7, <1>8
<1>10. StepDown(y, l) \in 0 .. H - 1
  BY <1>1, <1>2, <1>6
<1>11. -(q \div 2) <= e /\ e <= q \div 2
  BY <1>7 DEF h
<1> QED
  BY <1>1, <1>7, <1>9, <1>10, <1>11 DEF Q, H

LEMMA LevelsBetween ==
    ASSUME NEW from \in SwitchLevels, NEW to \in SwitchLevels, from <= to
    PROVE  /\ from \in Nat /\ to \in Nat /\ to - from \in Nat
           /\ \A l \in from .. to : l \in SwitchLevels /\ l \in Int
           /\ \A l \in from .. to : l # from => l - 1 \in SwitchLevels /\ l - 1 \in from .. to
<1> DEFINE n == Len(SwitchModuli)
<1>1. n \in Nat /\ SwitchLevels = 0 .. n - 1
  BY LevelIs DEF SwitchLevels
<1> HIDE DEF n
<1> QED
  BY <1>1

LEMMA LoweringExists ==
    ASSUME NEW from \in SwitchLevels, NEW to \in SwitchLevels, from <= to, NEW x \in Int
    PROVE  \E f : Lowering(f, x, from, to)
<1> DEFINE M == to - from
           step == [z \in (1 .. M) \X Int |-> StepDown(z[2], from + z[1])]
<1>1. /\ from \in Int /\ to \in Int /\ M \in Nat
      /\ \A l \in from .. to : l \in SwitchLevels /\ l \in Int
      /\ \A l \in from .. to : l # from => l - 1 \in SwitchLevels /\ l - 1 \in from .. to
  BY LevelsBetween
<1>2. ASSUME NEW k \in 1 .. M, NEW y \in Int PROVE StepDown(y, from + k) \in Int
  <2> DEFINE l == from + k
  <2>1. l \in from .. to /\ l # from
    BY <1>1
  <2>2. l \in SwitchLevels /\ l - 1 \in SwitchLevels
    BY <1>1, <2>1
  <2> HIDE DEF l
  <2>3. StepDown(y, l) \in 0 .. ModulusAt[l] - 1 /\ ModulusAt[l] \in Nat \ {0}
    BY <2>2, StepDownIs, LevelIs
  <2>4. StepDown(y, l) \in Int
    BY <2>3
  <2> QED
    BY <2>4 DEF l
<1>3. step \in [(1 .. M) \X Int -> Int] /\ \A k \in 1 .. M, y \in Int : step[<< k, y >>] = StepDown(y, from + k)
  BY <1>2
<1> HIDE DEF step
<1>4. PICK g \in [0 .. M -> Int] : Steps(g, M, x, step)
  BY <1>1, <1>3, RecursionExists
<1>5. g[0] = x /\ \A k \in 1 .. M : g[k] = StepDown(g[k - 1], from + k)
  <2>1. \A k \in 1 .. M : k - 1 \in 0 .. M /\ g[k - 1] \in Int
    BY <1>1, <1>4
  <2> QED
    BY <1>3, <1>4, <2>1 DEF Steps
<1> DEFINE f == [l \in from .. to |-> g[l - from]]
<1>6. \A l \in from .. to : f[l] = IF l = from THEN x ELSE StepDown(f[l - 1], l)
  <2> TAKE l \in from .. to
  <2>1. CASE l = from
    BY <1>1, <1>5, <2>1
  <2>2. CASE l # from
    <3> DEFINE k == l - from
    <3>1. k \in 1 .. M /\ from + k = l /\ l - 1 \in from .. to /\ (l - 1) - from = k - 1
      BY <1>1, <2>2
    <3>2. f[l] = g[k] /\ f[l - 1] = g[k - 1]
      BY <3>1
    <3> HIDE DEF f, k
    <3> QED
      BY <1>5, <2>2, <3>1, <3>2
  <2> QED
    BY <2>1, <2>2
<1>7. f = [l \in from .. to |-> f[l]]
  OBVIOUS
<1> HIDE DEF f
<1>8. Lowering(f, x, from, to)
  BY <1>6, <1>7 DEF Lowering
<1> QED
  BY <1>8

LEMMA BroughtDownIs ==
    ASSUME NEW from \in SwitchLevels, NEW to \in SwitchLevels, from <= to, NEW x \in Int
    PROVE  \E f : Lowering(f, x, from, to) /\ BroughtDown(x, from, to) = f[to]
<1> DEFINE f == CHOOSE f : Lowering(f, x, from, to)
<1>1. Lowering(f, x, from, to)
  BY LoweringExists
<1>2. BroughtDown(x, from, to) = f[to]
  BY DEF BroughtDown, Lowering, StepDown
<1> HIDE DEF f
<1> QED
  BY <1>1, <1>2

(* What is left of x when the moduli of Q that H does not have are taken   *)
(* off: x divided by them, but for an error smaller than one.              *)
LoweredBy(Q, H, x, y) ==
    \E R \in Nat \ {0}, d \in Int :
        Q = R * H /\ -(R - 1) <= d /\ d <= R - 1 /\ Same(R * y, x + d, Q)

(* One level further down: the moduli taken off so far are R, with the     *)
(* rounding errors d.                                                      *)
RoundedOnce(Q, R, H, q, J, x, y, d, z, e) ==
    /\ Q \in Nat \ {0} /\ R \in Nat \ {0} /\ H \in Nat \ {0} /\ Q = R * H
    /\ q \in Nat /\ q >= 2 /\ J \in Nat \ {0} /\ H = q * J
    /\ x \in Int /\ y \in Int /\ d \in Int /\ -(R - 1) <= d /\ d <= R - 1 /\ Same(R * y, x + d, Q)
    /\ z \in Int /\ e \in Int /\ -(q \div 2) <= e /\ e <= q \div 2 /\ Same(q * z, y + e, H)

LEMMA OneFurther ==
    ASSUME NEW Q, NEW R, NEW H, NEW q, NEW J, NEW x, NEW y, NEW d, NEW z, NEW e,
           RoundedOnce(Q, R, H, q, J, x, y, d, z, e)
    PROVE  LoweredBy(Q, J, x, z)
<1> SUFFICES ASSUME Q \in Nat \ {0}, R \in Nat \ {0}, H \in Nat \ {0}, Q = R * H,
                    q \in Nat, q >= 2, J \in Nat \ {0}, H = q * J,
                    x \in Int, y \in Int, d \in Int, -(R - 1) <= d, d <= R - 1, Same(R * y, x + d, Q),
                    z \in Int, e \in Int, -(q \div 2) <= e, e <= q \div 2, Same(q * z, y + e, H)
             PROVE  LoweredBy(Q, J, x, z)
  BY DEF RoundedOnce
<1> DEFINE g == d + R * e
           h == q \div 2
           T == R * q
           a == R * e
           Rh == R * h
<1>1. h \in Nat /\ h + 1 <= q
  BY DEF h
<1> HIDE DEF h
<1>2. T \in Nat \ {0} /\ a \in Int /\ Rh \in Int /\ Rh + R <= T /\ -Rh <= a /\ a <= Rh
  <2>1. R * (q - h - 1) >= 0 /\ R * (h - e) >= 0 /\ R * (h + e) >= 0
    <3>1. q - h - 1 \in Nat /\ h - e \in Nat /\ h + e \in Nat
      BY <1>1 DEF h
    <3> QED
      BY <3>1
  <2>2. R * (q - h - 1) = T - Rh - R /\ R * (h - e) = Rh - a /\ R * (h + e) = Rh + a
    BY <1>1
  <2>3. T \in Int /\ a \in Int /\ Rh \in Int /\ Rh >= 0
    BY <1>1
  <2>4. T \in Nat \ {0}
    BY <1>1, <2>1, <2>2, <2>3
  <2> QED
    BY <2>1, <2>2, <2>3, <2>4
<1> HIDE DEF a, T, Rh
<1>3. g \in Int /\ g = d + a /\ -(T - 1) <= g /\ g <= T - 1
  BY <1>2 DEF a
<1> HIDE DEF g
<1>4. Q = T * J
  BY DEF T
<1>5. Same(R * (q * z), R * (y + e), Q)
  <2>1. PICK k \in Int : q * z = (y + e) + k * H
    BY DEF Same
  <2> DEFINE u == q * z
             v == y + e
             A == R * u
             C == R * v
  <2>2. u \in Int /\ v \in Int /\ u = v + k * H
    BY <2>1
  <2> HIDE DEF u, v
  <2>3. A = C + k * Q /\ A \in Int /\ C \in Int
    <3>1. R * (v + k * H) = R * v + k * (R * H)
      BY <2>2
    <3> QED
      BY <2>2, <3>1
  <2> HIDE DEF A, C
  <2>4. Same(A, C, Q)
    <3>1. Q \in Int /\ k \in Int
      OBVIOUS
    <3> QED
      BY ONLY <2>3, <3>1, IsSame
  <2> QED
    BY <2>4 DEF A, C, u, v
<1>6. R * (q * z) = T * z
  BY DEF T
<1>7. R * (y + e) = R * y + a /\ R * y \in Int
  BY DEF a
<1>8. Same(R * y + a, (x + d) + a, Q)
  <2>1. Same(a, a, Q) /\ Q \in Int
    BY <1>2, SameReflexive
  <2> QED
    BY <2>1, SameAdd
<1>9. (x + d) + a = x + g
  BY <1>2, <1>3
<1> DEFINE U == T * z
           V == R * (y + e)
           Z == x + g
<1>10. Same(U, V, Q) /\ Same(V, Z, Q) /\ Q \in Int
  BY <1>5, <1>6, <1>7, <1>8, <1>9
<1> HIDE DEF U, V, Z
<1>11. Same(U, Z, Q)
  BY <1>10, SameTransitive
<1>12. Same(T * z, x + g, Q)
  BY <1>11 DEF U, Z
<1> QED
  BY <1>2, <1>3, <1>4, <1>12 DEF LoweredBy

(* What is left at level l of x at level from. *)
Lowered(y, x, from, l) ==
    /\ y \in Int
    /\ LoweredBy(ModulusAt[from], ModulusAt[l], x, y)

LEMMA LoweredOnce ==
    ASSUME NEW from \in SwitchLevels, NEW l \in SwitchLevels, l - 1 \in SwitchLevels,
           NEW x \in Int, NEW y, Lowered(y, x, from, l - 1)
    PROVE  Lowered(StepDown(y, l), x, from, l)
<1> DEFINE Q == ModulusAt[from]
           H == ModulusAt[l - 1]
           J == ModulusAt[l]
           z == StepDown(y, l)
<1>1. Q \in Nat \ {0} /\ H \in Nat \ {0} /\ J \in Nat \ {0} /\ y \in Int
  BY LevelIs DEF Lowered
<1>2. PICK R \in Nat \ {0}, d \in Int : /\ Q = R * H /\ -(R - 1) <= d /\ d <= R - 1
                                        /\ Same(R * y, x + d, Q)
  BY DEF Lowered, LoweredBy
<1>3. z \in 0 .. J - 1
  BY <1>1, StepDownIs
<1>4. PICK q \in Nat, e \in Int : /\ q >= 2 /\ H = q * J /\ -(q \div 2) <= e /\ e <= q \div 2
                                  /\ Same(q * z, y + e, H)
  BY <1>1, StepDownIs
<1> HIDE DEF Q, H, J, z
<1>5. z \in Int
  BY <1>1, <1>3
<1>6. RoundedOnce(Q, R, H, q, J, x, y, d, z, e)
  BY ONLY R \in Nat \ {0}, d \in Int, q \in Nat, e \in Int, x \in Int, <1>1, <1>2, <1>4, <1>5 DEF RoundedOnce
<1>7. LoweredBy(Q, J, x, z)
  BY ONLY <1>6, OneFurther
<1> QED
  BY <1>5, <1>7 DEF Lowered, Q, J, z

LEMMA DownTo ==
    ASSUME NEW from \in SwitchLevels, NEW to \in SwitchLevels, from <= to,
           NEW x \in 0 .. ModulusAt[from] - 1
    PROVE  /\ BroughtDown(x, from, to) \in 0 .. ModulusAt[to] - 1
           /\ Lowered(BroughtDown(x, from, to), x, from, to)
<1>1. /\ from \in Nat /\ to \in Nat /\ to - from \in Nat
      /\ \A l \in from .. to : l \in SwitchLevels /\ l \in Int
      /\ \A l \in from .. to : l # from => l - 1 \in SwitchLevels /\ l - 1 \in from .. to
  BY LevelsBetween
<1>2. x \in Int /\ ModulusAt[from] \in Nat \ {0}
  BY LevelIs
<1>3. PICK f : Lowering(f, x, from, to) /\ BroughtDown(x, from, to) = f[to]
  BY <1>2, BroughtDownIs
<1>4. f[from] = x /\ \A l \in from .. to : l # from => f[l] = StepDown(f[l - 1], l)
  <2>1. f = [l \in from .. to |-> IF l = from THEN x ELSE StepDown(f[l - 1], l)]
    BY <1>3 DEF Lowering
  <2>2. from \in from .. to
    BY <1>1
  <2> QED
    BY ONLY <2>1, <2>2
<1> DEFINE M == to - from
           S == {j \in 0 .. M : f[from + j] \in 0 .. ModulusAt[from + j] - 1 /\ Lowered(f[from + j], x, from, from + j)}
<1>5. 0 \in S
  <2>1. from + 0 = from /\ 0 \in 0 .. M
    BY <1>1
  <2>2. Lowered(x, x, from, from)
    <3> DEFINE Q == ModulusAt[from]
    <3>1. Q \in Nat \ {0} /\ Q = 1 * Q /\ 1 \in Nat \ {0} /\ -(1 - 1) <= 0 /\ 0 <= 1 - 1 /\ 1 * x = x /\ x + 0 = x
          /\ 0 \in Int
      BY <1>2
    <3> HIDE DEF Q
    <3>2. Same(x, x, Q)
      BY <1>2, <3>1, SameReflexive
    <3>3. Same(1 * x, x + 0, Q)
      BY <3>1, <3>2
    <3> QED
      BY <1>2, <3>1, <3>3 DEF Lowered, LoweredBy, Q
  <2> QED
    BY <1>4, <2>1, <2>2
<1>6. ASSUME NEW j \in 0 .. M - 1, j \in S PROVE j + 1 \in S
  <2> DEFINE l == from + (j + 1)
             y == f[from + j]
  <2>1. l \in from .. to /\ l # from /\ l - 1 = from + j /\ j + 1 \in 0 .. M
    BY <1>1
  <2>2. l \in SwitchLevels /\ l - 1 \in SwitchLevels /\ f[l] = StepDown(y, l)
    <3>1. f[l] = StepDown(f[l - 1], l)
      BY <1>4, <2>1
    <3> QED
      BY <1>1, <2>1, <3>1
  <2>3. Lowered(y, x, from, l - 1)
    BY <1>6, <2>1
  <2> HIDE DEF y, l
  <2>4. y \in Int
    BY <2>3 DEF Lowered
  <2>5. Lowered(f[l], x, from, l)
    BY <1>2, <2>2, <2>3, LoweredOnce
  <2>6. f[l] \in 0 .. ModulusAt[l] - 1
    BY <2>2, <2>4, StepDownIs
  <2> QED
    BY <2>1, <2>5, <2>6 DEF l
<1> HIDE DEF S, M
<1>7. \A j \in 0 .. M : j \in S
  BY <1>1, <1>5, <1>6, InductionUpTo DEF M
<1>8. M \in 0 .. M /\ from + M = to
  BY <1>1 DEF M
<1> QED
  BY <1>3, <1>7, <1>8 DEF S

(* The numbers of a key switch whose parts are brought down. *)
BroughtValues(Q, R, H, s, x, p, y1, y2, z1, z2, d1, d2, E, K) ==
    /\ Q \in Nat \ {0} /\ R \in Nat \ {0} /\ H \in Nat \ {0} /\ Q = R * H
    /\ s \in Int /\ x \in Int /\ p \in Int /\ y1 \in Int /\ y2 \in Int /\ z1 \in Int /\ z2 \in Int
    /\ d1 \in Int /\ d2 \in Int /\ E \in Int /\ K \in Nat
    /\ -(R - 1) <= d1 /\ d1 <= R - 1 /\ -(R - 1) <= d2 /\ d2 <= R - 1 /\ -K <= E /\ E <= K
    /\ Same(R * y1, z1 + d1, Q) /\ Same(R * y2, z2 + d2, Q)
    /\ Same(z1 + z2 * s, E + (R * x) * p, Q)

BroughtClose(H, s, m, y1, y2, b) ==
    \E D \in Int : -b <= D /\ D <= b /\ Same(y1 + y2 * s, m + D, H)

LEMMA TimesAbs ==
    ASSUME NEW s \in Int, NEW r \in Nat, NEW d \in Int, -r <= d, d <= r
    PROVE  /\ SwitchAbs(s) \in Nat /\ s * d \in Int /\ SwitchAbs(s) * r \in Int
           /\ -(SwitchAbs(s) * r) <= s * d /\ s * d <= SwitchAbs(s) * r
<1> DEFINE a == SwitchAbs(s)
<1>1. a \in Nat /\ (s = a \/ s = -a)
  BY DEF SwitchAbs
<1> HIDE DEF a
<1>2. a * (r - d) >= 0 /\ a * (r + d) >= 0
  <2>1. r - d \in Nat /\ r + d \in Nat
    OBVIOUS
  <2> QED
    BY <1>1, <2>1
<1>3. a * (r - d) = a * r - a * d /\ a * (r + d) = a * r + a * d /\ a * r \in Int /\ a * d \in Int
  BY <1>1
<1>4. s * d \in Int /\ (s * d = a * d \/ s * d = -(a * d))
  BY <1>1
<1> QED
  BY <1>1, <1>2, <1>3, <1>4 DEF a

LEMMA BroughtIsClose ==
    ASSUME NEW Q, NEW R, NEW H, NEW s, NEW x, NEW p, NEW y1, NEW y2, NEW z1, NEW z2, NEW d1, NEW d2, NEW E, NEW K,
           BroughtValues(Q, R, H, s, x, p, y1, y2, z1, z2, d1, d2, E, K)
    PROVE  /\ BroughtClose(H, s, x * p, y1, y2, (K * H) \div Q + 2 + SwitchAbs(s))
           /\ H = Q => BroughtClose(H, s, x * p, y1, y2, K)
<1>1. /\ Q \in Nat \ {0} /\ R \in Nat \ {0} /\ H \in Nat \ {0} /\ Q = R * H
      /\ s \in Int /\ x \in Int /\ p \in Int /\ y1 \in Int /\ y2 \in Int /\ z1 \in Int /\ z2 \in Int
      /\ d1 \in Int /\ d2 \in Int /\ E \in Int /\ K \in Nat
      /\ -(R - 1) <= d1 /\ d1 <= R - 1 /\ -(R - 1) <= d2 /\ d2 <= R - 1 /\ -K <= E /\ E <= K
  BY DEF BroughtValues
<1>2. Same(R * y1, z1 + d1, Q) /\ Same(R * y2, z2 + d2, Q) /\ Same(z1 + z2 * s, E + (R * x) * p, Q)
  BY DEF BroughtValues
<1> DEFINE m == x * p
           y == y1 + y2 * s
           G == E + d1 + s * d2
           a == SwitchAbs(s)
           r == R - 1
           sd == s * d2
           ar == a * r
<1>3. a \in Nat /\ sd \in Int /\ ar \in Int /\ -ar <= sd /\ sd <= ar
  <2>1. r \in Nat /\ -r <= d2 /\ d2 <= r
    BY <1>1
  <2> HIDE DEF r
  <2> QED
    BY <1>1, <2>1, TimesAbs
<1>4. m \in Int /\ y \in Int /\ G \in Int /\ G = E + d1 + sd
  BY <1>1
<1>5. PICK i \in Int : R * y1 = z1 + d1 + i * Q
  BY <1>2 DEF Same
<1>6. PICK j \in Int : R * y2 = z2 + d2 + j * Q
  BY <1>2 DEF Same
<1>7. PICK k \in Int : z1 + z2 * s = E + (R * x) * p + k * Q
  BY <1>2 DEF Same
<1> DEFINE l == i + s * j + k
           D == y - m - l * H
<1>8. l \in Int /\ l * H \in Int /\ l * Q \in Int /\ D \in Int
  <2>1. l \in Int
    BY <1>1
  <2> HIDE DEF l
  <2> QED
    BY <1>1, <1>4, <2>1
<1>9. R * D = G
  <2>1. R * y = R * y1 + s * (R * y2)
    BY <1>1
  <2>2. s * (R * y2) = s * z2 + s * d2 + (s * j) * Q
    <3>1. s * (z2 + d2 + j * Q) = s * z2 + s * d2 + (s * j) * Q
      BY <1>1
    <3> QED
      BY <1>6, <3>1
  <2>3. R * y = z1 + d1 + i * Q + s * z2 + s * d2 + (s * j) * Q
    <3>1. /\ R * y1 \in Int /\ s * (R * y2) \in Int /\ i * Q \in Int /\ s * z2 \in Int /\ s * d2 \in Int
          /\ (s * j) * Q \in Int
      BY <1>1
    <3> QED
      BY ONLY <1>1, <1>5, <2>1, <2>2, <3>1
  <2>4. s * z2 = z2 * s /\ (R * x) * p = R * m /\ R * m \in Int /\ z2 * s \in Int /\ s * z2 \in Int
    BY <1>1
  <2>5. R * y = E + R * m + d1 + s * d2 + (i * Q + (s * j) * Q + k * Q)
    <3>1. i * Q \in Int /\ (s * j) * Q \in Int /\ k * Q \in Int /\ R * y \in Int /\ s * d2 \in Int
      BY <1>1, <1>4
    <3>2. z1 + s * z2 = E + R * m + k * Q
      BY ONLY <1>1, <1>7, <2>4, <3>1
    <3> HIDE DEF m, y
    <3> QED
      BY ONLY <1>1, <2>3, <2>4, <3>1, <3>2
  <2>6. i * Q + (s * j) * Q + k * Q = l * Q
    BY <1>1
  <2>7. R * D = R * y - R * m - l * Q
    <3>1. R * (l * H) = l * Q
      <4> HIDE DEF l
      <4>1. R * (l * H) = l * (R * H)
        BY <1>1, <1>8
      <4> QED
        BY <1>1, <4>1
    <3>2. R * D = R * y - R * m - R * (l * H)
      <4> DEFINE o == l * H
      <4>1. o \in Int /\ D = y - m - o
        BY <1>8
      <4> HIDE DEF o, y, m, D
      <4>2. R * D = R * y - R * m - R * o
        BY <1>1, <1>4, <4>1
      <4> QED
        BY <4>2 DEF o
    <3> QED
      BY <3>1, <3>2
  <2> DEFINE Ry == R * y
             Rm == R * m
             lQ == l * Q
  <2>8. Ry \in Int /\ Rm \in Int /\ lQ \in Int /\ Ry = E + Rm + d1 + sd + lQ /\ R * D = Ry - Rm - lQ
    BY <1>1, <1>4, <1>8, <2>4, <2>5, <2>6, <2>7
  <2> HIDE DEF Ry, Rm, lQ, sd
  <2> QED
    BY <1>1, <1>3, <1>4, <2>8
<1>10. Same(y, m + D, H)
  <2>1. y = (m + D) + l * H /\ m + D \in Int
    BY <1>4, <1>8
  <2> HIDE DEF y, D, l
  <2> QED
    BY <1>4, <1>8, <2>1 DEF Same
<1> HIDE DEF m, y, G, D, l, sd, a, ar
<1>11. ASSUME H = Q PROVE BroughtClose(H, s, x * p, y1, y2, K)
  <2>1. R = 1
    <3>1. (R - 1) * H = R * H - H /\ R * H \in Int /\ R - 1 \in Int
      BY <1>1
    <3>2. -H < (R - 1) * H /\ (R - 1) * H < H
      BY <1>1, <1>11, <3>1
    <3>3. R - 1 = 0
      BY <1>1, <3>1, <3>2, SmallMultiple
    <3> QED
      BY <1>1, <3>3
  <2>2. r = 0 /\ ar = 0
    BY <1>3, <2>1 DEF ar
  <2>3. D = E
    <3>1. R * D = D
      BY <1>8, <2>1
    <3> QED
      BY <1>1, <1>3, <1>4, <1>9, <2>1, <2>2, <3>1
  <2> QED
    BY <1>1, <1>8, <1>10, <2>3 DEF BroughtClose, m, y
<1>12. BroughtClose(H, s, x * p, y1, y2, (K * H) \div Q + 2 + a)
  <2> DEFINE V == (K * H) \div Q
             J == (V + 2 + a)
             RV == R * V
             Ra == R * a
  <2>1. V \in Int /\ K < RV + R /\ RV \in Int
    <3>1. /\ K * H \in Int /\ K * H = V * Q + ((K * H) % Q) /\ (K * H) % Q < Q /\ V \in Int
          /\ (K * H) % Q \in Int
      <4>1. K * H \in Int
        BY <1>1
      <4> QED
        BY <1>1, <4>1, Remainder
    <3> HIDE DEF V
    <3>2. V * Q = (R * V) * H /\ R * V \in Int /\ (R * V) * H \in Int
      BY <1>1, <3>1
    <3>3. K * H < (R * V) * H + R * H
      BY <1>1, <3>1, <3>2
    <3> DEFINE w == R * V + R - K
    <3>4. w \in Int /\ w * H = (R * V) * H + R * H - K * H
      <4>1. w \in Int
        BY <1>1, <3>2
      <4>2. w * H = (R * V) * H + R * H - K * H
        <5> DEFINE u == R * V
        <5>1. (u + R - K) * H = u * H + R * H - K * H
          <6>1. u \in Int
            BY <3>2
          <6> HIDE DEF u
          <6> QED
            BY <1>1, <6>1
        <5> QED
          BY <5>1
      <4> QED
        BY <4>1, <4>2
    <3>5. w * H > 0
      <4> HIDE DEF w
      <4> DEFINE A == (R * V) * H
                 C == R * H
                 F == K * H
      <4>1. A \in Int /\ C \in Int /\ F \in Int /\ F < A + C /\ w * H = A + C - F
        BY <1>1, <3>1, <3>2, <3>3, <3>4
      <4> HIDE DEF A, C, F
      <4> QED
        BY <4>1
    <3>6. w >= 1
      <4> HIDE DEF w
      <4> QED
        BY <1>1, <3>4, <3>5, Positive
    <3> QED
      BY <1>1, <3>1, <3>2, <3>6
  <2> HIDE DEF V
  <2>2. Ra \in Int /\ ar = Ra - a
    BY <1>1, <1>3 DEF ar
  <2>3. J \in Int /\ R * (J - D) = RV + 2 * R + Ra - G /\ R * (J + D) = RV + 2 * R + Ra + G
    <3>1. R * (J - D) = R * V + R * 2 + R * a - R * D /\ R * (J + D) = R * V + R * 2 + R * a + R * D /\ J \in Int
      BY <1>1, <1>3, <1>8, <2>1
    <3> QED
      BY <1>1, <1>9, <3>1
  <2> HIDE DEF RV, Ra
  <2>4. RV + 2 * R + Ra - G > 0 /\ RV + 2 * R + Ra + G > 0
    BY <1>1, <1>3, <1>4, <2>1, <2>2
  <2>5. J - D >= 1 /\ J + D >= 1
    <3> DEFINE A == J - D
               C == J + D
    <3>1. A \in Int /\ C \in Int /\ A * R > 0 /\ C * R > 0
      <4>1. A \in Int /\ C \in Int
        BY <1>8, <2>3
      <4>2. A * R = R * A /\ C * R = R * C
        <5> HIDE DEF A, C
        <5> QED
          BY <1>1, <4>1
      <4> QED
        BY <2>3, <2>4, <4>1, <4>2
    <3> HIDE DEF A, C
    <3>2. A >= 1 /\ C >= 1
      BY <1>1, <3>1, Positive
    <3> QED
      BY <3>2 DEF A, C
  <2>6. -J <= D /\ D <= J
    BY <1>8, <2>3, <2>5
  <2> QED
    BY <1>8, <1>10, <2>6 DEF BroughtClose, m, y, V
<1> QED
  BY <1>11, <1>12 DEF a

(* A secret at more moduli is scaled by the moduli that came on top.       *)
LEMMA UpIs ==
    ASSUME NEW cl \in SwitchLevels, NEW kl \in SwitchLevels, kl <= cl, NEW x \in Int
    PROVE  /\ SwitchedUp(x, cl, kl) \in Int
           /\ Same(SwitchedUp(x, cl, kl), (ModulusAt[kl] \div ModulusAt[cl]) * x, ModulusAt[kl])
<1> DEFINE Q == ModulusAt[kl]
           q == ModulusAt[cl]
           R == ModulusAt[kl] \div ModulusAt[cl]
           c == CenteredAt(x, cl)
           y == SwitchedUp(x, cl, kl)
<1>1. Q \in Nat \ {0} /\ q \in Nat \ {0}
  BY LevelIs
<1>2. R \in Nat \ {0} /\ Q = R * q
  BY LevelRatio
<1>3. c \in Int /\ Same(c, x, q)
  BY CenteredIs
<1>4. y = (c * R) % Q
  BY DEF SwitchedUp
<1> HIDE DEF Q, q, R, c, y
<1>5. PICK j \in Int : c = x + j * q
  BY <1>3 DEF Same
<1>6. c * R = R * x + j * Q /\ c * R \in Int /\ R * x \in Int
  <2> DEFINE a == j * q
  <2>1. a \in Int /\ a * R = j * (R * q) /\ c = x + a
    BY <1>1, <1>2, <1>5
  <2> HIDE DEF a
  <2>2. (x + a) * R = R * x + a * R /\ c * R \in Int /\ R * x \in Int
    BY <1>2, <1>3, <2>1
  <2> QED
    BY <1>2, <2>1, <2>2
<1> DEFINE z == c * R
           w == R * x
<1>7. z \in Int /\ w \in Int /\ z = w + j * Q /\ y = z % Q
  BY <1>4, <1>6
<1>8. Same(z, w, Q)
  <2> HIDE DEF z, w
  <2> QED
    BY <1>7 DEF Same
<1> HIDE DEF z
<1>9. y \in Int /\ Same(y, z, Q) /\ Q \in Int
  <2>1. Same(z % Q, z, Q)
    BY <1>1, <1>7, SameMod
  <2>2. Same(y, z, Q)
    BY <1>7, <2>1
  <2> QED
    BY <1>1, <2>2 DEF Same
<1>10. Same(y, w, Q)
  BY <1>8, <1>9, SameTransitive
<1> QED
  BY <1>9, <1>10 DEF y, w, Q, R

(* At the same level nothing is scaled.                                    *)
LEMMA UpNowhere ==
    ASSUME NEW l \in SwitchLevels, NEW x \in Int
    PROVE  /\ ModulusAt[l] \div ModulusAt[l] = 1
           /\ Same(x, (ModulusAt[l] \div ModulusAt[l]) * x, ModulusAt[l])
<1> DEFINE Q == ModulusAt[l]
<1>1. Q \in Nat \ {0}
  BY LevelIs
<1> HIDE DEF Q
<1>2. Q = 1 * Q + 0 /\ Q \in Int
  BY <1>1
<1>3. Q \div Q = 1
  BY <1>1, <1>2, QuotientUnique
<1>4. (Q \div Q) * x = x
  BY <1>3
<1>5. Same(x, x, Q)
  BY <1>2, SameReflexive
<1> QED
  BY <1>3, <1>4, <1>5 DEF Q

(* The bound on what a key switch adds, under the secret key s.            *)
PartsBound(k, s) ==
    IF k.kskLevel = k.ctLevel THEN KeyNoise(k)
    ELSE (KeyNoise(k) * ModulusAt[k.ctLevel]) \div ModulusAt[k.kskLevel] + 2 + SwitchAbs(s)

(* Of numbers lowered by a ratio, the ratio is the quotient.               *)
LEMMA LoweredByRatio ==
    ASSUME NEW Q \in Nat \ {0}, NEW H \in Nat \ {0}, NEW x, NEW y, LoweredBy(Q, H, x, y)
    PROVE  LET R == Q \div H
           IN  /\ R \in Nat \ {0} /\ Q = R * H
               /\ \E d \in Int : -(R - 1) <= d /\ d <= R - 1 /\ Same(R * y, x + d, Q)
<1>1. PICK R \in Nat \ {0}, d \in Int : Q = R * H /\ -(R - 1) <= d /\ d <= R - 1 /\ Same(R * y, x + d, Q)
  BY DEF LoweredBy
<1>2. Q = R * H + 0 /\ Q \in Int /\ R \in Int /\ 0 \in Int /\ 0 <= 0 /\ 0 < H
  BY <1>1
<1>3. Q \div H = R
  BY ONLY <1>1, <1>2, Q \in Int, H \in Nat \ {0}, QuotientUnique
<1> QED
  BY <1>1, <1>3

LEMMA PartsSwitched ==
    ASSUME NEW k, NEW s \in Int, NEW x \in Int, GoodKey(k, s, x), NEW p \in 0 .. ModulusAt[k.ctLevel] - 1
    PROVE  /\ \A j \in 1 .. 2 : SwitchedParts(k, p)[j] \in Int
           /\ KeyNoise(k) \in Nat /\ PartsBound(k, s) \in Int
           /\ BroughtClose(ModulusAt[k.ctLevel], s, x * p, SwitchedParts(k, p)[1], SwitchedParts(k, p)[2],
                           PartsBound(k, s))
<1> DEFINE a == k.kskLevel
           l == k.ctLevel
           Q == ModulusAt[k.kskLevel]
           H == ModulusAt[k.ctLevel]
           R == Q \div H
           z(j) == KeySwitch(k, p)[j]
           y(j) == BroughtDown(KeySwitch(k, p)[j], k.kskLevel, k.ctLevel)
           K == KeyNoise(k)
<1>1. a \in SwitchLevels /\ l \in SwitchLevels /\ a <= l
  BY DEF GoodKey
<1>2. Q \in Nat \ {0} /\ H \in Nat \ {0}
  BY <1>1, LevelIs
<1>3. K \in Nat /\ (\A j \in 1 .. 2 : z(j) \in 0 .. Q - 1)
      /\ \E E \in Int : -K <= E /\ E <= K /\ Same(z(1) + z(2) * s, E + (R * x) * p, Q)
  BY KeySwitched
<1>4. ASSUME NEW j \in 1 .. 2
      PROVE  z(j) \in Int /\ y(j) \in 0 .. H - 1 /\ LoweredBy(Q, H, z(j), y(j))
  <2>1. z(j) \in 0 .. Q - 1
    BY <1>3
  <2> DEFINE u == z(j)
  <2>2. u \in 0 .. ModulusAt[a] - 1
    BY <2>1
  <2> HIDE DEF u, a, l
  <2>3. BroughtDown(u, a, l) \in 0 .. ModulusAt[l] - 1 /\ Lowered(BroughtDown(u, a, l), u, a, l)
    BY <1>1, <2>2, DownTo
  <2>4. LoweredBy(ModulusAt[a], ModulusAt[l], u, BroughtDown(u, a, l))
    BY <2>3 DEF Lowered
  <2>5. u \in Int
    BY <1>2, <2>2 DEF a
  <2> QED
    BY <2>3, <2>4, <2>5 DEF u, a, l
<1>5. 1 \in 1 .. 2 /\ 2 \in 1 .. 2
  OBVIOUS
<1> DEFINE z1 == z(1)
           z2 == z(2)
           y1 == y(1)
           y2 == y(2)
<1>6. /\ z1 \in Int /\ z2 \in Int /\ y1 \in Int /\ y2 \in Int /\ p \in Int
      /\ LoweredBy(Q, H, z1, y1) /\ LoweredBy(Q, H, z2, y2)
  <2>1. y(1) \in 0 .. H - 1 /\ y(2) \in 0 .. H - 1
    BY <1>4, <1>5
  <2>2. z1 \in Int /\ z2 \in Int /\ LoweredBy(Q, H, z1, y1) /\ LoweredBy(Q, H, z2, y2)
    BY <1>4, <1>5
  <2> QED
    BY <1>2, <2>1, <2>2
<1>7. PICK E \in Int : -K <= E /\ E <= K /\ Same(z1 + z2 * s, E + (R * x) * p, Q)
  BY <1>3
<1>8. /\ SwitchedParts(k, p)[1] = y1 /\ SwitchedParts(k, p)[2] = y2
      /\ PartsBound(k, s) = IF a = l THEN K ELSE (K * H) \div Q + 2 + SwitchAbs(s)
  BY DEF SwitchedParts, PartsBound
<1>9. a = l => H = Q
  OBVIOUS
<1> HIDE DEF Q, H, K, z1, z2, y1, y2, z, y, a, l
<1>10. R \in Nat \ {0} /\ Q = R * H
  BY <1>2, <1>6, LoweredByRatio
<1>11. PICK d1 \in Int : -(R - 1) <= d1 /\ d1 <= R - 1 /\ Same(R * y1, z1 + d1, Q)
  BY <1>2, <1>6, LoweredByRatio
<1>12. PICK d2 \in Int : -(R - 1) <= d2 /\ d2 <= R - 1 /\ Same(R * y2, z2 + d2, Q)
  BY <1>2, <1>6, LoweredByRatio
<1> HIDE DEF R
<1>13. BroughtValues(Q, R, H, s, x, p, y1, y2, z1, z2, d1, d2, E, K)
  BY <1>2, <1>3, <1>6, <1>7, <1>10, <1>11, <1>12 DEF BroughtValues
<1>14. /\ BroughtClose(H, s, x * p, y1, y2, (K * H) \div Q + 2 + SwitchAbs(s))
       /\ H = Q => BroughtClose(H, s, x * p, y1, y2, K)
  BY <1>13, BroughtIsClose
<1>15. BroughtClose(H, s, x * p, y1, y2, PartsBound(k, s))
  BY <1>8, <1>9, <1>14
<1>16. PartsBound(k, s) \in Int
  <2>1. SwitchAbs(s) \in Int
    BY DEF SwitchAbs
  <2>2. K * H \in Int
    BY <1>2, <1>3
  <2>3. (K * H) \div Q \in Int
    BY <1>2, <2>2, Remainder
  <2> QED
    BY <1>3, <1>8, <2>1, <2>3
<1> QED
  <2>1. \A j \in 1 .. 2 : SwitchedParts(k, p)[j] \in Int
    BY <1>6, <1>8
  <2>2. BroughtClose(H, s, x * p, SwitchedParts(k, p)[1], SwitchedParts(k, p)[2], PartsBound(k, s))
    BY <1>8, <1>15
  <2> QED
    BY <1>3, <1>16, <2>1, <2>2 DEF K, H

(* What is as close as b before reduction is as close as b after.          *)
CloseParts(u1, u2, o1, o2, s, t, D, b, Q) ==
    /\ u1 \in Int /\ u2 \in Int /\ s \in Int /\ t \in Int /\ D \in Int /\ b \in Int
    /\ o1 = u1 % Q /\ o2 = u2 % Q /\ -b <= D /\ D <= b /\ Same(u1 + u2 * s, t + D, Q)

LEMMA CloseTo ==
    ASSUME NEW l \in SwitchLevels, NEW u1, NEW u2, NEW o1, NEW o2, NEW s, NEW t, NEW D, NEW b,
           CloseParts(u1, u2, o1, o2, s, t, D, b, ModulusAt[l])
    PROVE  SwitchAbs(CenteredAt(o1 + o2 * s - t, l)) <= b
<1> DEFINE Q == ModulusAt[l]
<1>1. Q \in Nat \ {0} /\ Q \in Int
  BY LevelIs
<1>2. /\ u1 \in Int /\ u2 \in Int /\ s \in Int /\ t \in Int /\ D \in Int /\ b \in Int
      /\ o1 = u1 % Q /\ o2 = u2 % Q /\ -b <= D /\ D <= b /\ Same(u1 + u2 * s, t + D, Q)
  BY DEF CloseParts
<1> HIDE DEF Q
<1>3. Same(o1, u1, Q) /\ Same(o2, u2, Q)
  BY <1>1, <1>2, SameMod
<1>4. Same(s * o2, s * u2, Q)
  BY <1>1, <1>2, <1>3, SameScaled
<1>5. o1 \in Int /\ o2 \in Int
  BY <1>3 DEF Same
<1> DEFINE so == s * o2
           su == s * u2
<1>6. so \in Int /\ su \in Int /\ o2 * s = so /\ u2 * s = su
  BY <1>2, <1>5
<1>7. Same(so, su, Q)
  BY <1>4
<1> HIDE DEF so, su
<1>8. Same(o1 + so, u1 + su, Q)
  BY <1>1, <1>3, <1>7, SameAdd
<1>9. Same(u1 + su, t + D, Q)
  BY <1>2, <1>6
<1>10. Same(o1 + so, t + D, Q)
  BY <1>1, <1>8, <1>9, SameTransitive
<1> DEFINE m == -t
<1>11. Same(m, m, Q) /\ m \in Int
  <2>1. m \in Int
    BY <1>2
  <2> HIDE DEF m
  <2> QED
    BY <1>1, <2>1, SameReflexive
<1> DEFINE v == o1 + so
           w == t + D
<1>12. Same(v + m, w + m, Q)
  <2> HIDE DEF v, w, m
  <2>1. Same(v, w, Q)
    BY <1>10 DEF v, w
  <2> QED
    BY <1>1, <1>11, <2>1, SameAdd
<1>13. v + m = o1 + so - t /\ w + m = D
  BY <1>2, <1>5, <1>6
<1>14. Same(o1 + so - t, D, Q)
  BY <1>12, <1>13
<1> DEFINE x == o1 + so - t
<1>15. x \in Int
  BY <1>2, <1>5, <1>6
<1> HIDE DEF x
<1>16. Same(x, D, ModulusAt[l])
  BY <1>14 DEF x, Q
<1>17. SwitchAbs(CenteredAt(x, l)) <= SwitchAbs(D)
  BY <1>2, <1>15, <1>16, CenteredSmallest
<1>18. SwitchAbs(D) <= b /\ SwitchAbs(D) \in Int
  BY <1>2 DEF SwitchAbs
<1>19. CenteredAt(x, l) \in Int
  BY <1>15, CenteredIs
<1>20. SwitchAbs(CenteredAt(x, l)) \in Int
  BY <1>19 DEF SwitchAbs
<1>21. SwitchAbs(CenteredAt(x, l)) <= b
  <2> DEFINE A == SwitchAbs(CenteredAt(x, l))
  <2>1. A \in Int /\ A <= SwitchAbs(D)
    BY <1>17, <1>20
  <2> HIDE DEF A
  <2>2. A <= b
    BY <1>2, <1>18, <2>1
  <2> QED
    BY <2>2 DEF A
<1> QED
  BY <1>6, <1>21 DEF x

(* A relinearized ciphertext, under the secret key.                        *)
LEMMA RelinClose ==
    ASSUME NEW k, NEW s \in Int, GoodKey(k, s, s * s), NEW c \in [1 .. 3 -> 0 .. ModulusAt[k.ctLevel] - 1]
    PROVE  LET o == PartsSum(c, SwitchedParts(k, c[3]), k.ctLevel)
           IN  SwitchAbs(CenteredAt(o[1] + o[2] * s - (c[1] + c[2] * s + c[3] * s * s), k.ctLevel))
                  <= PartsBound(k, s)
<1> DEFINE l == k.ctLevel
           H == ModulusAt[k.ctLevel]
           p == c[3]
           y1 == SwitchedParts(k, c[3])[1]
           y2 == SwitchedParts(k, c[3])[2]
           x == s * s
           b == PartsBound(k, s)
           o1 == PartsSum(c, SwitchedParts(k, c[3]), k.ctLevel)[1]
           o2 == PartsSum(c, SwitchedParts(k, c[3]), k.ctLevel)[2]
           u1 == c[1] + y1
           u2 == c[2] + y2
           t == c[1] + c[2] * s + c[3] * s * s
<1>1. l \in SwitchLevels
  BY DEF GoodKey
<1>2. H \in Nat \ {0}
  BY <1>1, LevelIs
<1>3. p \in 0 .. ModulusAt[k.ctLevel] - 1 /\ c[1] \in 0 .. H - 1 /\ c[2] \in 0 .. H - 1 /\ x \in Int
  OBVIOUS
<1>4. p \in Int /\ c[1] \in Int /\ c[2] \in Int
  BY <1>2, <1>3
<1>5. GoodKey(k, s, x)
  OBVIOUS
<1>6. /\ y1 \in Int /\ y2 \in Int /\ b \in Int
      /\ BroughtClose(H, s, x * p, y1, y2, b)
  <2> HIDE DEF x, p
  <2>1. p = c[3]
    BY DEF p
  <2>2. /\ \A j \in 1 .. 2 : SwitchedParts(k, p)[j] \in Int
        /\ PartsBound(k, s) \in Int
        /\ BroughtClose(ModulusAt[k.ctLevel], s, x * p, SwitchedParts(k, p)[1], SwitchedParts(k, p)[2],
                        PartsBound(k, s))
    BY <1>3, <1>5, PartsSwitched
  <2> QED
    BY <2>1, <2>2
<1>7. o1 = u1 % H /\ o2 = u2 % H
  BY DEF PartsSum
<1> HIDE DEF H, o1, o2, y1, y2, b
<1>8. PICK D \in Int : -b <= D /\ D <= b /\ Same(y1 + y2 * s, x * p + D, H)
  BY <1>6 DEF BroughtClose
<1>9. Same(u1 + u2 * s, t + D, H) /\ u1 \in Int /\ u2 \in Int /\ t \in Int
  <2> DEFINE c1 == c[1]
             c2s == c[2] * s
             y2s == y2 * s
             xp == x * p
             v == c1 + c2s
  <2>1. c1 \in Int /\ c2s \in Int /\ y2s \in Int /\ xp \in Int /\ c[3] * s * s = xp
    BY <1>3, <1>4, <1>6
  <2>2. u2 * s = c2s + y2s /\ u1 = c1 + y1 /\ t = c1 + c2s + xp /\ u1 \in Int /\ u2 \in Int
    BY <1>4, <1>6, <2>1
  <2>3. Same(y1 + y2s, xp + D, H)
    BY <1>8
  <2> HIDE DEF c1, c2s, y2s, xp, u1, u2, t
  <2>4. v \in Int
    BY <2>1
  <2> HIDE DEF v
  <2>5. Same(v, v, H) /\ H \in Int
    BY <1>2, <2>4, SameReflexive
  <2>6. Same(v + (y1 + y2s), v + (xp + D), H)
    BY <2>3, <2>5, SameAdd
  <2>7. v + (y1 + y2s) = u1 + u2 * s /\ v + (xp + D) = t + D /\ t \in Int
    BY <1>6, <1>8, <2>1, <2>2 DEF v
  <2> QED
    BY <2>2, <2>6, <2>7
<1> HIDE DEF u1, u2, t
<1>10. CloseParts(u1, u2, o1, o2, s, t, D, b, H)
  BY <1>6, <1>7, <1>8, <1>9 DEF CloseParts
<1> HIDE DEF l
<1>11. CloseParts(u1, u2, o1, o2, s, t, D, b, ModulusAt[l])
  BY <1>10 DEF H, l
<1>12. SwitchAbs(CenteredAt(o1 + o2 * s - t, l)) <= b
  BY <1>1, <1>11, CloseTo
<1> QED
  BY <1>12 DEF o1, o2, t, b, l

(* A rotated ciphertext: its second part times the substituted secret.     *)
LEMMA RotateClose ==
    ASSUME NEW k, NEW s \in Int, NEW x \in Int, GoodKey(k, s, x), NEW c \in [1 .. 2 -> 0 .. ModulusAt[k.ctLevel] - 1]
    PROVE  LET o == PartsSum(<< c[1], 0 >>, SwitchedParts(k, c[2]), k.ctLevel)
           IN  SwitchAbs(CenteredAt(o[1] + o[2] * s - (c[1] + c[2] * x), k.ctLevel)) <= PartsBound(k, s)
<1> DEFINE l == k.ctLevel
           H == ModulusAt[k.ctLevel]
           p == c[2]
           y1 == SwitchedParts(k, c[2])[1]
           y2 == SwitchedParts(k, c[2])[2]
           b == PartsBound(k, s)
           o1 == PartsSum(<< c[1], 0 >>, SwitchedParts(k, c[2]), k.ctLevel)[1]
           o2 == PartsSum(<< c[1], 0 >>, SwitchedParts(k, c[2]), k.ctLevel)[2]
           u1 == c[1] + y1
           t == c[1] + c[2] * x
<1>1. l \in SwitchLevels
  BY DEF GoodKey
<1>2. H \in Nat \ {0}
  BY <1>1, LevelIs
<1>3. p \in 0 .. ModulusAt[k.ctLevel] - 1 /\ c[1] \in 0 .. H - 1
  OBVIOUS
<1>4. p \in Int /\ c[1] \in Int
  BY <1>2, <1>3
<1>6. /\ y1 \in Int /\ y2 \in Int /\ b \in Int
      /\ BroughtClose(H, s, x * p, y1, y2, b)
  <2> HIDE DEF p
  <2>1. p = c[2]
    BY DEF p
  <2>2. /\ \A j \in 1 .. 2 : SwitchedParts(k, p)[j] \in Int
        /\ PartsBound(k, s) \in Int
        /\ BroughtClose(ModulusAt[k.ctLevel], s, x * p, SwitchedParts(k, p)[1], SwitchedParts(k, p)[2],
                        PartsBound(k, s))
    BY <1>3, PartsSwitched
  <2> QED
    BY <2>1, <2>2
<1>7. o1 = u1 % H /\ o2 = y2 % H
  <2>1. o1 = u1 % H /\ o2 = (0 + y2) % H
    BY DEF PartsSum
  <2> HIDE DEF y2
  <2>2. 0 + y2 = y2
    BY <1>6
  <2> QED
    BY <2>1, <2>2
<1> HIDE DEF H, o1, o2, y1, y2, b
<1>8. PICK D \in Int : -b <= D /\ D <= b /\ Same(y1 + y2 * s, x * p + D, H)
  BY <1>6 DEF BroughtClose
<1>9. Same(u1 + y2 * s, t + D, H) /\ u1 \in Int /\ t \in Int
  <2> DEFINE v == c[1]
             y2s == y2 * s
             xp == x * p
  <2>1. v \in Int /\ y2s \in Int /\ xp \in Int /\ c[2] * x = xp /\ u1 = v + y1
    BY <1>4, <1>6
  <2>2. t = v + xp
    BY <2>1
  <2>3. Same(y1 + y2s, xp + D, H)
    BY <1>8
  <2> HIDE DEF y2s, xp, u1, t, v
  <2>5. Same(v, v, H) /\ H \in Int
    BY <1>2, <2>1, SameReflexive
  <2>6. Same(v + (y1 + y2s), v + (xp + D), H)
    BY <2>3, <2>5, SameAdd
  <2>7. v + (y1 + y2s) = u1 + y2s /\ v + (xp + D) = t + D /\ t \in Int /\ u1 \in Int
    BY <1>6, <1>8, <2>1, <2>2
  <2> QED
    BY <2>6, <2>7 DEF y2s
<1> HIDE DEF u1, t
<1>10. CloseParts(u1, y2, o1, o2, s, t, D, b, H)
  BY <1>6, <1>7, <1>8, <1>9 DEF CloseParts
<1> HIDE DEF l
<1>11. CloseParts(u1, y2, o1, o2, s, t, D, b, ModulusAt[l])
  BY <1>10 DEF H, l
<1>12. SwitchAbs(CenteredAt(o1 + o2 * s - t, l)) <= b
  BY <1>1, <1>11, CloseTo
<1> QED
  BY <1>12 DEF o1, o2, t, b, l

(* Keys with the same levels add the same noise.                           *)
LEMMA SameNoise ==
    ASSUME NEW k1, NEW k2, NEW s1, NEW s2, NEW x1, NEW x2, GoodKey(k1, s1, x1), GoodKey(k2, s2, x2),
           k1.ctLevel = k2.ctLevel, k1.kskLevel = k2.kskLevel
    PROVE  KeyNoise(k1) = KeyNoise(k2)
<1>1. /\ k1.logBase = k2.logBase /\ DOMAIN k1.c0 = DOMAIN k2.c0 /\ Len(k1.c0) = Len(k2.c0)
  BY DEF GoodKey
<1>2. \A i : LargestDigit(k1, i) = LargestDigit(k2, i)
  BY <1>1 DEF LargestDigit
<1>3. [i \in DOMAIN k1.c0 |-> LargestDigit(k1, i)] = [i \in DOMAIN k2.c0 |-> LargestDigit(k2, i)]
  BY <1>1, <1>2
<1> QED
  BY <1>1, <1>3 DEF KeyNoise

(* The product of two parts with an RGSW ciphertext of m.                  *)
LEMMA ProductClose ==
    ASSUME NEW k1, NEW k2, NEW s \in Int, NEW m \in Int, GoodKey(k1, s, m), GoodKey(k2, s, m * s),
           k1.ctLevel = k1.kskLevel, k2.ctLevel = k2.kskLevel, k1.ctLevel = k2.ctLevel,
           NEW c \in [1 .. 2 -> 0 .. ModulusAt[k1.ctLevel] - 1]
    PROVE  LET o == PartsSum(KeySwitch(k1, c[1]), KeySwitch(k2, c[2]), k1.ctLevel)
           IN  SwitchAbs(CenteredAt(o[1] + o[2] * s - m * (c[1] + c[2] * s), k1.ctLevel)) <= 2 * KeyNoise(k1)
<1> DEFINE l == k1.ctLevel
           H == ModulusAt[k1.ctLevel]
           K == KeyNoise(k1)
           c1 == c[1]
           c2 == c[2]
           x == m * s
           y1 == KeySwitch(k1, c[1])[1]
           y2 == KeySwitch(k1, c[1])[2]
           z1 == KeySwitch(k2, c[2])[1]
           z2 == KeySwitch(k2, c[2])[2]
           o1 == PartsSum(KeySwitch(k1, c[1]), KeySwitch(k2, c[2]), k1.ctLevel)[1]
           o2 == PartsSum(KeySwitch(k1, c[1]), KeySwitch(k2, c[2]), k1.ctLevel)[2]
           u1 == y1 + z1
           u2 == y2 + z2
           t == m * (c[1] + c[2] * s)
<1>1. l \in SwitchLevels
  BY DEF GoodKey
<1>2. H \in Nat \ {0} /\ H \div H = 1
  BY <1>1, LevelIs, UpNowhere
<1>3. c1 \in 0 .. ModulusAt[k1.ctLevel] - 1 /\ c2 \in 0 .. ModulusAt[k2.ctLevel] - 1 /\ x \in Int
  OBVIOUS
<1>4. c1 \in Int /\ c2 \in Int
  BY <1>2, <1>3
<1>5. GoodKey(k2, s, x) /\ KeyNoise(k2) = K
  BY SameNoise
<1>6. o1 = u1 % H /\ o2 = u2 % H
  BY DEF PartsSum
<1>7. /\ K \in Nat /\ (\A j \in 1 .. 2 : KeySwitch(k1, c1)[j] \in 0 .. H - 1)
      /\ \E E \in Int :
            -K <= E /\ E <= K /\ Same(KeySwitch(k1, c1)[1] + KeySwitch(k1, c1)[2] * s, E + ((H \div H) * m) * c1, H)
  <2> HIDE DEF c1
  <2>1. /\ KeyNoise(k1) \in Nat
        /\ \A j \in 1 .. 2 : KeySwitch(k1, c1)[j] \in 0 .. ModulusAt[k1.kskLevel] - 1
        /\ \E E \in Int :
              /\ -KeyNoise(k1) <= E /\ E <= KeyNoise(k1)
              /\ Same(KeySwitch(k1, c1)[1] + KeySwitch(k1, c1)[2] * s,
                      E + ((ModulusAt[k1.kskLevel] \div ModulusAt[k1.ctLevel]) * m) * c1, ModulusAt[k1.kskLevel])
    BY <1>3, KeySwitched
  <2>2. ModulusAt[k1.kskLevel] = H
    OBVIOUS
  <2> QED
    BY <2>1, <2>2
<1>8. /\ \A j \in 1 .. 2 : KeySwitch(k2, c2)[j] \in 0 .. H - 1
      /\ \E E \in Int :
            -K <= E /\ E <= K /\ Same(KeySwitch(k2, c2)[1] + KeySwitch(k2, c2)[2] * s, E + ((H \div H) * x) * c2, H)
  <2> HIDE DEF c2, x
  <2>1. /\ \A j \in 1 .. 2 : KeySwitch(k2, c2)[j] \in 0 .. ModulusAt[k2.kskLevel] - 1
        /\ \E E \in Int :
              /\ -KeyNoise(k2) <= E /\ E <= KeyNoise(k2)
              /\ Same(KeySwitch(k2, c2)[1] + KeySwitch(k2, c2)[2] * s,
                      E + ((ModulusAt[k2.kskLevel] \div ModulusAt[k2.ctLevel]) * x) * c2, ModulusAt[k2.kskLevel])
    BY <1>3, <1>5, KeySwitched
  <2>2. ModulusAt[k2.kskLevel] = H /\ ModulusAt[k2.ctLevel] = H
    OBVIOUS
  <2> HIDE DEF H, K
  <2> QED
    BY <1>5, <2>1, <2>2
<1> DEFINE mc1 == m * c1
           xc2 == x * c2
<1>9. PICK E \in Int : -K <= E /\ E <= K /\ Same(y1 + y2 * s, E + mc1, H)
  <2>1. (H \div H) * m = m
    BY <1>2
  <2> QED
    BY <1>7, <2>1
<1>10. PICK G \in Int : -K <= G /\ G <= K /\ Same(z1 + z2 * s, G + xc2, H)
  <2>1. (H \div H) * x = x
    BY <1>2, <1>3
  <2> HIDE DEF x
  <2> QED
    BY <1>8, <2>1
<1>11. y1 \in Int /\ y2 \in Int /\ z1 \in Int /\ z2 \in Int
  <2>1. y1 \in 0 .. H - 1 /\ y2 \in 0 .. H - 1 /\ z1 \in 0 .. H - 1 /\ z2 \in 0 .. H - 1
    BY <1>7, <1>8
  <2> HIDE DEF H
  <2> QED
    BY <1>2, <2>1
<1> HIDE DEF H, K, y1, y2, z1, z2, o1, o2
<1> DEFINE D == E + G
           b == 2 * K
<1>12. Same(u1 + u2 * s, t + D, H) /\ u1 \in Int /\ u2 \in Int /\ t \in Int
  <2> DEFINE y2s == y2 * s
             z2s == z2 * s
  <2>1. y2s \in Int /\ z2s \in Int /\ mc1 \in Int /\ xc2 \in Int
    BY <1>3, <1>4, <1>11
  <2>2. t = mc1 + xc2
    <3>1. c2 * s \in Int /\ m * (c2 * s) = xc2
      BY <1>4
    <3> DEFINE cs == c2 * s
    <3>2. cs \in Int /\ m * cs = xc2 /\ t = m * (c1 + cs)
      BY <3>1
    <3> HIDE DEF cs, xc2, c1, t
    <3>3. t = m * c1 + m * cs
      BY <1>4, <3>2
    <3> QED
      BY <3>2, <3>3
  <2>3. u2 * s = y2s + z2s /\ u1 = y1 + z1 /\ u1 \in Int /\ u2 \in Int
    BY <1>11
  <2>4. Same(y1 + y2s, E + mc1, H) /\ Same(z1 + z2s, G + xc2, H) /\ H \in Int
    BY <1>2, <1>9, <1>10
  <2> HIDE DEF y2s, z2s, mc1, xc2, t, u1, u2
  <2>5. Same((y1 + y2s) + (z1 + z2s), (E + mc1) + (G + xc2), H)
    BY <2>4, SameAdd
  <2>6. (y1 + y2s) + (z1 + z2s) = u1 + u2 * s /\ (E + mc1) + (G + xc2) = t + D /\ t \in Int
    BY <1>11, <2>1, <2>2, <2>3
  <2> QED
    BY <2>3, <2>5, <2>6
<1> HIDE DEF u1, u2, t
<1>13. D \in Int /\ b \in Int /\ -b <= D /\ D <= b
  BY <1>7, <1>9, <1>10
<1> HIDE DEF D, b
<1>14. CloseParts(u1, u2, o1, o2, s, t, D, b, H)
  BY <1>6, <1>12, <1>13 DEF CloseParts
<1> HIDE DEF l
<1>15. CloseParts(u1, u2, o1, o2, s, t, D, b, ModulusAt[l])
  BY <1>14 DEF H, l
<1>16. SwitchAbs(CenteredAt(o1 + o2 * s - t, l)) <= b
  BY <1>1, <1>15, CloseTo
<1> QED
  BY <1>16 DEF o1, o2, t, b, K, l

(* The keys that have been made switch from what they should: from the     *)
(* square of the secret, from the substituted secret, or from the message  *)
(* and from its product with the secret.                                   *)
KeysMade(t) ==
    IF t.kind = "rgsw"
    THEN /\ DOMAIN t.keys = 1 .. 2 /\ GoodKey(t.keys[1], t.s, t.m) /\ GoodKey(t.keys[2], t.s, t.m * t.s)
         /\ t.keys[1].ctLevel = t.keys[1].kskLevel /\ t.keys[2].ctLevel = t.keys[2].kskLevel
         /\ t.keys[1].ctLevel = t.keys[2].ctLevel
    ELSE /\ DOMAIN t.keys = 1 .. 1
         /\ GoodKey(t.keys[1], t.s, IF t.kind = "relin" THEN t.s * t.s ELSE t.sub)

(* What comes out is as close as the bounds say.                           *)
OutClose(t) ==
    LET k == t.keys[1]
        c == t.ct
        far(x) == SwitchAbs(CenteredAt(t.out[1] + t.out[2] * t.s - x, k.ctLevel))
    IN  /\ t.kind = "relin" => far(c[1] + c[2] * t.s + c[3] * t.s * t.s) <= PartsBound(k, t.s)
        /\ t.kind = "galois" => far(c[1] + c[2] * t.sub) <= PartsBound(k, t.s)
        /\ t.kind = "rgsw" => far(t.m * (c[1] + c[2] * t.s)) <= 2 * KeyNoise(k)

SwitchShape(t) ==
    /\ t = [kind |-> t.kind, s |-> t.s, sub |-> t.sub, m |-> t.m, keys |-> t.keys, ct |-> t.ct, out |-> t.out]
    /\ t.kind \in {"relin", "galois", "rgsw"} /\ t.s \in Int /\ t.sub \in Int /\ t.m \in Int

SwitchHolds(t) ==
    /\ SwitchShape(t) /\ KeysMade(t)
    /\ t.ct # << >> =>
          t.ct \in [1 .. (IF t.kind = "relin" THEN 3 ELSE 2) -> 0 .. ModulusAt[t.keys[1].ctLevel] - 1]
    /\ t.ct = << >> => t.out = << >>
    /\ t.out # << >> => OutClose(t)

SwitchInv == switching # NoSwitch => SwitchHolds(switching)

(* What making keys leaves.                                                *)
LEMMA KeysHold ==
    ASSUME NEW kind \in {"relin", "galois", "rgsw"}, NEW sec \in SwitchSecrets, NEW m \in Int, NEW keys,
           KeysMade([kind |-> kind, s |-> sec.s, sub |-> sec.sub, m |-> m, keys |-> keys,
                     ct |-> << >>, out |-> << >>])
    PROVE  SwitchHolds([kind |-> kind, s |-> sec.s, sub |-> sec.sub, m |-> m, keys |-> keys,
                        ct |-> << >>, out |-> << >>])
<1> DEFINE t == [kind |-> kind, s |-> sec.s, sub |-> sec.sub, m |-> m, keys |-> keys,
                 ct |-> << >>, out |-> << >>]
<1>1. sec.s \in Int /\ sec.sub \in Int
  BY SwitchAssumption
<1>2. /\ t.kind = kind /\ t.s = sec.s /\ t.sub = sec.sub /\ t.m = m /\ t.keys = keys
      /\ t.ct = << >> /\ t.out = << >>
  OBVIOUS
<1>3. t = [kind |-> t.kind, s |-> t.s, sub |-> t.sub, m |-> t.m, keys |-> t.keys, ct |-> t.ct, out |-> t.out]
  OBVIOUS
<1>4. KeysMade(t)
  OBVIOUS
<1> HIDE DEF t
<1>5. SwitchHolds(t)
  BY <1>1, <1>2, <1>3, <1>4 DEF SwitchHolds, SwitchShape
<1> QED
  BY <1>5 DEF t

LEMMA RelinKeyHolds ==
    ASSUME NEW sec \in SwitchSecrets, NEW cl \in SwitchLevels, NEW kl \in SwitchLevels,
           NEW seed \in DOMAIN Expand, NEW e \in SwitchErrors, MakeRelinKey(sec, cl, kl, seed, e)
    PROVE  SwitchHolds(switching')
<1> DEFINE x == sec.s * sec.s
           key == NewKey(sec.s, SwitchedUp(sec.s * sec.s, cl, kl), cl, kl, seed, e)
           t == [kind |-> "relin", s |-> sec.s, sub |-> sec.sub, m |-> 0, keys |-> << key >>,
                 ct |-> << >>, out |-> << >>]
<1>1. sec.s \in Int /\ x \in Int /\ kl <= cl
  BY SwitchAssumption DEF MakeRelinKey
<1>2. switching' = t
  BY DEF MakeRelinKey, Keys
<1>3. GoodKey(key, sec.s, x)
  <2> DEFINE from == SwitchedUp(sec.s * sec.s, cl, kl)
             a == sec.s
  <2>1. from \in Int /\ Same(from, (ModulusAt[kl] \div ModulusAt[cl]) * x, ModulusAt[kl])
    <3> DEFINE f == SwitchedUp(x, cl, kl)
    <3> HIDE DEF x
    <3>1. f \in Int /\ Same(f, (ModulusAt[kl] \div ModulusAt[cl]) * x, ModulusAt[kl])
      BY <1>1, UpIs
    <3> QED
      BY <3>1 DEF x
  <2> HIDE DEF from, x, a
  <2>2. a \in Int
    BY <1>1 DEF a
  <2>3. GoodKey(NewKey(a, from, cl, kl, seed, e), a, x)
    BY <1>1, <2>1, <2>2, NewKeyGood
  <2> QED
    BY <2>3 DEF a, from
<1>4. t.kind = "relin" /\ t.s = sec.s /\ t.keys = << key >>
  OBVIOUS
<1> DEFINE keys == << key >>
<1>5. DOMAIN keys = 1 .. 1 /\ keys[1] = key
  <2> HIDE DEF key
  <2> QED
    OBVIOUS
<1> HIDE DEF key
<1>6. KeysMade(t)
  <2> HIDE DEF t, keys
  <2>1. t.keys = keys
    BY <1>4 DEF keys
  <2> QED
    BY <1>3, <1>4, <1>5, <2>1 DEF KeysMade, x
<1>7. "relin" \in {"relin", "galois", "rgsw"} /\ 0 \in Int
  OBVIOUS
<1>8. SwitchHolds(t)
  <2> HIDE DEF keys
  <2>1. KeysMade([kind |-> "relin", s |-> sec.s, sub |-> sec.sub, m |-> 0, keys |-> keys,
                  ct |-> << >>, out |-> << >>])
    BY <1>6 DEF keys
  <2>2. SwitchHolds([kind |-> "relin", s |-> sec.s, sub |-> sec.sub, m |-> 0, keys |-> keys,
                  ct |-> << >>, out |-> << >>])
    BY ONLY <1>7, <2>1, sec \in SwitchSecrets, KeysHold
  <2> QED
    BY <2>2 DEF keys
<1> QED
  BY <1>2, <1>8

LEMMA GaloisKeyHolds ==
    ASSUME NEW sec \in SwitchSecrets, NEW cl \in SwitchLevels, NEW kl \in SwitchLevels,
           NEW seed \in DOMAIN Expand, NEW e \in SwitchErrors, MakeGaloisKey(sec, cl, kl, seed, e)
    PROVE  SwitchHolds(switching')
<1> DEFINE x == sec.sub
           key == NewKey(sec.s, SwitchedUp(sec.sub, cl, kl), cl, kl, seed, e)
           t == [kind |-> "galois", s |-> sec.s, sub |-> sec.sub, m |-> 0, keys |-> << key >>,
                 ct |-> << >>, out |-> << >>]
<1>1. sec.s \in Int /\ x \in Int /\ kl <= cl
  BY SwitchAssumption DEF MakeGaloisKey
<1>2. switching' = t
  BY DEF MakeGaloisKey, Keys
<1>3. GoodKey(key, sec.s, x)
  <2> DEFINE from == SwitchedUp(sec.sub, cl, kl)
             a == sec.s
  <2>1. from \in Int /\ Same(from, (ModulusAt[kl] \div ModulusAt[cl]) * x, ModulusAt[kl])
    <3> DEFINE f == SwitchedUp(x, cl, kl)
    <3> HIDE DEF x
    <3>1. f \in Int /\ Same(f, (ModulusAt[kl] \div ModulusAt[cl]) * x, ModulusAt[kl])
      BY <1>1, UpIs
    <3> QED
      BY <3>1 DEF x
  <2> HIDE DEF from, x, a
  <2>2. a \in Int
    BY <1>1 DEF a
  <2>3. GoodKey(NewKey(a, from, cl, kl, seed, e), a, x)
    BY <1>1, <2>1, <2>2, NewKeyGood
  <2> QED
    BY <2>3 DEF a, from
<1>4. t.kind = "galois" /\ t.s = sec.s /\ t.sub = x /\ t.keys = << key >>
  OBVIOUS
<1> DEFINE keys == << key >>
<1>5. DOMAIN keys = 1 .. 1 /\ keys[1] = key
  <2> HIDE DEF key
  <2> QED
    OBVIOUS
<1> HIDE DEF key
<1>6. KeysMade(t)
  <2> HIDE DEF t, keys, x
  <2>1. t.keys = keys
    BY <1>4 DEF keys
  <2> QED
    BY <1>3, <1>4, <1>5, <2>1 DEF KeysMade
<1>7. "galois" \in {"relin", "galois", "rgsw"} /\ 0 \in Int
  OBVIOUS
<1>8. SwitchHolds(t)
  <2> HIDE DEF keys
  <2>1. KeysMade([kind |-> "galois", s |-> sec.s, sub |-> sec.sub, m |-> 0, keys |-> keys,
                  ct |-> << >>, out |-> << >>])
    BY <1>6 DEF keys
  <2>2. SwitchHolds([kind |-> "galois", s |-> sec.s, sub |-> sec.sub, m |-> 0, keys |-> keys,
                  ct |-> << >>, out |-> << >>])
    BY ONLY <1>7, <2>1, sec \in SwitchSecrets, KeysHold
  <2> QED
    BY <2>2 DEF keys
<1> QED
  BY <1>2, <1>8

LEMMA RgswHolds ==
    ASSUME NEW sec \in SwitchSecrets, NEW l \in SwitchLevels, NEW m \in RgswMessages,
           NEW seed \in DOMAIN Expand, NEW e \in SwitchErrors, EncryptRgsw(sec, m, l, seed, e)
    PROVE  SwitchHolds(switching')
<1> DEFINE a == sec.s
           x == m * sec.s
           k1 == NewKey(sec.s, m, l, l, seed, e)
           k2 == NewKey(sec.s, m * sec.s, l, l, seed, e)
           keys == << k1, k2 >>
           t == [kind |-> "rgsw", s |-> sec.s, sub |-> sec.sub, m |-> m, keys |-> keys,
                 ct |-> << >>, out |-> << >>]
<1>1. a \in Int /\ m \in Int /\ x \in Int /\ l <= l
  <2>1. a \in Int /\ m \in Int
    BY SwitchAssumption
  <2>2. l \in Int
    BY LevelIs
  <2> QED
    BY <2>1, <2>2
<1>2. switching' = t
  BY DEF EncryptRgsw, Keys, RgswKeys
<1>3. GoodKey(k1, a, m) /\ GoodKey(k2, a, x)
  <2> HIDE DEF x, a
  <2>1. Same(m, (ModulusAt[l] \div ModulusAt[l]) * m, ModulusAt[l])
    BY <1>1, UpNowhere
  <2>2. Same(x, (ModulusAt[l] \div ModulusAt[l]) * x, ModulusAt[l])
    BY <1>1, UpNowhere
  <2>3. GoodKey(NewKey(a, m, l, l, seed, e), a, m)
    BY <1>1, <2>1, NewKeyGood
  <2>4. GoodKey(NewKey(a, x, l, l, seed, e), a, x)
    BY <1>1, <2>2, NewKeyGood
  <2> QED
    BY <2>3, <2>4 DEF a, x
<1>4. t.kind = "rgsw" /\ t.s = a /\ t.m = m /\ t.keys = keys /\ t.m * t.s = x
  OBVIOUS
<1>5. /\ k1.ctLevel = l /\ k1.kskLevel = l /\ k2.ctLevel = l /\ k2.kskLevel = l
  BY DEF NewKey
<1> HIDE DEF k1, k2, x
<1>6. DOMAIN keys = 1 .. 2 /\ keys[1] = k1 /\ keys[2] = k2
  OBVIOUS
<1> HIDE DEF keys
<1>7. KeysMade(t)
  <2> HIDE DEF t, a
  <2> QED
    BY <1>3, <1>4, <1>5, <1>6 DEF KeysMade
<1>8. "rgsw" \in {"relin", "galois", "rgsw"}
  OBVIOUS
<1>9. SwitchHolds(t)
  BY <1>1, <1>7, <1>8, KeysHold
<1> QED
  BY <1>2, <1>9

(* Keys read back from bytes are as good.                                  *)
LEMMA SentHold ==
    ASSUME switching # NoSwitch, SwitchHolds(switching), SendKeys
    PROVE  SwitchHolds(switching')
<1> DEFINE t == switching
           keys == [i \in DOMAIN t.keys |-> KeyFromBytes(KeyToBytes(t.keys[i]))]
           u == [switching EXCEPT !.keys = keys]
<1>1. switching' = u /\ t.ct = << >>
  BY DEF SendKeys
<1>2. SwitchShape(t) /\ KeysMade(t) /\ t.out = << >>
  BY <1>1 DEF SwitchHolds
<1>3. /\ u.kind = t.kind /\ u.s = t.s /\ u.sub = t.sub /\ u.m = t.m /\ u.keys = keys
      /\ u.ct = t.ct /\ u.out = t.out
      /\ u = [kind |-> u.kind, s |-> u.s, sub |-> u.sub, m |-> u.m, keys |-> u.keys, ct |-> u.ct, out |-> u.out]
  <2> HIDE DEF keys
  <2> QED
    BY <1>2 DEF SwitchShape
<1>4. DOMAIN keys = DOMAIN t.keys /\ \A i \in DOMAIN t.keys : keys[i] = KeyFromBytes(KeyToBytes(t.keys[i]))
  OBVIOUS
<1>5. \A k, s, x : GoodKey(k, s, x) =>
         /\ GoodKey(KeyFromBytes(KeyToBytes(k)), s, x)
         /\ KeyFromBytes(KeyToBytes(k)).ctLevel = k.ctLevel /\ KeyFromBytes(KeyToBytes(k)).kskLevel = k.kskLevel
  <2> TAKE k, s, x
  <2> HAVE GoodKey(k, s, x)
  <2>1. GoodKey(KeyFromBytes(KeyToBytes(k)), s, x)
    BY KeySent
  <2>2. KeyFromBytes(KeyToBytes(k)).ctLevel = k.ctLevel /\ KeyFromBytes(KeyToBytes(k)).kskLevel = k.kskLevel
    BY DEF KeyFromBytes, KeyToBytes
  <2> QED
    BY <2>1, <2>2
<1> HIDE DEF u, keys, t
<1>6. KeysMade(u)
  <2>1. CASE t.kind = "rgsw"
    <3>1. /\ DOMAIN t.keys = 1 .. 2 /\ GoodKey(t.keys[1], t.s, t.m) /\ GoodKey(t.keys[2], t.s, t.m * t.s)
          /\ t.keys[1].ctLevel = t.keys[1].kskLevel /\ t.keys[2].ctLevel = t.keys[2].kskLevel
          /\ t.keys[1].ctLevel = t.keys[2].ctLevel
      BY <1>2, <2>1 DEF KeysMade
    <3>2. 1 \in DOMAIN t.keys /\ 2 \in DOMAIN t.keys
      BY <3>1
    <3>3. keys[1] = KeyFromBytes(KeyToBytes(t.keys[1])) /\ keys[2] = KeyFromBytes(KeyToBytes(t.keys[2]))
      BY <1>4, <3>2
    <3>4. /\ GoodKey(keys[1], t.s, t.m) /\ GoodKey(keys[2], t.s, t.m * t.s)
          /\ keys[1].ctLevel = t.keys[1].ctLevel /\ keys[1].kskLevel = t.keys[1].kskLevel
          /\ keys[2].ctLevel = t.keys[2].ctLevel /\ keys[2].kskLevel = t.keys[2].kskLevel
      BY <1>5, <3>1, <3>3
    <3> QED
      BY <1>3, <1>4, <2>1, <3>1, <3>4 DEF KeysMade
  <2>2. CASE t.kind # "rgsw"
    <3> DEFINE x == IF t.kind = "relin" THEN t.s * t.s ELSE t.sub
    <3>1. DOMAIN t.keys = 1 .. 1 /\ GoodKey(t.keys[1], t.s, x)
      BY <1>2, <2>2 DEF KeysMade
    <3>2. 1 \in DOMAIN t.keys
      BY <3>1
    <3>3. keys[1] = KeyFromBytes(KeyToBytes(t.keys[1]))
      BY <1>4, <3>2
    <3> HIDE DEF x
    <3>4. GoodKey(keys[1], t.s, x)
      BY <1>5, <3>1, <3>3
    <3> QED
      BY <1>3, <1>4, <2>2, <3>1, <3>4 DEF KeysMade, x
  <2> QED
    BY <2>1, <2>2
<1>7. SwitchShape(u)
  BY <1>2, <1>3 DEF SwitchShape
<1>8. u.ct = << >> /\ u.out = << >>
  BY <1>1, <1>2, <1>3
<1>9. SwitchHolds(u)
  BY <1>6, <1>7, <1>8 DEF SwitchHolds
<1> QED
  BY <1>1, <1>9

(* The parts but the first. *)
LEMMA LastParts ==
    ASSUME NEW S, NEW c \in [1 .. 3 -> S]
    PROVE  SubSeq(c, 2, 3) \in [1 .. 2 -> S]
<1> DEFINE d == SubSeq(c, 2, 3)
<1>1. \A i \in 2 .. 3 : c[i] \in S
  OBVIOUS
<1>2. /\ d \in Seq(S) /\ Len(d) = IF 2 <= 3 THEN 3 - 2 + 1 ELSE 0
  BY <1>1, SubSeqProperties
<1> HIDE DEF d
<1>3. Len(d) = 2
  BY <1>2
<1>4. d \in [1 .. Len(d) -> S]
  BY ONLY <1>2, LenProperties
<1>5. d \in [1 .. 2 -> S]
  BY <1>3, <1>4
<1> QED
  BY <1>5 DEF d

LEMMA TakenHolds ==
    ASSUME switching # NoSwitch, SwitchHolds(switching), NEW c \in Inputs[TheKey.ctLevel], TakeCiphertext(c)
    PROVE  SwitchHolds(switching')
<1> DEFINE t == switching
           d == IF switching.kind = "relin" THEN c ELSE SubSeq(c, 2, 3)
           u == [switching EXCEPT !.ct = d]
           l == t.keys[1].ctLevel
<1>1. switching' = u /\ t.ct = << >>
  BY DEF TakeCiphertext
<1>2. SwitchShape(t) /\ KeysMade(t) /\ t.out = << >>
  BY <1>1 DEF SwitchHolds
<1>3. /\ u.kind = t.kind /\ u.s = t.s /\ u.sub = t.sub /\ u.m = t.m /\ u.keys = t.keys
      /\ u.ct = d /\ u.out = t.out
      /\ u = [kind |-> u.kind, s |-> u.s, sub |-> u.sub, m |-> u.m, keys |-> u.keys, ct |-> u.ct, out |-> u.out]
  <2> HIDE DEF d
  <2> QED
    BY <1>2 DEF SwitchShape
<1>4. l \in SwitchLevels
  BY <1>2 DEF KeysMade, GoodKey
<1>5. c \in [1 .. 3 -> 0 .. ModulusAt[l] - 1]
  BY <1>4, SwitchAssumption DEF TheKey
<1>6. d \in [1 .. (IF t.kind = "relin" THEN 3 ELSE 2) -> 0 .. ModulusAt[l] - 1]
  <2>1. SubSeq(c, 2, 3) \in [1 .. 2 -> 0 .. ModulusAt[l] - 1]
    BY <1>5, LastParts
  <2> HIDE DEF l
  <2> QED
    BY <1>5, <2>1
<1> HIDE DEF u, d
<1>7. SwitchShape(u)
  BY <1>2, <1>3 DEF SwitchShape
<1>8. KeysMade(u)
  BY <1>2, <1>3 DEF KeysMade
<1>9. u.ct \in [1 .. (IF u.kind = "relin" THEN 3 ELSE 2) -> 0 .. ModulusAt[u.keys[1].ctLevel] - 1]
  BY <1>3, <1>6
<1>10. u.out = << >>
  BY <1>2, <1>3
<1> HIDE DEF t
<1>11. SwitchHolds(u)
  BY <1>7, <1>8, <1>9, <1>10 DEF SwitchHolds
<1> QED
  BY <1>1, <1>11

(* What a result must be for the state to hold.                            *)
LEMMA GivenHolds ==
    ASSUME NEW t, SwitchHolds(t), t.ct # << >>, NEW parts, OutClose([t EXCEPT !.out = parts])
    PROVE  SwitchHolds([t EXCEPT !.out = parts])
<1> DEFINE u == [t EXCEPT !.out = parts]
<1>1. SwitchShape(t) /\ KeysMade(t)
      /\ t.ct \in [1 .. (IF t.kind = "relin" THEN 3 ELSE 2) -> 0 .. ModulusAt[t.keys[1].ctLevel] - 1]
  BY DEF SwitchHolds
<1>3. /\ u.kind = t.kind /\ u.s = t.s /\ u.sub = t.sub /\ u.m = t.m /\ u.keys = t.keys /\ u.ct = t.ct
      /\ u = [kind |-> u.kind, s |-> u.s, sub |-> u.sub, m |-> u.m, keys |-> u.keys, ct |-> u.ct, out |-> u.out]
  BY <1>1 DEF SwitchShape
<1>4. OutClose(u)
  OBVIOUS
<1> HIDE DEF u
<1>7. SwitchShape(u)
  BY <1>1, <1>3 DEF SwitchShape
<1>8. KeysMade(u)
  BY <1>1, <1>3 DEF KeysMade
<1>9. /\ u.ct # << >>
      /\ u.ct \in [1 .. (IF u.kind = "relin" THEN 3 ELSE 2) -> 0 .. ModulusAt[u.keys[1].ctLevel] - 1]
  BY <1>1, <1>3
<1>10. SwitchHolds(u)
  BY <1>4, <1>7, <1>8, <1>9 DEF SwitchHolds
<1> QED
  BY <1>10 DEF u

(* The fields of a state with a result.                                    *)
LEMMA GivenFields ==
    ASSUME NEW t, SwitchShape(t), NEW parts
    PROVE  LET u == [t EXCEPT !.out = parts]
           IN  /\ u.kind = t.kind /\ u.s = t.s /\ u.sub = t.sub /\ u.m = t.m /\ u.keys = t.keys /\ u.ct = t.ct
               /\ u.out = parts
  BY DEF SwitchShape

LEMMA RelinHolds ==
    ASSUME switching # NoSwitch, SwitchHolds(switching), Relinearize
    PROVE  SwitchHolds(switching')
<1> DEFINE t == switching
           k == switching.keys[1]
           c == switching.ct
           s == switching.s
           parts == PartsSum(c, SwitchedParts(k, c[3]), k.ctLevel)
           u == [t EXCEPT !.out = parts]
<1>1. switching' = u /\ t.ct # << >> /\ t.kind = "relin"
  BY DEF Relinearize, Ready, Give, TheKey
<1>2. /\ SwitchShape(t) /\ KeysMade(t) /\ t.ct \in [1 .. 3 -> 0 .. ModulusAt[t.keys[1].ctLevel] - 1]
  BY <1>1 DEF SwitchHolds
<1>3. s \in Int /\ GoodKey(k, s, s * s)
  BY <1>1, <1>2 DEF SwitchShape, KeysMade
<1>4. c \in [1 .. 3 -> 0 .. ModulusAt[k.ctLevel] - 1]
  BY <1>2
<1> HIDE DEF k, c, s
<1>5. SwitchAbs(CenteredAt(parts[1] + parts[2] * s - (c[1] + c[2] * s + c[3] * s * s), k.ctLevel)) <= PartsBound(k, s)
  BY <1>3, <1>4, RelinClose
<1>6. u.kind = "relin" /\ u.s = s /\ u.keys[1] = k /\ u.ct = c /\ u.out = parts
  <2> HIDE DEF parts
  <2>1. u.kind = t.kind /\ u.s = t.s /\ u.keys = t.keys /\ u.ct = t.ct /\ u.out = parts
    BY <1>2, GivenFields
  <2> QED
    BY <1>1, <2>1 DEF s, k, c
<1> HIDE DEF parts
<1>7. OutClose(u)
  <2> HIDE DEF u
  <2> QED
    BY <1>5, <1>6 DEF OutClose
<1>8. SwitchHolds(u)
  BY <1>1, <1>7, GivenHolds
<1> QED
  BY <1>1, <1>8

LEMMA RotateHolds ==
    ASSUME switching # NoSwitch, SwitchHolds(switching), Rotate
    PROVE  SwitchHolds(switching')
<1> DEFINE t == switching
           k == switching.keys[1]
           c == switching.ct
           s == switching.s
           x == switching.sub
           parts == PartsSum(<< c[1], 0 >>, SwitchedParts(k, c[2]), k.ctLevel)
           u == [t EXCEPT !.out = parts]
<1>1. switching' = u /\ t.ct # << >> /\ t.kind = "galois"
  BY DEF Rotate, Ready, Give, TheKey
<1>2. /\ SwitchShape(t) /\ KeysMade(t) /\ t.ct \in [1 .. 2 -> 0 .. ModulusAt[t.keys[1].ctLevel] - 1]
  BY <1>1 DEF SwitchHolds
<1>3. s \in Int /\ x \in Int /\ GoodKey(k, s, x)
  BY <1>1, <1>2 DEF SwitchShape, KeysMade
<1>4. c \in [1 .. 2 -> 0 .. ModulusAt[k.ctLevel] - 1]
  BY <1>2
<1> HIDE DEF k, c, s, x
<1>5. SwitchAbs(CenteredAt(parts[1] + parts[2] * s - (c[1] + c[2] * x), k.ctLevel)) <= PartsBound(k, s)
  BY <1>3, <1>4, RotateClose
<1>6. u.kind = "galois" /\ u.s = s /\ u.sub = x /\ u.keys[1] = k /\ u.ct = c /\ u.out = parts
  <2> HIDE DEF parts
  <2>1. u.kind = t.kind /\ u.s = t.s /\ u.sub = t.sub /\ u.keys = t.keys /\ u.ct = t.ct /\ u.out = parts
    BY <1>2, GivenFields
  <2> QED
    BY <1>1, <2>1 DEF s, k, c, x
<1> HIDE DEF parts
<1>7. OutClose(u)
  <2> HIDE DEF u
  <2> QED
    BY <1>5, <1>6 DEF OutClose
<1>8. SwitchHolds(u)
  BY <1>1, <1>7, GivenHolds
<1> QED
  BY <1>1, <1>8

LEMMA ProductHolds ==
    ASSUME switching # NoSwitch, SwitchHolds(switching), ExternalProduct
    PROVE  SwitchHolds(switching')
<1> DEFINE t == switching
           k == switching.keys[1]
           k2 == switching.keys[2]
           c == switching.ct
           s == switching.s
           m == switching.m
           parts == PartsSum(KeySwitch(k, c[1]), KeySwitch(k2, c[2]), k.ctLevel)
           u == [t EXCEPT !.out = parts]
<1>1. switching' = u /\ t.ct # << >> /\ t.kind = "rgsw"
  BY DEF ExternalProduct, Ready, Give, TheKey
<1>2. /\ SwitchShape(t) /\ KeysMade(t) /\ t.ct \in [1 .. 2 -> 0 .. ModulusAt[t.keys[1].ctLevel] - 1]
  BY <1>1 DEF SwitchHolds
<1>3. /\ s \in Int /\ m \in Int /\ GoodKey(k, s, m) /\ GoodKey(k2, s, m * s)
      /\ k.ctLevel = k.kskLevel /\ k2.ctLevel = k2.kskLevel /\ k.ctLevel = k2.ctLevel
  BY <1>1, <1>2 DEF SwitchShape, KeysMade
<1>4. c \in [1 .. 2 -> 0 .. ModulusAt[k.ctLevel] - 1]
  BY <1>2
<1> HIDE DEF k, k2, c, s, m
<1>5. SwitchAbs(CenteredAt(parts[1] + parts[2] * s - m * (c[1] + c[2] * s), k.ctLevel)) <= 2 * KeyNoise(k)
  BY <1>3, <1>4, ProductClose
<1>6. u.kind = "rgsw" /\ u.s = s /\ u.m = m /\ u.keys[1] = k /\ u.ct = c /\ u.out = parts
  <2> HIDE DEF parts
  <2>1. u.kind = t.kind /\ u.s = t.s /\ u.m = t.m /\ u.keys = t.keys /\ u.ct = t.ct /\ u.out = parts
    BY <1>2, GivenFields
  <2> QED
    BY <1>1, <2>1 DEF s, k, c, m
<1> HIDE DEF parts
<1>7. OutClose(u)
  <2> HIDE DEF u
  <2> QED
    BY <1>5, <1>6 DEF OutClose
<1>8. SwitchHolds(u)
  BY <1>1, <1>7, GivenHolds
<1> QED
  BY <1>1, <1>8

LEMMA SwitchStep ==
    ASSUME SwitchInv, [SwitchingNext]_switching
    PROVE  SwitchInv'
<1>1. CASE UNCHANGED switching
  BY <1>1 DEF SwitchInv, SwitchHolds, SwitchShape, KeysMade, OutClose
<1>2. CASE SwitchingNext
  <2>1. ASSUME NEW sec \in SwitchSecrets, NEW cl \in SwitchLevels, NEW kl \in SwitchLevels,
               NEW seed \in DOMAIN Expand, NEW e \in SwitchErrors, MakeRelinKey(sec, cl, kl, seed, e)
        PROVE  SwitchHolds(switching')
    BY <2>1, RelinKeyHolds
  <2>2. ASSUME NEW sec \in SwitchSecrets, NEW cl \in SwitchLevels, NEW kl \in SwitchLevels,
               NEW seed \in DOMAIN Expand, NEW e \in SwitchErrors, MakeGaloisKey(sec, cl, kl, seed, e)
        PROVE  SwitchHolds(switching')
    BY <2>2, GaloisKeyHolds
  <2>3. ASSUME NEW sec \in SwitchSecrets, NEW l \in SwitchLevels, NEW m \in RgswMessages,
               NEW seed \in DOMAIN Expand, NEW e \in SwitchErrors, EncryptRgsw(sec, m, l, seed, e)
        PROVE  SwitchHolds(switching')
    BY <2>3, RgswHolds
  <2>4. ASSUME SendKeys PROVE SwitchHolds(switching')
    BY <2>4, SentHold DEF SendKeys, SwitchInv
  <2>5. ASSUME switching # NoSwitch, NEW c \in Inputs[TheKey.ctLevel], TakeCiphertext(c)
        PROVE  SwitchHolds(switching')
    BY <2>5, TakenHolds DEF SwitchInv
  <2>6. ASSUME Relinearize PROVE SwitchHolds(switching')
    BY <2>6, RelinHolds DEF Relinearize, Ready, SwitchInv
  <2>7. ASSUME Rotate PROVE SwitchHolds(switching')
    BY <2>7, RotateHolds DEF Rotate, Ready, SwitchInv
  <2>8. ASSUME ExternalProduct PROVE SwitchHolds(switching')
    BY <2>8, ProductHolds DEF ExternalProduct, Ready, SwitchInv
  <2>9. SwitchHolds(switching')
    BY <1>2, <2>1, <2>2, <2>3, <2>4, <2>5, <2>6, <2>7, <2>8 DEF SwitchingNext
  <2>10. SwitchHolds(switching)' <=> SwitchHolds(switching')
    BY DEF SwitchHolds, SwitchShape, KeysMade, OutClose
  <2> QED
    BY <2>9 DEF SwitchInv
<1> QED
  BY <1>1, <1>2

LEMMA SwitchInvExact ==
    ASSUME SwitchInv
    PROVE  SwitchExact /\ ExternalProductExact
<1>1. ASSUME Done({"relin", "galois"})
      PROVE  LET c == switching.ct
                 s == switching.s
             IN  Distance(IF switching.kind = "relin" THEN c[1] + c[2] * s + c[3] * s * s
                          ELSE c[1] + c[2] * switching.sub) <= SwitchNoise(TheKey)
  <2>1. switching # NoSwitch /\ switching.kind \in {"relin", "galois"} /\ OutClose(switching)
    BY <1>1 DEF Done, SwitchInv, SwitchHolds
  <2>2. SwitchNoise(TheKey) = PartsBound(switching.keys[1], switching.s)
    BY DEF SwitchNoise, PartsBound, TheKey
  <2>3. CASE switching.kind = "relin"
    BY <2>1, <2>2, <2>3 DEF OutClose, Distance, TheKey
  <2>4. CASE switching.kind = "galois"
    BY <2>1, <2>2, <2>4 DEF OutClose, Distance, TheKey
  <2> QED
    BY <2>1, <2>3, <2>4
<1>2. ASSUME Done({"rgsw"})
      PROVE  Distance(switching.m * (switching.ct[1] + switching.ct[2] * switching.s)) <= 2 * KeyNoise(TheKey)
  <2>1. switching # NoSwitch /\ switching.kind = "rgsw" /\ OutClose(switching)
    BY <1>2 DEF Done, SwitchInv, SwitchHolds
  <2> QED
    BY <2>1 DEF OutClose, Distance, TheKey
<1> QED
  BY <1>1, <1>2 DEF SwitchExact, ExternalProductExact

(* What relinearization and rotation leave decrypts to what it should, but *)
(* for the noise of the switch: the keys are good whether made or read     *)
(* back, digits make up the coefficient, every digit adds its error once,  *)
(* and taking moduli off divides the noise and rounds.                     *)
THEOREM SwitchingIsExact == SwitchingSpec => []SwitchExact
<1>1. SwitchingInit => SwitchInv
  BY DEF SwitchingInit, SwitchInv
<1>2. SwitchInv /\ [SwitchingNext]_switching => SwitchInv'
  BY SwitchStep
<1>3. SwitchInv => SwitchExact
  BY SwitchInvExact
<1> QED
  BY <1>1, <1>2, <1>3, PTL DEF SwitchingSpec

(* The product with an RGSW ciphertext of m decrypts to m times what the   *)
(* ciphertext does, but for the noise of its two key switches.             *)
THEOREM ExternalProductIsExact == SwitchingSpec => []ExternalProductExact
<1>1. SwitchingInit => SwitchInv
  BY DEF SwitchingInit, SwitchInv
<1>2. SwitchInv /\ [SwitchingNext]_switching => SwitchInv'
  BY SwitchStep
<1>3. SwitchInv => ExternalProductExact
  BY SwitchInvExact
<1> QED
  BY <1>1, <1>2, <1>3, PTL DEF SwitchingSpec
=============================================================================
