-------------------------- MODULE Arithmetic_proof --------------------------
(***************************************************************************)
(* The theorems on the arithmetic: entries of rows and dot products stay   *)
(* the residues they should be, encodings in slots decode to what was      *)
(* encoded, operations on plaintexts do to the slots what they promise,    *)
(* bit pools neither lose nor repeat a bit, and polynomials stay what they *)
(* stand for at every modulus, for every degree, prime, root, vectors,     *)
(* widths and chain of moduli.                                             *)
(***************************************************************************)
EXTENDS Arithmetic, TransformSwitch_proof

-----------------------------------------------------------------------------
(* Powers by repeated multiplication.                                      *)

(* The reference, multiplying n times.                                     *)
LEMMA PowerOfExact ==
    ASSUME NEW p \in Nat \ {0}, NEW a \in Int, NEW n \in Nat, NEW g, PowersOf(g, a)
    PROVE  PowerOf(a, n, p) = g[n] % p
<1> DEFINE E(f) == f = [k \in 0 .. n |-> IF k = 0 THEN 1 % p ELSE (f[k - 1] * a) % p]
           w == CHOOSE f : E(f)
           h == [k \in 0 .. n |-> g[k] % p]
<1>1. PowerOf(a, n, p) = w[n]
  BY DEF PowerOf
<1>2. ASSUME NEW k \in 0 .. n, k # 0 PROVE ((g[k - 1] % p) * a) % p = g[k] % p
  <2> DEFINE x == g[k - 1]
  <2>1. k - 1 \in Nat /\ (k - 1) + 1 = k
    BY <1>2
  <2>2. x \in Int /\ g[k] = a * x
    BY <2>1 DEF PowersOf
  <2> HIDE DEF x
  <2>3. Same(x % p, x, p) /\ Same(a, a, p)
    BY <2>2, SameMod, SameReflexive
  <2>4. Same((x % p) * a, x * a, p) /\ x * a = a * x
    BY <2>2, <2>3, SameTimes, SMTT(60)
  <2> QED
    BY <2>2, <2>4, SameEqual DEF x
<1>3. E(h)
  <2>1. ASSUME NEW k \in 0 .. n
        PROVE  h[k] = IF k = 0 THEN 1 % p ELSE (h[k - 1] * a) % p
    <3>1. CASE k = 0
      BY <3>1 DEF PowersOf
    <3>2. CASE k # 0
      <4>1. k - 1 \in 0 .. n
        BY <3>2
      <4>2. h[k - 1] = g[k - 1] % p /\ h[k] = g[k] % p
        BY <4>1
      <4> HIDE DEF h
      <4> QED
        BY <1>2, <3>2, <4>2
    <3> QED
      BY <3>1, <3>2
  <2>2. h = [k \in 0 .. n |-> h[k]]
    OBVIOUS
  <2> HIDE DEF h
  <2> QED
    BY <2>1, <2>2
<1>4. E(w)
  <2> HIDE DEF E, h
  <2> QED
    BY <1>3
<1>5. ASSUME NEW k \in 0 .. n
      PROVE  w[k] = IF k = 0 THEN 1 % p ELSE (w[k - 1] * a) % p
  <2> HIDE DEF w
  <2> QED
    BY <1>4
<1> DEFINE S == {k \in 0 .. n : w[k] = h[k]}
<1> HIDE DEF w
<1>6. 0 \in S
  <2>1. 0 \in 0 .. n
    OBVIOUS
  <2>2. w[0] = 1 % p /\ h[0] = 1 % p
    BY <1>5, <2>1 DEF PowersOf
  <2> QED
    BY <2>1, <2>2
<1>7. ASSUME NEW k \in 0 .. n - 1, k \in S PROVE k + 1 \in S
  <2>1. k + 1 \in 0 .. n /\ k + 1 # 0 /\ (k + 1) - 1 = k /\ k \in 0 .. n
    OBVIOUS
  <2>2. w[k + 1] = (w[k] * a) % p
    BY <1>5, <2>1
  <2>3. w[k] = g[k] % p /\ h[k + 1] = g[k + 1] % p
    BY <1>7, <2>1
  <2>4. ((g[k] % p) * a) % p = g[k + 1] % p
    BY <1>2, <2>1
  <2> QED
    BY <2>1, <2>2, <2>3, <2>4
<1> HIDE DEF S
<1>8. \A k \in 0 .. n : k \in S
  BY <1>6, <1>7, InductionUpTo
<1>9. n \in S /\ n \in 0 .. n
  BY <1>8
<1> QED
  BY <1>1, <1>9 DEF S

-----------------------------------------------------------------------------
(* The entries. *)

(* m is what Modulus::new made of a number it accepts.                     *)
IsModulus(m) == m.p \in Nat /\ NewModulusOk(m.p) /\ m = NewModulus(m.p)

(* An entry is within the bound its operations left it, is a residue of    *)
(* what they should make, and has been centred from a reduced one.         *)
EntryInv ==
    entry # NoEntry =>
        /\ entry = [m |-> entry.m, x |-> entry.x, lazy |-> entry.lazy, c |-> entry.c,
                    want |-> entry.want]
        /\ IsModulus(entry.m)
        /\ entry.lazy \in BOOLEAN
        /\ entry.x \in 0 .. (IF entry.lazy THEN 2 ELSE 1) * entry.m.p - 1
        /\ entry.x % entry.m.p = entry.want
        /\ entry.c = 0 \/ (~entry.lazy /\ entry.c = Center(entry.m, entry.x))

LEMMA EntryTypes ==
    ASSUME EntryInv, Has, NEW p, p = entry.m.p
    PROVE  /\ p \in Nat \ {0} /\ NewModulusOk(p) /\ entry.m = NewModulus(p) /\ entry.m.p = p
           /\ 4 * p < B /\ B \in Nat \ {0} /\ B >= 16 /\ (entry.m.opt => SupportsOpt(p))
           /\ entry.x \in Int /\ entry.x \in Word /\ Same(entry.x, entry.want, p)
           /\ Reduced => entry.x \in 0 .. p - 1 /\ entry.want = entry.x
<1>1. /\ p \in Nat /\ NewModulusOk(p) /\ entry.m = NewModulus(p) /\ entry.m.p = p
      /\ entry.x \in 0 .. (IF entry.lazy THEN 2 ELSE 1) * p - 1
      /\ entry.x % p = entry.want
  BY DEF EntryInv, Has, IsModulus
<1>2. p \in Nat \ {0} /\ 4 * p < B /\ B \in Nat \ {0} /\ B >= 16
  BY <1>1, ModulusSize, WordTypes
<1>3. entry.m.opt => SupportsOpt(p)
  BY <1>1 DEF NewModulus
<1>4. entry.x \in 0 .. 2 * p - 1 /\ (~entry.lazy => entry.x \in 0 .. p - 1)
  <2>1. CASE entry.lazy
    BY <1>1, <2>1
  <2>2. CASE ~entry.lazy
    BY <1>1, <1>2, <2>2
  <2> QED
    BY <2>1, <2>2
<1> DEFINE x == entry.x
<1>5. x \in Int /\ x \in Word
  BY <1>2, <1>4 DEF Word
<1> HIDE DEF x
<1>6. Same(x % p, x, p)
  BY <1>2, <1>5, SameMod
<1>7. Same(x, x % p, p)
  BY <1>2, <1>6, SameSymmetric
<1>8. ~entry.lazy => x % p = x
  BY <1>2, <1>4, OwnRemainder DEF x
<1> QED
  BY <1>1, <1>2, <1>3, <1>4, <1>5, <1>7, <1>8 DEF x, Reduced

(* What a step must leave for the invariant to hold.                       *)
LEMMA BecomeLazy ==
    ASSUME EntryInv, Has, NEW v \in Int, NEW x, NEW y \in Int, LazyOf(x, y, entry.m.p),
           Same(y, v, entry.m.p), Become(x, TRUE, v)
    PROVE  EntryInv'
<1> DEFINE p == entry.m.p
<1>1. p \in Nat \ {0} /\ IsModulus(entry.m)
  BY EntryTypes DEF EntryInv, Has
<1>2. entry' = [m |-> entry.m, x |-> x, lazy |-> TRUE, c |-> 0, want |-> v % p]
  BY DEF Become, Entry
<1> HIDE DEF p
<1>3. y % p = v % p
  BY <1>1, SameEqual DEF p
<1>4. x \in 0 .. 2 * p - 1 /\ x % p = v % p
  BY <1>3 DEF LazyOf, p
<1> QED
  BY <1>1, <1>2, <1>4 DEF EntryInv, p

LEMMA BecomeReduced ==
    ASSUME EntryInv, Has, NEW v \in Int, NEW y \in Int,
           Same(y, v, entry.m.p), Become(y % entry.m.p, FALSE, v)
    PROVE  EntryInv'
<1> DEFINE p == entry.m.p
           x == y % p
<1>1. p \in Nat \ {0} /\ IsModulus(entry.m)
  BY EntryTypes DEF EntryInv, Has
<1>2. entry' = [m |-> entry.m, x |-> x, lazy |-> FALSE, c |-> 0, want |-> v % p]
  BY DEF Become, Entry
<1> HIDE DEF p
<1>3. y % p = v % p
  BY <1>1, SameEqual DEF p
<1>4. x \in Int /\ 0 <= x /\ x < p
  BY <1>1, Remainder
<1>5. x = v % p
  BY <1>3
<1> HIDE DEF x
<1>6. x % p = x
  BY <1>1, <1>4, OwnRemainder
<1>7. x \in 0 .. 1 * p - 1
  BY <1>1, <1>4
<1> QED
  BY <1>1, <1>2, <1>5, <1>6, <1>7 DEF EntryInv, p

(* Modulus::new *)
LEMMA MakeKeeps ==
    ASSUME NEW p \in Primes, MakeModulus(p)
    PROVE  EntryInv'
<1>1. p \in Nat /\ NewModulusOk(p)
  BY PrimesAssumption DEF MakeModulus
<1>2. NewModulus(p).p = p
  BY DEF NewModulus
<1>3. entry' = [m |-> NewModulus(p), x |-> 0, lazy |-> FALSE, c |-> 0, want |-> 0 % p]
  BY <1>2 DEF MakeModulus, Entry
<1>4. p \in Nat \ {0} /\ 0 \in 0 .. 1 * p - 1
  BY <1>1, ModulusSize
<1> QED
  BY <1>1, <1>2, <1>3, <1>4 DEF EntryInv, IsModulus

(* A word, or a signed one, is loaded and reduced.                         *)
LEMMA LoadKeeps ==
    ASSUME EntryInv, NEW a \in Word,
           \/ ReduceVec(a) \/ LazyReduceVec(a) \/ ReduceOptEntry(a) \/ ReduceVecI64(a - (B \div 2))
    PROVE  EntryInv'
<1> DEFINE p == entry.m.p
           m == entry.m
<1>1. Has
  BY DEF ReduceVec, LazyReduceVec, ReduceOptEntry, ReduceVecI64, Fresh, Reduced
<1>2. p \in Nat \ {0} /\ NewModulusOk(p) /\ m = NewModulus(p) /\ B \in Nat \ {0} /\ B >= 16
  BY <1>1, EntryTypes
<1>3. a \in Int /\ a >= 0 /\ a < B
  BY <1>2 DEF Word
<1>4. /\ LazyOf(LazyReduceEntry(m, a), a, p) /\ Reduce(m, a) = a % p
      /\ m.opt => ReduceOpt(m, a) = a % p
  BY <1>2, ReductionsExact
<1>5. Same(a, a, p)
  BY <1>2, <1>3, SameReflexive
<1> HIDE DEF p, m
<1>6. CASE ReduceVec(a)
  <2>1. Become(a % p, FALSE, a)
    BY <1>4, <1>6 DEF ReduceVec, m
  <2> QED
    BY <1>1, <1>3, <1>5, <2>1, BecomeReduced DEF p
<1>7. CASE LazyReduceVec(a)
  <2>1. Become(LazyReduceEntry(m, a), TRUE, a)
    BY <1>7 DEF LazyReduceVec, m
  <2> QED
    BY <1>1, <1>3, <1>4, <1>5, <2>1, BecomeLazy DEF p
<1>8. CASE ReduceOptEntry(a)
  <2>1. Become(a % p, FALSE, a)
    BY <1>4, <1>8 DEF ReduceOptEntry, m
  <2> QED
    BY <1>1, <1>3, <1>5, <2>1, BecomeReduced DEF p
<1>9. CASE ReduceVecI64(a - (B \div 2))
  <2> DEFINE b == a - (B \div 2)
  <2>1. b \in Int /\ -B <= b /\ b < B
    BY <1>2, <1>3
  <2>2. Become(ReduceI64(m, b), FALSE, b)
    BY <1>9 DEF ReduceVecI64, m
  <2> HIDE DEF b
  <2>3. ReduceI64(m, b) = b % p
    BY <1>2, <2>1, ReduceI64Exact
  <2>4. Same(b, b, p)
    BY <1>2, <2>1, SameReflexive
  <2>5. Become(b % p, FALSE, b)
    BY <2>2, <2>3
  <2> QED
    BY <1>1, <2>1, <2>4, <2>5, BecomeReduced DEF p
<1> QED
  BY <1>6, <1>7, <1>8, <1>9

(* A double word is loaded and reduced.                                    *)
LEMMA LoadDoubleKeeps ==
    ASSUME EntryInv, NEW a \in DoubleWord,
           \/ ReduceDouble(a) \/ LazyReduceDouble(a)
           \/ ReduceOptDouble(a) \/ LazyReduceOptDouble(a)
    PROVE  EntryInv'
<1> DEFINE p == entry.m.p
           m == entry.m
<1>1. Has
  BY DEF ReduceDouble, LazyReduceDouble, ReduceOptDouble, LazyReduceOptDouble, Fresh, Reduced
<1>2. p \in Nat \ {0} /\ NewModulusOk(p) /\ m = NewModulus(p) /\ B * B \in Nat \ {0}
  BY <1>1, EntryTypes, WordTypes
<1>3. a \in Nat /\ a \in Int
  BY <1>2 DEF DoubleWord
<1>4. /\ LazyOf(LazyReduceU128(m, a), a, p) /\ ReduceU128(m, a) = a % p
      /\ m.opt /\ a < p * p =>
            LazyOf(LazyReduceOptU128(m, a), a, p) /\ ReduceOptU128(m, a) = a % p
  BY <1>2, <1>3, ReductionsExact
<1>5. Same(a, a, p)
  BY <1>2, <1>3, SameReflexive
<1> HIDE DEF p, m
<1>6. CASE ReduceDouble(a)
  <2>1. Become(a % p, FALSE, a)
    BY <1>4, <1>6 DEF ReduceDouble, m
  <2> QED
    BY <1>1, <1>3, <1>5, <2>1, BecomeReduced DEF p
<1>7. CASE LazyReduceDouble(a)
  <2>1. Become(LazyReduceU128(m, a), TRUE, a)
    BY <1>7 DEF LazyReduceDouble, m
  <2> QED
    BY <1>1, <1>3, <1>4, <1>5, <2>1, BecomeLazy DEF p
<1>8. CASE ReduceOptDouble(a)
  <2>1. Become(a % p, FALSE, a)
    BY <1>4, <1>8 DEF ReduceOptDouble, m, p
  <2> QED
    BY <1>1, <1>3, <1>5, <2>1, BecomeReduced DEF p
<1>9. CASE LazyReduceOptDouble(a)
  <2>1. Become(LazyReduceOptU128(m, a), TRUE, a) /\ LazyOf(LazyReduceOptU128(m, a), a, p)
    BY <1>4, <1>9 DEF LazyReduceOptDouble, m, p
  <2> QED
    BY <1>1, <1>3, <1>5, <2>1, BecomeLazy DEF p
<1> QED
  BY <1>6, <1>7, <1>8, <1>9

(* The steps that take the entry alone.                                    *)
LEMMA UnaryKeeps ==
    ASSUME EntryInv, ReduceAgain \/ NegVec \/ Invert
    PROVE  EntryInv'
<1> DEFINE p == entry.m.p
           m == entry.m
           x == entry.x
           w == entry.want
<1>1. Has
  BY DEF ReduceAgain, NegVec, Invert, Reduced
<1>2. /\ p \in Nat \ {0} /\ NewModulusOk(p) /\ m = NewModulus(p) /\ m.p = p
      /\ x \in Int /\ x \in Word /\ Same(x, w, p)
      /\ Reduced => x \in 0 .. p - 1 /\ w = x
  BY <1>1, EntryTypes
<1>3. w \in Int
  BY <1>2 DEF Same
<1> HIDE DEF p, m, x, w
<1>4. CASE ReduceAgain
  <2>1. Reduce(m, x) = x % p
    BY <1>2, ReductionsExact
  <2>2. Become(x % p, FALSE, w)
    BY <1>4, <2>1 DEF ReduceAgain, m, x, w
  <2> QED
    BY <1>1, <1>2, <1>3, <2>2, BecomeReduced DEF p
<1>5. CASE NegVec
  <2>1. x \in 0 .. p - 1 /\ w = x /\ -x \in Int
    BY <1>2, <1>5 DEF NegVec
  <2>2. Neg(m, x) = (-x) % p
    BY <1>2, <2>1, SumsExact
  <2>3. Become((-x) % p, FALSE, -x)
    BY <1>5, <2>1, <2>2 DEF NegVec, m, x, w
  <2>4. Same(-x, -x, p)
    BY <1>2, <2>1, SameReflexive
  <2> DEFINE y == -x
  <2>5. y \in Int /\ Same(y, y, p) /\ Become(y % p, FALSE, y)
    BY <2>1, <2>3, <2>4
  <2> HIDE DEF y
  <2> QED
    BY <1>1, <2>5, BecomeReduced DEF p
<1>6. CASE Invert
  <2> DEFINE y == InverseOf(m, x)
  <2>1. x \in 0 .. p - 1 /\ InverseOk(m, x)
    BY <1>2, <1>6 DEF Invert, m, x
  <2>2. y \in 0 .. p - 1 /\ y = CHOOSE z \in 0 .. p - 1 : (z * x) % p = 1
    BY <1>2, <2>1, InverseExact
  <2>3. Become(y, FALSE, y)
    BY <1>6, <2>2 DEF Invert, m, x, p
  <2> HIDE DEF y
  <2>4. y \in Int /\ y % p = y
    BY <1>2, <2>2, OwnRemainder
  <2>5. Same(y, y, p)
    BY <1>2, <2>4, SameReflexive
  <2>6. Become(y % p, FALSE, y)
    BY <2>3, <2>4
  <2> QED
    BY <1>1, <2>4, <2>5, <2>6, BecomeReduced DEF p
<1> QED
  BY <1>4, <1>5, <1>6

(* The steps that take another residue, or a constant with its quotient.   *)
LEMMA BinaryKeeps ==
    ASSUME EntryInv, Has, NEW b \in 0 .. entry.m.p - 1,
           AddVec(b) \/ SubVec(b) \/ MulVec(b) \/ ScalarMulVec(b) \/ LazyMul(b) \/ RaiseTo(b)
    PROVE  EntryInv'
<1> DEFINE p == entry.m.p
           m == entry.m
           x == entry.x
           w == entry.want
<1>1. /\ p \in Nat \ {0} /\ NewModulusOk(p) /\ m = NewModulus(p) /\ m.p = p
      /\ 4 * p < B /\ B \in Nat \ {0}
      /\ x \in Int /\ x \in Word /\ Same(x, w, p)
      /\ Reduced => x \in 0 .. p - 1 /\ w = x
  BY EntryTypes
<1>2. w \in Int /\ b \in 0 .. p - 1 /\ b \in Int /\ b \in Word
  <2>1. b \in 0 .. p - 1
    OBVIOUS
  <2> HIDE DEF p, w
  <2>2. w \in Int
    BY <1>1 DEF Same
  <2> QED
    BY <1>1, <2>1, <2>2 DEF Word
<1> HIDE DEF p, m, x, w
<1>3. Same(b, b, p)
  BY <1>1, <1>2, SameReflexive
<1>4. Same(x + b, w + b, p) /\ Same(x * b, w * b, p)
  <2>1. Same(x, w, p) /\ Same(b, b, p) /\ p \in Int
    BY <1>1, <1>3
  <2>2. Same(x + b, w + b, p)
    BY <2>1, SameAdd
  <2>3. Same(x * b, w * b, p)
    BY <2>1, SameTimes
  <2> QED
    BY <2>2, <2>3
<1>5. x + b \in Int /\ w + b \in Int /\ x * b \in Int /\ w * b \in Int /\ x - b \in Int
  BY <1>1, <1>2
<1>6. CASE AddVec(b)
  <2> DEFINE y == x + b
             v == w + b
  <2>1. x \in 0 .. p - 1
    BY <1>1, <1>6 DEF AddVec
  <2>2. Add(m, x, b) = y % p
    BY <1>1, <1>2, <2>1, SumsExact, ZenonT(60)
  <2>3. Become(y % p, FALSE, v) /\ y \in Int /\ v \in Int /\ Same(y, v, p)
    BY <1>4, <1>5, <1>6, <2>2 DEF AddVec, m, x, w
  <2> HIDE DEF y, v
  <2> QED
    BY <2>3, BecomeReduced DEF p
<1>7. CASE SubVec(b)
  <2> DEFINE y == x - b
  <2>1. x \in 0 .. p - 1 /\ w = x
    BY <1>1, <1>7 DEF SubVec
  <2>2. Sub(m, x, b) = y % p
    BY <1>1, <1>2, <2>1, SumsExact, ZenonT(60)
  <2>3. Become(y % p, FALSE, y) /\ y \in Int
    BY <1>5, <1>7, <2>1, <2>2 DEF SubVec, m, x, w
  <2> HIDE DEF y
  <2>4. Same(y, y, p)
    BY <1>1, <2>3, SameReflexive
  <2> QED
    BY <2>3, <2>4, BecomeReduced DEF p
<1>8. CASE MulVec(b)
  <2> DEFINE y == x * b
             v == w * b
  <2>1. x \in 0 .. p - 1
    BY <1>1, <1>8 DEF MulVec
  <2>2. MulEntry(m, x, b) = y % p
    BY <1>1, <1>2, <2>1, ProductExact
  <2>3. Become(y % p, FALSE, v) /\ y \in Int /\ v \in Int /\ Same(y, v, p)
    BY <1>4, <1>5, <1>8, <2>2 DEF MulVec, m, x, w
  <2> HIDE DEF y, v
  <2> QED
    BY <2>3, BecomeReduced DEF p
<1>9. CASE ScalarMulVec(b)
  <2> DEFINE y == x * b
             v == w * b
  <2>1. MulShoup(m, x, b, Shoup(m, b)) = y % p
    BY <1>1, <1>2, MulShoupExact
  <2>2. Become(y % p, FALSE, v) /\ y \in Int /\ v \in Int /\ Same(y, v, p)
    BY <1>4, <1>5, <1>9, <2>1 DEF ScalarMulVec, m, x, w
  <2> HIDE DEF y, v
  <2> QED
    BY <2>2, BecomeReduced DEF p
<1>10. CASE LazyMul(b)
  <2> DEFINE y == x * b
             v == w * b
             z == LazyMulShoup(m, x, b, Shoup(m, b))
  <2>1. LazyOf(z, y, p)
    BY <1>1, <1>2, MulShoupExact DEF LazyOf
  <2>2. Become(z, TRUE, v) /\ y \in Int /\ v \in Int /\ Same(y, v, p)
    BY <1>4, <1>5, <1>10 DEF LazyMul, m, x, w
  <2> HIDE DEF y, v, z
  <2> QED
    BY <2>1, <2>2, BecomeLazy DEF p
<1>11. CASE RaiseTo(b)
  <2>1. x \in 0 .. p - 1 /\ w = x /\ b \in Nat
    BY <1>1, <1>2, <1>11 DEF RaiseTo
  <2>2. PICK g : PowersOf(g, x)
    BY <1>1, PowersExist
  <2> DEFINE y == g[b]
             v == PowerOf(x, b, p)
  <2>3. y \in Int
    BY <2>1, <2>2 DEF PowersOf
  <2>4. v = y % p
    BY <1>1, <2>1, <2>2, PowerOfExact
  <2>5. Power(m, x, b) = y % p
    BY <1>1, <1>2, <2>1, <2>2, PowerExact
  <2>6. Become(y % p, FALSE, v)
    BY <1>11, <2>1, <2>5 DEF RaiseTo, m, x, w, p
  <2> HIDE DEF y, v
  <2>7. Same(y % p, y, p)
    BY <1>1, <2>3, SameMod
  <2>8. Same(y, v, p)
    BY <1>1, <2>4, <2>7, SameSymmetric
  <2>9. v \in Int
    BY <2>8 DEF Same
  <2> QED
    BY <2>3, <2>6, <2>8, <2>9, BecomeReduced DEF p
<1> QED
  BY <1>6, <1>7, <1>8, <1>9, <1>10, <1>11

(* A word times a constant. *)
LEMMA MulShoupKeeps ==
    ASSUME EntryInv, NEW a \in Word, NEW b \in 0 .. entry.m.p - 1, MulShoupWord(a, b)
    PROVE  EntryInv'
<1> DEFINE p == entry.m.p
           m == entry.m
           y == a * b
<1>1. Has
  BY DEF MulShoupWord, Fresh, Reduced
<1>2. p \in Nat \ {0} /\ NewModulusOk(p) /\ m = NewModulus(p) /\ B \in Nat \ {0}
  BY <1>1, EntryTypes
<1>3. y \in Int
  BY <1>2 DEF Word
<1> HIDE DEF p
<1>4. MulShoup(m, a, b, Shoup(m, b)) = y % p
  BY <1>2, MulShoupExact DEF p
<1>5. Become(y % p, FALSE, y)
  BY <1>4 DEF MulShoupWord
<1>6. Same(y, y, p)
  BY <1>2, <1>3, SameReflexive
<1> HIDE DEF y
<1> QED
  BY <1>1, <1>3, <1>5, <1>6, BecomeReduced DEF p

(* The centred entry is kept beside the reduced one.                       *)
LEMMA CenterKeeps ==
    ASSUME EntryInv, CenterVec
    PROVE  EntryInv'
<1>1. /\ entry = [m |-> entry.m, x |-> entry.x, lazy |-> entry.lazy, c |-> entry.c,
                  want |-> entry.want]
      /\ IsModulus(entry.m) /\ entry.lazy = FALSE
      /\ entry.x \in 0 .. (IF entry.lazy THEN 2 ELSE 1) * entry.m.p - 1
      /\ entry.x % entry.m.p = entry.want
  BY DEF EntryInv, CenterVec, Reduced, Has
<1>2. entry' = [m |-> entry.m, x |-> entry.x, lazy |-> entry.lazy,
                c |-> Center(entry.m, entry.x), want |-> entry.want]
  BY <1>1 DEF CenterVec
<1> QED
  BY <1>1, <1>2 DEF EntryInv

LEMMA StepsKeepEntry ==
    ASSUME EntryInv, [EntryNext]_entry
    PROVE  EntryInv'
<1>1. ASSUME NEW p \in Primes, MakeModulus(p)
      PROVE  EntryInv'
  BY <1>1, MakeKeeps
<1>2. ASSUME NEW a \in Word,
             ReduceVec(a) \/ LazyReduceVec(a) \/ ReduceOptEntry(a) \/ ReduceVecI64(a - (B \div 2))
      PROVE  EntryInv'
  BY <1>2, LoadKeeps
<1>3. ASSUME NEW a \in DoubleWord,
             \/ ReduceDouble(a) \/ LazyReduceDouble(a)
             \/ ReduceOptDouble(a) \/ LazyReduceOptDouble(a)
      PROVE  EntryInv'
  BY <1>3, LoadDoubleKeeps
<1>4. CASE ReduceAgain \/ NegVec \/ Invert
  BY <1>4, UnaryKeeps
<1>5. CASE CenterVec
  BY <1>5, CenterKeeps
<1>6. ASSUME Has, NEW b \in 0 .. entry.m.p - 1,
             \/ AddVec(b) \/ SubVec(b) \/ MulVec(b)
             \/ ScalarMulVec(b) \/ LazyMul(b) \/ RaiseTo(b)
      PROVE  EntryInv'
  BY <1>6, BinaryKeeps
<1>7. ASSUME NEW a \in Word, NEW b \in 0 .. entry.m.p - 1, MulShoupWord(a, b)
      PROVE  EntryInv'
  BY <1>7, MulShoupKeeps
<1>8. CASE UNCHANGED entry
  BY <1>8 DEF EntryInv
<1> QED
  BY <1>1, <1>2, <1>3, <1>4, <1>5, <1>6, <1>7, <1>8 DEF EntryNext

LEMMA EntryAlways == EntrySpec => []EntryInv
<1>1. EntryInit => EntryInv
  BY DEF EntryInit, EntryInv
<1>2. EntryInv /\ [EntryNext]_entry => EntryInv'
  BY StepsKeepEntry
<1> QED
  BY <1>1, <1>2, PTL DEF EntrySpec

(* Whatever operations made it, an entry is below p, or 2 p when lazy, and *)
(* the residue that the operations should make (EntryExact), for every     *)
(* size of words, every modulus and every sequence of operations.          *)
THEOREM EntriesAreExact == EntrySpec => []EntryExact
<1>1. EntryInv => EntryExact
  BY DEF EntryInv, EntryExact
<1> QED
  BY <1>1, EntryAlways, PTL

(* The centred entry is the same residue, in the middle range              *)
(* (CenteredExact).                                                        *)
THEOREM EntriesAreCentered == EntrySpec => []CenteredExact
<1>1. EntryInv => CenteredExact
  <2> SUFFICES ASSUME EntryInv, entry # NoEntry, entry.c # 0
               PROVE  /\ (entry.c - entry.want) % entry.m.p = 0
                      /\ -(entry.m.p + 1) <= 2 * entry.c /\ 2 * entry.c < entry.m.p
    BY DEF CenteredExact
  <2> DEFINE p == entry.m.p
             x == entry.x
             c == entry.c
  <2>1. Has /\ Reduced /\ c = IF x >= p \div 2 THEN x - p ELSE x
    BY DEF EntryInv, Has, Reduced, Center
  <2>2. p \in Nat \ {0} /\ x \in 0 .. p - 1 /\ entry.want = x
    BY <2>1, EntryTypes
  <2> HIDE DEF p, x, c
  <2> DEFINE h == p \div 2
             r == p % 2
  <2>3. h \in Int /\ r \in Int /\ 0 <= r /\ r < 2 /\ p = h * 2 + r
    BY <2>2
  <2> HIDE DEF h, r
  <2>4. CASE x >= h
    <3>1. c = x - p
      BY <2>1, <2>4 DEF h
    <3>2. -(p + 1) <= 2 * c /\ 2 * c < p
      BY <2>2, <2>3, <2>4, <3>1
    <3>3. (c - x) % p = 0
      <4> DEFINE y == c - x
      <4>1. y \in Int /\ y = (-1) * p /\ -1 \in Int
        BY <2>2, <3>1
      <4> HIDE DEF y
      <4>2. y % p = 0
        BY <2>2, <4>1, MultipleRemainder
      <4> QED
        BY <4>2 DEF y
    <3> QED
      BY <2>2, <3>2, <3>3 DEF p, x, c
  <2>5. CASE ~(x >= h)
    <3>1. c = x
      BY <2>1, <2>5 DEF h
    <3>2. -(p + 1) <= 2 * c /\ 2 * c < p
      BY <2>2, <2>3, <2>5, <3>1
    <3>3. c - x = 0 /\ 0 % p = 0
      BY <2>2, <3>1, OwnRemainder
    <3> QED
      BY <2>2, <3>2, <3>3 DEF p, x, c
  <2> QED
    BY <2>4, <2>5
<1> QED
  BY <1>1, EntryAlways, PTL

-----------------------------------------------------------------------------
(* The dot product: the invariant and the lemmas about one of its rows.    *)

(* The largest product of two residues of the j-th modulus. *)
Square(j) == (DotModuli[j] - 1) * (DotModuli[j] - 1)

(* The sum holds num products at most, or as many as were added if the     *)
(* loop never reduces; and its remainder is that of the exact sum.         *)
DotRowInv(j) ==
    /\ dot.acc[j] \in Nat /\ dot.num[j] \in Nat \ {0}
    /\ dot.want[j] = dot.acc[j] % DotModuli[j]
    /\ TooMany(dot.count) =>
          dot.num[j] < MaxAcc[j] /\ dot.acc[j] <= dot.num[j] * Square(j)
    /\ ~TooMany(dot.count) => dot.acc[j] <= (dot.count - dot.left) * Square(j)

DotInv ==
    dot # NoDot =>
        /\ dot.count \in Nat /\ dot.left \in Nat /\ dot.left <= dot.count
        /\ dot.want = [j \in DOMAIN DotModuli |-> dot.want[j]]
        /\ \A j \in DOMAIN DotModuli : DotRowInv(j)
        /\ dot.out = << >> \/ (dot.left = 0 /\ dot.out = dot.want)

(* MaxAcc products fit a double word: the leading zeros of a modulus are   *)
(* the spare bits of each factor.                                          *)
LEMMA Room ==
    ASSUME NEW j \in DOMAIN DotModuli
    PROVE  /\ DotModuli[j] \in Nat \ {0} /\ NewModulusOk(DotModuli[j])
           /\ DotModulus[j] = NewModulus(DotModuli[j])
           /\ MaxAcc[j] \in Nat /\ MaxAcc[j] >= 4 /\ Square(j) \in Nat
           /\ DotModuli[j] - 1 <= Square(j)
           /\ MaxAcc[j] * Square(j) < B * B
<1> DEFINE p == DotModuli[j]
           z == LeadingZeros[p]
           m == Pow2[2 * z]
           u == Pow2[W - z]
<1>1. p \in Nat /\ NewModulusOk(p)
  BY DotAssumption
<1>2. p \in Nat \ {0} /\ p >= 2 /\ p \in Word /\ p < B \div 4
  BY <1>1, ModulusSize
<1>3. DotModulus[j] = NewModulus(p) /\ DotModulus[j].lz = z
  BY DEF DotModulus, NewModulus
<1>4. MaxAcc[j] = m
  BY <1>3 DEF MaxAcc
<1>5. z \in 0 .. W /\ p < u /\ z >= 2 /\ W \in Nat
  BY <1>1, BitsOfModulus, WordsAssumption
<1>6. m \in Nat /\ u \in Nat /\ m >= 4 /\ m * (u * u) = B * B
  <2>1. /\ z \in Nat /\ z >= 2 /\ W \in Nat /\ z <= W /\ W - z \in Nat
        /\ z + z = 2 * z /\ (W - z) + (W - z) = 2 * (W - z)
        /\ 2 * z + 2 * (W - z) = 2 * W /\ 2 * z <= 4 * W /\ 2 * (W - z) <= 4 * W
        /\ 2 * z \in Nat /\ 2 * (W - z) \in Nat /\ 2 * W <= 4 * W
    BY <1>5
  <2> HIDE DEF z
  <2>2. m * Pow2[2 * (W - z)] = Pow2[2 * W] /\ Pow2[2 * (W - z)] = u * u
    BY <2>1, PowerOfSum
  <2>3. m \in Nat \ {0} /\ u \in Nat
    BY <2>1, PowerTypes
  <2>4. m >= 4
    <3>1. 2 * Pow2[0] <= Pow2[1] /\ 2 * Pow2[1] <= Pow2[2 * z] /\ Pow2[0] = 1
      BY <2>1, PowerGrows, PowersDouble
    <3>2. Pow2[1] \in Nat
      BY <2>1, PowerTypes
    <3> QED
      BY <2>3, <3>1, <3>2
  <2> QED
    BY <2>2, <2>3, <2>4, WordTypes
<1> DEFINE s == (p - 1) * (p - 1)
<1>7. Square(j) = s
  BY DEF Square
<1> HIDE DEF p, m, u
<1>8. s \in Nat /\ p - 1 <= s
  <2>1. (p - 1) * (p - 1) >= 0 /\ (p - 1) * (p - 2) >= 0
    BY <1>2
  <2>2. (p - 1) * (p - 2) = s - (p - 1)
    BY <1>2
  <2> QED
    BY <1>2, <2>1, <2>2
<1>9. s < u * u
  <2>1. (u - p) * (u + p) >= 0 /\ (u - p) * (u + p) = u * u - p * p
    BY <1>2, <1>5, <1>6
  <2>2. s = p * p - 2 * p + 1
    BY <1>2
  <2> QED
    BY <1>2, <1>6, <2>1, <2>2
<1>10. m * s < m * (u * u)
  <2> DEFINE v == u * u
  <2>1. v \in Int /\ s < v
    BY <1>6, <1>9
  <2> HIDE DEF s, v
  <2>2. m * (v - s) > 0 /\ m * (v - s) = m * v - m * s
    BY <1>6, <1>8, <2>1
  <2>3. m * v \in Int /\ m * s \in Int
    BY <1>6, <1>8, <2>1
  <2>4. m * s < m * v
    BY <2>2, <2>3
  <2> QED
    BY <2>4 DEF v
<1> QED
  BY <1>1, <1>2, <1>3, <1>4, <1>6, <1>7, <1>8, <1>10 DEF p

(* As many products, or fewer, fit a double word.                          *)
LEMMA Fits ==
    ASSUME NEW k \in Nat, NEW n \in Nat, k <= n, NEW s \in Nat, NEW x \in Nat, x <= k * s,
           n * s < B * B
    PROVE  x \in DoubleWord
<1>1. (n - k) * s >= 0 /\ (n - k) * s = n * s - k * s
  OBVIOUS
<1>2. k * s \in Int /\ n * s \in Int /\ B * B \in Int
  BY WordTypes
<1> QED
  BY <1>1, <1>2 DEF DoubleWord

-----------------------------------------------------------------------------
(* The steps. *)

(* Every row starts empty. *)
LEMMA StartKeeps ==
    ASSUME NEW count \in Nat, StartDot(count)
    PROVE  DotInv'
<1>1. /\ dot'.count = count /\ dot'.left = count /\ dot'.out = << >>
      /\ dot'.acc = [j \in DOMAIN DotModuli |-> 0]
      /\ dot'.num = [j \in DOMAIN DotModuli |-> 1]
      /\ dot'.want = [j \in DOMAIN DotModuli |-> 0]
  BY DEF StartDot
<1>2. ASSUME NEW j \in DOMAIN DotModuli
      PROVE  DotRowInv(j)'
  <2>1. dot'.acc[j] = 0 /\ dot'.num[j] = 1 /\ dot'.want[j] = 0
    BY <1>1
  <2>2. DotModuli[j] \in Nat \ {0} /\ MaxAcc[j] \in Nat /\ MaxAcc[j] >= 4 /\ Square(j) \in Nat
    BY Room
  <2>3. 0 % DotModuli[j] = 0
    BY <2>2, OwnRemainder
  <2>4. 0 * Square(j) = 0 /\ 1 * Square(j) = Square(j)
    BY <2>2
  <2>5. dot'.count - dot'.left = 0
    BY <1>1
  <2> QED
    BY <2>1, <2>2, <2>3, <2>4, <2>5 DEF DotRowInv
<1>3. dot'.want = [j \in DOMAIN DotModuli |-> dot'.want[j]]
  BY <1>1
<1> QED
  BY <1>1, <1>2, <1>3 DEF DotInv

(* One product is added to a row: it fits, and a row that is full is       *)
(* reduced to less than one product.                                       *)
LEMMA StepKeepsRow ==
    ASSUME DotInv, NEW f \in Factors2, MulAddStep(f.x, f.y), NEW j \in DOMAIN DotModuli
    PROVE  DotRowInv(j)'
<1> DEFINE p == DotModuli[j]
           a == dot.acc[j]
           n == dot.num[j]
           c == dot.count
           l == dot.left
           M == MaxAcc[j]
           S == Square(j)
           v == f.x[j] * f.y[j]
           t == a + v
           r == ReduceU128(DotModulus[j], t)
<1>1. /\ c \in Nat /\ l \in Nat /\ l <= c /\ l > 0 /\ DotRowInv(j)
  BY DEF DotInv, MulAddStep
<1>2. /\ dot'.count = c /\ dot'.left = l - 1
      /\ dot'.acc[j] = IF Full(j) THEN ReduceU128(DotModulus[j], Sum(f.x, f.y, j))
                       ELSE Sum(f.x, f.y, j)
      /\ dot'.num[j] = IF Full(j) THEN 1 ELSE IF TooMany(c) THEN n + 1 ELSE n
      /\ dot'.want[j] = (dot.want[j] + v) % p
  BY DEF MulAddStep
<1>3. /\ p \in Nat \ {0} /\ NewModulusOk(p) /\ DotModulus[j] = NewModulus(p)
      /\ M \in Nat /\ M >= 4 /\ S \in Nat /\ p - 1 <= S /\ M * S < B * B
  BY Room
<1>4. v \in Nat /\ v <= S
  <2>1. f.x[j] \in 0 .. p - 1 /\ f.y[j] \in 0 .. p - 1
    BY DotAssumption
  <2> QED
    BY <1>3, <2>1, ProductOfResidues DEF Square
<1>5. /\ a \in Nat /\ n \in Nat \ {0} /\ dot.want[j] = a % p
      /\ TooMany(c) => n < M /\ a <= n * S
      /\ ~TooMany(c) => a <= (c - l) * S
  BY <1>1 DEF DotRowInv
<1>6. ~TooMany(c) => c <= M
  BY <1>1, <1>3 DEF TooMany
<1>7. Full(j) <=> TooMany(c) /\ n + 1 = M
  BY DEF Full, MustReduce
<1>8. Sum(f.x, f.y, j) = t % (B * B)
  BY DEF Sum
<1>9. ((a % p) + v) % p = t % p
  <2>1. p \in Nat \ {0} /\ a \in Int /\ v \in Int
    BY <1>3, <1>4, <1>5
  <2> HIDE DEF p, a, v
  <2>2. ((a % p) + v) % p = (a + v) % p
    BY <2>1, RemainderOfSum
  <2> QED
    BY <2>2
<1> HIDE DEF p, a, n, c, l, M, S, v
<1>10. t \in Nat
  BY <1>4, <1>5
<1>11. TooMany(c) => t <= (n + 1) * S
  <2>1. (n + 1) * S = n * S + S /\ n * S \in Int
    BY <1>3, <1>5
  <2> QED
    BY <1>3, <1>4, <1>5, <2>1
<1>12. ~TooMany(c) => t <= (c - l + 1) * S
  <2>1. (c - l + 1) * S = (c - l) * S + S /\ (c - l) * S \in Int
    BY <1>1, <1>3
  <2> QED
    BY <1>3, <1>4, <1>5, <2>1
<1> HIDE DEF t
<1>13. t \in DoubleWord
  <2>1. CASE TooMany(c)
    <3>1. n + 1 \in Nat /\ n + 1 <= M
      BY <1>3, <1>5, <2>1
    <3> DEFINE k == n + 1
    <3>2. k \in Nat /\ k <= M /\ t <= k * S
      BY <1>11, <2>1, <3>1
    <3> HIDE DEF k
    <3> QED
      BY <1>3, <1>10, <3>2, Fits
  <2>2. CASE ~TooMany(c)
    <3> DEFINE k == c - l + 1
    <3>1. k \in Nat /\ k <= M /\ t <= k * S
      BY <1>1, <1>3, <1>6, <1>12, <2>2
    <3> HIDE DEF k
    <3> QED
      BY <1>3, <1>10, <3>1, Fits
  <2> QED
    BY <2>1, <2>2
<1>14. Sum(f.x, f.y, j) = t
  <2> DEFINE n2 == B * B
  <2>1. n2 \in Nat \ {0} /\ t \in Int /\ 0 <= t /\ t < n2
    BY <1>13, WordTypes DEF DoubleWord
  <2> HIDE DEF n2
  <2>2. t % n2 = t
    BY <2>1, OwnRemainder
  <2> QED
    BY <1>8, <2>2 DEF n2
<1>15. r = t % p /\ r \in 0 .. p - 1
  BY <1>3, <1>13, ReduceU128Exact
<1>16. r % p = r
  <2> HIDE DEF r
  <2> QED
    BY <1>3, <1>15, OwnRemainder
<1>17. dot'.want[j] = t % p
  BY <1>2, <1>5, <1>9
<1> HIDE DEF r
<1>18. CASE Full(j)
  <2>1. dot'.acc[j] = r /\ dot'.num[j] = 1 /\ TooMany(dot'.count)
    BY <1>2, <1>7, <1>14, <1>18 DEF r
  <2>2. 1 * S = S
    BY <1>3
  <2>3. r \in Nat /\ r <= S
    BY <1>3, <1>15
  <2>4. dot'.want[j] = dot'.acc[j] % p
    BY <1>15, <1>16, <1>17, <2>1
  <2> QED
    BY <1>3, <2>1, <2>2, <2>3, <2>4 DEF DotRowInv, p, M, S
<1>19. CASE ~Full(j)
  <2>1. dot'.acc[j] = t /\ dot'.want[j] = dot'.acc[j] % p
    BY <1>2, <1>14, <1>17, <1>19
  <2>2. CASE TooMany(c)
    <3>1. dot'.num[j] = n + 1 /\ n + 1 < M
      BY <1>2, <1>3, <1>5, <1>7, <1>19, <2>2
    <3>2. TooMany(dot'.count)
      BY <1>2, <2>2
    <3>3. dot'.num[j] \in Nat \ {0} /\ dot'.acc[j] <= dot'.num[j] * S
      BY <1>5, <1>11, <2>1, <2>2, <3>1
    <3> QED
      BY <1>10, <2>1, <3>1, <3>2, <3>3 DEF DotRowInv, p, M, S
  <2>3. CASE ~TooMany(c)
    <3>1. dot'.num[j] = n
      BY <1>2, <1>19, <2>3
    <3>2. ~TooMany(dot'.count) /\ dot'.count - dot'.left = c - l + 1
      BY <1>1, <1>2, <2>3
    <3>3. dot'.acc[j] <= (dot'.count - dot'.left) * S
      BY <1>12, <2>1, <2>3, <3>2
    <3> QED
      BY <1>5, <1>10, <2>1, <3>1, <3>2, <3>3 DEF DotRowInv, p, M, S
  <2> QED
    BY <2>2, <2>3
<1> QED
  BY <1>18, <1>19

LEMMA StepKeeps ==
    ASSUME DotInv, NEW f \in Factors2, MulAddStep(f.x, f.y)
    PROVE  DotInv'
<1>1. dot.count \in Nat /\ dot.left \in Nat /\ dot.left <= dot.count /\ dot.left > 0
  BY DEF DotInv, MulAddStep
<1>2. dot.out = << >>
  BY <1>1 DEF DotInv, MulAddStep
<1>3. dot'.count = dot.count /\ dot'.left = dot.left - 1 /\ dot'.out = dot.out
  BY DEF MulAddStep
<1>4. \A j \in DOMAIN DotModuli : DotRowInv(j)'
  BY StepKeepsRow
<1>5. dot'.want = [j \in DOMAIN DotModuli |-> dot'.want[j]]
  BY DEF MulAddStep
<1> QED
  BY <1>1, <1>2, <1>3, <1>4, <1>5 DEF DotInv

(* The last reduction gives the remainders that were kept. *)
LEMMA FinishKeeps ==
    ASSUME DotInv, FinishDot
    PROVE  DotInv'
<1>1. /\ dot.count \in Nat /\ dot.left = 0
      /\ dot.want = [j \in DOMAIN DotModuli |-> dot.want[j]]
      /\ \A j \in DOMAIN DotModuli : DotRowInv(j)
  BY DEF DotInv, FinishDot
<1>2. /\ dot'.count = dot.count /\ dot'.left = dot.left /\ dot'.acc = dot.acc
      /\ dot'.num = dot.num /\ dot'.want = dot.want
      /\ dot'.out = [j \in DOMAIN DotModuli |-> ReduceU128(DotModulus[j], dot.acc[j])]
  BY DEF FinishDot
<1>3. \A j \in DOMAIN DotModuli : DotRowInv(j)'
  BY <1>1, <1>2 DEF DotRowInv
<1>4. ASSUME NEW j \in DOMAIN DotModuli
      PROVE  ReduceU128(DotModulus[j], dot.acc[j]) = dot.want[j]
  <2> DEFINE a == dot.acc[j]
             n == dot.num[j]
             c == dot.count
             M == MaxAcc[j]
             S == Square(j)
  <2>1. /\ DotModuli[j] \in Nat /\ NewModulusOk(DotModuli[j])
        /\ DotModulus[j] = NewModulus(DotModuli[j])
        /\ M \in Nat /\ S \in Nat /\ M * S < B * B
    BY Room
  <2>2. /\ a \in Nat /\ n \in Nat \ {0} /\ dot.want[j] = a % DotModuli[j]
        /\ TooMany(c) => n < M /\ a <= n * S
        /\ ~TooMany(c) => a <= (c - 0) * S
    BY <1>1 DEF DotRowInv
  <2>3. ~TooMany(c) => c <= M
    BY <1>1, <2>1 DEF TooMany
  <2>4. c \in Nat /\ c - 0 = c
    BY <1>1
  <2> HIDE DEF a, n, c, M, S
  <2>5. a \in DoubleWord
    <3>1. CASE TooMany(c)
      BY <2>1, <2>2, <3>1, Fits
    <3>2. CASE ~TooMany(c)
      BY <2>1, <2>2, <2>3, <2>4, <3>2, Fits
    <3> QED
      BY <3>1, <3>2
  <2>6. ReduceU128(DotModulus[j], a) = a % DotModuli[j]
    BY <2>1, <2>5, ReduceU128Exact
  <2> QED
    BY <2>2, <2>6 DEF a
<1>5. dot'.out = dot'.want
  BY <1>1, <1>2, <1>4
<1> QED
  BY <1>1, <1>2, <1>3, <1>5 DEF DotInv

(* However many products are summed, of whatever residues and moduli, the  *)
(* coefficients are those of the exact sum (DotExact): rq::dot_product     *)
(* reduces often enough for no sum to exceed its double word.              *)
THEOREM DotIsExact == DotSpec => []DotExact
<1>1. DotInit => DotInv
  BY DEF DotInit, DotInv
<1>2. DotInv /\ [DotNext]_dot => DotInv'
  <2> SUFFICES ASSUME DotInv, [DotNext]_dot
               PROVE  DotInv'
    OBVIOUS
  <2>1. ASSUME NEW count \in Counts, StartDot(count)
        PROVE  DotInv'
    BY <2>1, StartKeeps, DotAssumption
  <2>2. ASSUME NEW f \in Factors2, MulAddStep(f.x, f.y)
        PROVE  DotInv'
    BY <2>2, StepKeeps
  <2>3. CASE FinishDot
    BY <2>3, FinishKeeps
  <2>4. CASE UNCHANGED dot
    BY <2>4 DEF DotInv, DotRowInv
  <2> QED
    BY <2>1, <2>2, <2>3, <2>4 DEF DotNext
<1>3. DotInv => DotExact
  BY DEF DotInv, DotExact
<1> QED
  BY <1>1, <1>2, <1>3, PTL DEF DotSpec

-----------------------------------------------------------------------------
(* Whole transforms.                                                       *)

FirstForward(a, r) == ForwardStarted(RowOf(a, "power", r), FALSE)

ForwardRun(f, a, r) ==
    f = [k \in 0 .. N - 1 |-> IF k = 0 THEN FirstForward(a, r) ELSE ForwardChunked(f[k - 1])]

(* The last row of a run exists: a degree is 2 at least.                   *)
LEMMA LastRow == N - 1 \in Nat /\ N - 1 \in 0 .. N - 1 /\ 0 \in 0 .. N - 1 /\ N >= 2 /\ N \in Int
BY Degree

(* The first row of a run.                                                 *)
LEMMA RowOfTypes ==
    ASSUME SupportsNtt, NEW r \in Roots, NEW a \in [Index -> 0 .. P - 1], NEW rep \in {"power", "ntt"}
    PROVE  /\ RowOf(a, rep, r) \in RowSet
           /\ RowOf(a, rep, r).a = a /\ RowOf(a, rep, r).root = r /\ RowOf(a, rep, r).rep = rep
           /\ RowOf(a, rep, r).pass = NoPass /\ RowOf(a, rep, r).want = a
           /\ RowOf(a, rep, r).lazy = FALSE
<1>1. a \in [Index -> Int]
  BY WantTypes
<1> DEFINE q == NoPass
           v == [root |-> r, a |-> a, rep |-> rep, lazy |-> FALSE, pass |-> q, left |-> 0, want |-> a]
<1>2. RowOf(a, rep, r) = v
  BY DEF RowOf
<1>3. q \in Passes
  BY NoPassTypes
<1> HIDE DEF q
<1>4. v \in RowSet
  BY <1>1, <1>3 DEF RowSet
<1>5. /\ v.a = a /\ v.root = r /\ v.rep = rep /\ v.pass = q /\ v.want = a /\ v.lazy = FALSE
  OBVIOUS
<1> QED
  BY <1>2, <1>4, <1>5 DEF q

(* Starting a pass forwards holds the polynomial, folded once.             *)
LEMMA ForwardFirst ==
    ASSUME SupportsNtt, NEW r \in Roots, NEW w \in [Index -> 0 .. P - 1],
           NEW u, u = FirstForward(w, r)
    PROVE  u \in RowSet /\ ForwardHeld(u, w) /\ u.pass.k = 1 /\ ~u.pass.keepLazy /\ u.root = r
<1> DEFINE q == Pass("forward", FALSE, FALSE, N \div 2, 0, 1)
           v == RowOf(w, "power", r)
<1>1. u = [v EXCEPT !.pass = q]
  BY DEF FirstForward, ForwardStarted
<1>2. /\ v \in RowSet /\ v.a = w /\ v.root = r /\ v.rep = "power"
  BY RowOfTypes, ZenonT(60)
<1>3. IsLevel(N \div 2, 1)
  BY FirstLevel
<1>4. N \div 2 \in Int
  BY <1>3, LevelTypes
<1>5. /\ q \in Passes /\ q.dir = "forward" /\ q.vt = FALSE /\ q.keepLazy = FALSE
      /\ q.l = N \div 2 /\ q.i = 0 /\ q.k = 1
  BY <1>4, FirstPass
<1> HIDE DEF q, v
<1>6. u \in RowSet /\ u.a = w /\ u.root = r /\ u.rep = "power" /\ u.pass = q
  BY <1>1, <1>2, <1>5 DEF RowSet
<1>7. /\ w \in [Index -> Int]
      /\ \A x \in Index : w[x] \in 0 .. 4 * P - 1 /\ Same(w[x], w[x], P)
  BY WantTypes
<1>8. Forwards(w, w, r, N \div 2, 0)
  BY <1>7, ForwardBegins
<1>9. Finished(w, N \div 2, 0, FALSE)
  BY NothingFinished
<1>10. ForwardHeld(u, w)
  <2>1. 0 \in 0 .. 1 - 1 /\ 1 = 1 + 0
    OBVIOUS
  <2> QED
    BY <1>3, <1>5, <1>6, <1>8, <1>9, <2>1 DEF ForwardHeld
<1> QED
  BY <1>5, <1>6, <1>10

(* A run of rows exists. Steps that no run takes stay where they are.      *)
LEMMA ForwardRunExists ==
    ASSUME SupportsNtt, NEW r \in Roots, NEW w \in [Index -> 0 .. P - 1]
    PROVE  \E f : ForwardRun(f, w, r)
<1> DEFINE u == FirstForward(w, r)
           Filled(v, k) == v.root = r /\ ForwardHeld(v, w) /\ v.pass.k = k
           Next1(k, v) == IF Filled(v, k) THEN ForwardChunked(v) ELSE v
           step == [x \in (1 .. N - 1) \X RowSet |-> Next1(x[1], x[2])]
<1>1. u \in RowSet /\ Filled(u, 1)
  <2> HIDE DEF Filled, Next1, step
  <2>1. u = FirstForward(w, r)
    OBVIOUS
  <2> HIDE DEF u
  <2>2. u \in RowSet /\ u.root = r /\ ForwardHeld(u, w) /\ u.pass.k = 1
    BY <2>1, ForwardFirst
  <2> QED
    BY <2>2 DEF Filled
<1>2. ASSUME NEW k \in 1 .. N - 1, NEW v \in RowSet PROVE Next1(k, v) \in RowSet
  <2>1. CASE Filled(v, k)
    BY <2>1, ForwardChunkedExact
  <2>2. CASE ~Filled(v, k)
    BY <2>2
  <2> QED
    BY <2>1, <2>2
<1>3. step \in [(1 .. N - 1) \X RowSet -> RowSet]
  <2> HIDE DEF Next1
  <2> QED
    BY <1>2
<1>4. \A k \in 1 .. N - 1, v \in RowSet : step[<< k, v >>] = Next1(k, v)
  <2> HIDE DEF Next1
  <2> QED
    OBVIOUS
<1> HIDE DEF step, u
<1>5. PICK g \in [0 .. N - 1 -> RowSet] : Steps(g, N - 1, u, step)
  BY <1>1, <1>3, LastRow, RecursionExists
<1>6. \A k \in 1 .. N - 1 : g[k] = Next1(k, g[k - 1])
  <2> HIDE DEF Next1
  <2>1. \A k \in 1 .. N - 1 : g[k - 1] \in RowSet
    BY LastRow
  <2> QED
    BY <1>4, <1>5, <2>1 DEF Steps
<1> DEFINE U == {k \in 0 .. N - 1 : k < N - 1 => Filled(g[k], k + 1)}
<1>7. 0 \in U
  <2>1. g[0] = u
    BY <1>5 DEF Steps
  <2> QED
    BY <1>1, <2>1, LastRow
<1>8. ASSUME NEW k \in 0 .. (N - 1) - 1, k \in U PROVE k + 1 \in U
  <2>1. Filled(g[k], k + 1) /\ k + 1 \in 1 .. N - 1 /\ (k + 1) - 1 = k /\ g[k] \in RowSet
    BY <1>8, LastRow
  <2>2. g[k + 1] = ForwardChunked(g[k])
    BY <1>6, <2>1
  <2>3. k + 1 < N - 1 => Filled(g[k + 1], (k + 1) + 1)
    <3> SUFFICES ASSUME k + 1 < N - 1 PROVE Filled(g[k + 1], (k + 1) + 1)
      OBVIOUS
    <3>1. (k + 1) + 1 # N
      BY LastRow
    <3> DEFINE v == g[k]
               t == g[k + 1]
    <3>2. v \in RowSet /\ ForwardHeld(v, w) /\ v.root = r /\ v.pass.k = k + 1 /\ t = ForwardChunked(v)
      BY <2>1, <2>2
    <3> HIDE DEF v, t
    <3>3. t.root = v.root /\ ForwardHeld(t, w) /\ t.pass.k = v.pass.k + 1
      BY <3>1, <3>2, ForwardChunkedExact
    <3> QED
      BY <3>2, <3>3 DEF t
  <2> HIDE DEF Filled
  <2> QED
    BY <2>1, <2>3, LastRow
<1> HIDE DEF U
<1>9. \A k \in 0 .. N - 1 : k \in U
  BY <1>7, <1>8, LastRow, InductionUpTo
<1>10. ASSUME NEW k \in 1 .. N - 1 PROVE g[k] = ForwardChunked(g[k - 1])
  <2>1. k - 1 \in 0 .. N - 1 /\ k - 1 < N - 1 /\ (k - 1) + 1 = k
    BY LastRow
  <2>2. Filled(g[k - 1], (k - 1) + 1)
    BY <1>9, <2>1 DEF U
  <2>3. Filled(g[k - 1], k)
    BY <2>1, <2>2
  <2> QED
    BY <1>6, <2>3
<1>11. g[0] = u
  BY <1>5 DEF Steps
<1>12. \A k \in 0 .. N - 1 : k # 0 => k \in 1 .. N - 1
  OBVIOUS
<1>13. g = [k \in 0 .. N - 1 |-> IF k = 0 THEN u ELSE ForwardChunked(g[k - 1])]
  BY <1>10, <1>11, <1>12
<1>14. ForwardRun(g, w, r)
  BY <1>13 DEF ForwardRun, u
<1> QED
  BY <1>14


(* All chunks forwards: the values at the odd powers of the root.          *)
LEMMA ForwardWholeExact ==
    ASSUME SupportsNtt, NEW r \in Roots, NEW w \in [Index -> 0 .. P - 1]
    PROVE  \A x \in Index : ForwardWhole(w, r)[x] = Evaluate(w, r, x)
<1> DEFINE g == CHOOSE f : ForwardRun(f, w, r)
           Filled(v, k) == /\ v \in RowSet /\ v.root = r /\ ForwardHeld(v, w) /\ v.pass.k = k
                         /\ ~v.pass.keepLazy
           Ended(v) == HoldsValues(v.a, w, r, P)
           U == {k \in 0 .. N - 1 : IF k = N - 1 THEN Ended(g[k]) ELSE Filled(g[k], k + 1)}
<1>1. ForwardWhole(w, r) = g[N - 1].a
  BY DEF ForwardWhole, ForwardRun, FirstForward
<1>2. ForwardRun(g, w, r)
  BY ForwardRunExists
<1> HIDE DEF g
<1>3. g[0] = FirstForward(w, r) /\ \A k \in 1 .. N - 1 : g[k] = ForwardChunked(g[k - 1])
  BY <1>2, LastRow DEF ForwardRun
<1>4. 0 \in U
  <2> HIDE DEF Ended
  <2> DEFINE u == g[0]
  <2>1. u = FirstForward(w, r)
    BY <1>3
  <2> HIDE DEF u
  <2>2. Filled(u, 1)
    BY <2>1, ForwardFirst
  <2> HIDE DEF Filled
  <2> QED
    BY <2>2, LastRow DEF u
<1>5. ASSUME NEW k \in 0 .. (N - 1) - 1, k \in U PROVE k + 1 \in U
  <2> DEFINE v == g[k]
             u == g[k + 1]
  <2>1. Filled(v, k + 1)
    <3> HIDE DEF Filled, Ended
    <3> QED
      BY <1>5, LastRow
  <2>2. u = ForwardChunked(v)
    <3>1. k + 1 \in 1 .. N - 1 /\ (k + 1) - 1 = k
      BY LastRow
    <3> QED
      BY <1>3, <3>1
  <2> HIDE DEF v, u, Ended
  <2>3. \/ k + 1 + 1 < N /\ Filled(u, (k + 1) + 1)
        \/ k + 1 + 1 = N /\ HoldsValues(u.a, w, r, P)
    <3>1. /\ u \in RowSet /\ u.root = v.root
          /\ \/ /\ v.pass.k + 1 < N /\ ForwardHeld(u, w) /\ u.pass.k = v.pass.k + 1
                /\ u.pass.keepLazy = v.pass.keepLazy
             \/ /\ v.pass.k + 1 = N /\ u.lazy = v.pass.keepLazy
                /\ HoldsValues(u.a, w, u.root, IF u.lazy THEN 4 * P ELSE P)
      BY <2>1, <2>2, ForwardChunkedExact
    <3> QED
      BY <2>1, <3>1
  <2>4. k + 1 \in 0 .. N - 1
    BY LastRow
  <2>5. CASE k + 1 + 1 < N /\ Filled(u, (k + 1) + 1)
    <3> HIDE DEF Filled
    <3> QED
      BY <2>4, <2>5, LastRow DEF u
  <2>6. CASE k + 1 + 1 = N /\ HoldsValues(u.a, w, r, P)
    <3> HIDE DEF Filled
    <3> QED
      BY <2>4, <2>6, LastRow DEF u, Ended
  <2> QED
    BY <2>3, <2>5, <2>6
<1> HIDE DEF U
<1>6. \A k \in 0 .. N - 1 : k \in U
  BY <1>4, <1>5, LastRow, InductionUpTo
<1>7. HoldsValues(g[N - 1].a, w, r, P)
  BY <1>6, LastRow DEF U
<1>8. ASSUME NEW x \in Index PROVE ForwardWhole(w, r)[x] = Evaluate(w, r, x)
  <2> DEFINE y == ForwardWhole(w, r)[x]
  <2>1. y \in 0 .. P - 1 /\ y % P = Evaluate(w, r, x)
    BY <1>1, <1>7 DEF HoldsValues
  <2> HIDE DEF y
  <2>2. P \in Nat \ {0}
    BY TransformModulus
  <2>3. y % P = y
    BY <2>1, <2>2, OwnRemainder
  <2> QED
    BY <2>1, <2>3 DEF y
<1> QED
  BY <1>8

(* Backwards. *)
FirstBackward(a, r) == BackwardStarted(RowOf(a, "ntt", r), FALSE)

BackwardRun(f, a, r) ==
    f = [k \in 0 .. N - 1 |-> IF k = 0 THEN FirstBackward(a, r) ELSE BackwardChunked(f[k - 1])]

(* Starting a pass backwards holds the polynomial of the values.           *)
LEMMA BackwardFirst ==
    ASSUME SupportsNtt, NEW r \in Roots, NEW w \in [Index -> 0 .. P - 1],
           NEW a \in [Index -> 0 .. P - 1], HoldsValues(a, w, r, P), NEW u, u = FirstBackward(a, r)
    PROVE  u \in RowSet /\ BackwardHeld(u, w) /\ u.pass.k = 0 /\ u.root = r
<1> DEFINE q == Pass("backward", FALSE, FALSE, 1, 0, 0)
           v == RowOf(a, "ntt", r)
<1>1. u = [v EXCEPT !.pass = q]
  BY DEF FirstBackward, BackwardStarted
<1>2. /\ v \in RowSet /\ v.a = a /\ v.root = r /\ v.rep = "ntt" /\ ~v.lazy
  BY RowOfTypes, ZenonT(60)
<1>3. /\ q \in Passes /\ q.dir = "backward" /\ q.l = 1 /\ q.i = 0 /\ q.k = 0
  BY DEF Pass, Passes
<1> HIDE DEF q, v
<1>4. /\ u \in RowSet /\ u.a = a /\ u.root = r /\ u.rep = "ntt" /\ ~u.lazy /\ u.pass = q
  BY <1>1, <1>2, <1>3 DEF RowSet
<1>5. w \in [Index -> Int] /\ P \in Nat \ {0} /\ P \in Int
  BY WantTypes, TransformModulus
<1>6. ASSUME NEW x \in Index
      PROVE  a[x] \in 0 .. 2 * P - 1 /\ Same(a[x], Fold(w, r, 1, x, 0), P)
  <2> DEFINE y == a[x]
             f == Fold(w, r, 1, x, 0)
             e == Evaluate(w, r, x)
  <2>1. y \in 0 .. P - 1 /\ y % P = e
    BY DEF HoldsValues
  <2>2. f \in Int /\ e = f % P
    BY <1>5, FoldOne
  <2> HIDE DEF y, f, e
  <2>3. y % P = y
    <3>1. P \in Nat \ {0} /\ y \in Int /\ 0 <= y /\ y < P
      BY <1>5, <2>1
    <3> QED
      BY <3>1, OwnRemainder
  <2>4. y = f % P
    BY <2>1, <2>2, <2>3
  <2>5. Same(y, f, P)
    BY <1>5, <2>2, <2>4, SameMod
  <2> QED
    BY <1>5, <2>1, <2>5 DEF y, f
<1>7. Backwards(a, w, r, 1, 0)
  BY <1>5, <1>6, BackwardBegins
<1> DEFINE m == N \div 2
<1>8. IsLevel(1, m)
  BY FirstLevel
<1> HIDE DEF m
<1>9. 0 \in 0 .. m - 1 /\ 0 = N - 2 * m + 0
  <2>1. m \in Nat \ {0} /\ m * (2 * 1) = N
    BY <1>8, LevelSize
  <2> QED
    BY <2>1
<1>10. BackwardHeld(u, w)
  BY <1>3, <1>4, <1>7, <1>8, <1>9 DEF BackwardHeld
<1> QED
  BY <1>3, <1>4, <1>10

(* A run of rows backwards exists.                                         *)
LEMMA BackwardRunExists ==
    ASSUME SupportsNtt, NEW r \in Roots, NEW w \in [Index -> 0 .. P - 1],
           NEW a \in [Index -> 0 .. P - 1], HoldsValues(a, w, r, P)
    PROVE  \E f : BackwardRun(f, a, r)
<1> DEFINE u == FirstBackward(a, r)
           Filled(v, k) == v.root = r /\ BackwardHeld(v, w) /\ v.pass.k = k - 1
           Next1(k, v) == IF Filled(v, k) THEN BackwardChunked(v) ELSE v
           step == [x \in (1 .. N - 1) \X RowSet |-> Next1(x[1], x[2])]
<1>1. u \in RowSet /\ Filled(u, 1)
  <2> HIDE DEF Filled, Next1, step
  <2>1. u = FirstBackward(a, r)
    OBVIOUS
  <2> HIDE DEF u
  <2>2. u \in RowSet /\ u.root = r /\ BackwardHeld(u, w) /\ u.pass.k = 1 - 1
    BY <2>1, BackwardFirst
  <2> QED
    BY <2>2 DEF Filled
<1>2. ASSUME NEW k \in 1 .. N - 1, NEW v \in RowSet PROVE Next1(k, v) \in RowSet
  <2>1. CASE Filled(v, k)
    BY <2>1, BackwardChunkedExact
  <2>2. CASE ~Filled(v, k)
    BY <2>2
  <2> QED
    BY <2>1, <2>2
<1>3. step \in [(1 .. N - 1) \X RowSet -> RowSet]
  <2> HIDE DEF Next1
  <2> QED
    BY <1>2
<1>4. \A k \in 1 .. N - 1, v \in RowSet : step[<< k, v >>] = Next1(k, v)
  <2> HIDE DEF Next1
  <2> QED
    OBVIOUS
<1> HIDE DEF step, u
<1>5. PICK g \in [0 .. N - 1 -> RowSet] : Steps(g, N - 1, u, step)
  BY <1>1, <1>3, LastRow, RecursionExists
<1>6. \A k \in 1 .. N - 1 : g[k] = Next1(k, g[k - 1])
  <2> HIDE DEF Next1
  <2>1. \A k \in 1 .. N - 1 : g[k - 1] \in RowSet
    BY LastRow
  <2> QED
    BY <1>4, <1>5, <2>1 DEF Steps
<1> DEFINE U == {k \in 0 .. N - 1 : k < N - 1 => Filled(g[k], k + 1)}
<1>7. 0 \in U
  <2>1. g[0] = u
    BY <1>5 DEF Steps
  <2> QED
    BY <1>1, <2>1, LastRow
<1>8. ASSUME NEW k \in 0 .. (N - 1) - 1, k \in U PROVE k + 1 \in U
  <2>1. Filled(g[k], k + 1) /\ k + 1 \in 1 .. N - 1 /\ (k + 1) - 1 = k /\ g[k] \in RowSet
    BY <1>8, LastRow
  <2>2. g[k + 1] = BackwardChunked(g[k])
    BY <1>6, <2>1
  <2>3. k + 1 < N - 1 => Filled(g[k + 1], (k + 1) + 1)
    <3> SUFFICES ASSUME k + 1 < N - 1 PROVE Filled(g[k + 1], (k + 1) + 1)
      OBVIOUS
    <3>1. k + 2 # N
      BY LastRow
    <3> DEFINE v == g[k]
               t == g[k + 1]
    <3>2. v \in RowSet /\ BackwardHeld(v, w) /\ v.root = r /\ v.pass.k = k /\ t = BackwardChunked(v)
      BY <2>1, <2>2
    <3> HIDE DEF v, t
    <3>3. t.root = v.root /\ BackwardHeld(t, w) /\ t.pass.k = v.pass.k + 1
      BY <3>1, <3>2, BackwardChunkedExact
    <3>4. (k + 1) + 1 - 1 = k + 1
      OBVIOUS
    <3> QED
      BY <3>2, <3>3, <3>4 DEF t
  <2> HIDE DEF Filled
  <2> QED
    BY <2>1, <2>3, LastRow
<1> HIDE DEF U
<1>9. \A k \in 0 .. N - 1 : k \in U
  BY <1>7, <1>8, LastRow, InductionUpTo
<1>10. ASSUME NEW k \in 1 .. N - 1 PROVE g[k] = BackwardChunked(g[k - 1])
  <2>1. k - 1 \in 0 .. N - 1 /\ k - 1 < N - 1 /\ (k - 1) + 1 = k
    BY LastRow
  <2>2. Filled(g[k - 1], (k - 1) + 1)
    BY <1>9, <2>1 DEF U
  <2>3. Filled(g[k - 1], k)
    BY <2>1, <2>2
  <2> QED
    BY <1>6, <2>3
<1>11. g[0] = u
  BY <1>5 DEF Steps
<1>12. \A k \in 0 .. N - 1 : k # 0 => k \in 1 .. N - 1
  OBVIOUS
<1>13. g = [k \in 0 .. N - 1 |-> IF k = 0 THEN u ELSE BackwardChunked(g[k - 1])]
  BY <1>10, <1>11, <1>12
<1>14. BackwardRun(g, a, r)
  BY <1>13 DEF BackwardRun, u
<1> QED
  BY <1>14

(* All chunks backwards: the polynomial that has these values.             *)
LEMMA BackwardWholeExact ==
    ASSUME SupportsNtt, NEW r \in Roots, NEW w \in [Index -> 0 .. P - 1],
           NEW a \in [Index -> 0 .. P - 1], HoldsValues(a, w, r, P)
    PROVE  BackwardWhole(a, r) = w
<1> DEFINE g == CHOOSE f : BackwardRun(f, a, r)
           Filled(v, k) == v \in RowSet /\ v.root = r /\ BackwardHeld(v, w) /\ v.pass.k = k
           U == {k \in 0 .. N - 1 : IF k = N - 1 THEN g[k].a = w ELSE Filled(g[k], k)}
<1>1. BackwardWhole(a, r) = g[N - 1].a
  BY DEF BackwardWhole, BackwardRun, FirstBackward
<1>2. BackwardRun(g, a, r)
  BY BackwardRunExists
<1> HIDE DEF g
<1>3. g[0] = FirstBackward(a, r) /\ \A k \in 1 .. N - 1 : g[k] = BackwardChunked(g[k - 1])
  BY <1>2, LastRow DEF BackwardRun
<1>4. 0 \in U
  <2> DEFINE u == g[0]
  <2>1. u = FirstBackward(a, r)
    BY <1>3
  <2> HIDE DEF u
  <2>2. Filled(u, 0)
    BY <2>1, BackwardFirst
  <2> HIDE DEF Filled
  <2> QED
    BY <2>2, LastRow DEF u
<1>5. ASSUME NEW k \in 0 .. (N - 1) - 1, k \in U PROVE k + 1 \in U
  <2> DEFINE v == g[k]
             u == g[k + 1]
  <2>1. Filled(v, k)
    <3> HIDE DEF Filled
    <3> QED
      BY <1>5, LastRow
  <2>2. u = BackwardChunked(v)
    <3>1. k + 1 \in 1 .. N - 1 /\ (k + 1) - 1 = k
      BY LastRow
    <3> QED
      BY <1>3, <3>1
  <2> HIDE DEF v, u
  <2>3. \/ k + 2 < N /\ Filled(u, k + 1)
        \/ k + 2 = N /\ u.a = w
    BY <2>1, <2>2, BackwardChunkedExact
  <2>4. k + 1 \in 0 .. N - 1
    BY LastRow
  <2>5. CASE k + 2 < N /\ Filled(u, k + 1)
    <3> HIDE DEF Filled
    <3> QED
      BY <2>4, <2>5, LastRow DEF u
  <2>6. CASE k + 2 = N /\ u.a = w
    <3> HIDE DEF Filled
    <3> QED
      BY <2>4, <2>6, LastRow DEF u
  <2> QED
    BY <2>3, <2>5, <2>6
<1> HIDE DEF U
<1>6. \A k \in 0 .. N - 1 : k \in U
  BY <1>4, <1>5, LastRow, InductionUpTo
<1> QED
  BY <1>1, <1>6, LastRow DEF U


-----------------------------------------------------------------------------
(* Every vector is the values of a polynomial: there are as many vectors   *)
(* as polynomials, and the transform is injective.                         *)

(* An injective map of a finite set to itself reaches all of it.           *)
LEMMA InjectiveOnto ==
    ASSUME NEW S, IsFiniteSet(S), NEW f \in [S -> S], \A x, y \in S : f[x] = f[y] => x = y
    PROVE  \A y \in S : \E x \in S : f[x] = y
<1>1. f \in Injection(S, S)
  BY DEF Injection, IsInjective
<1>2. f \in Surjection(S, S)
  BY <1>1, FS_Injection
<1> QED
  BY <1>2 DEF Surjection

(* There are finitely many vectors over a finite set.                      *)
LEMMA FiniteVectors ==
    ASSUME NEW V, IsFiniteSet(V), NEW n \in Nat
    PROVE  IsFiniteSet([0 .. n - 1 -> V])
<1> DEFINE F(k) == [0 .. k - 1 -> V]
           U == {k \in 0 .. n : IsFiniteSet(F(k))}
<1>1. 0 \in U
  <2> DEFINE e == [x \in {} |-> 0]
  <2>1. F(0) \subseteq {e}
    <3>1. 0 .. 0 - 1 = {}
      OBVIOUS
    <3> QED
      BY <3>1
  <2> HIDE DEF F, e
  <2>2. IsFiniteSet({e})
    BY FS_Singleton
  <2> QED
    BY <2>1, <2>2, FS_Subset
<1>2. ASSUME NEW k \in 0 .. n - 1, k \in U PROVE k + 1 \in U
  <2> DEFINE S == F(k) \X V
             T == F(k + 1)
             f == [s \in S |-> [x \in 0 .. (k + 1) - 1 |-> IF x = k THEN s[2] ELSE s[1][x]]]
  <2>1. IsFiniteSet(S)
    <3>1. IsFiniteSet(F(k))
      BY <1>2
    <3> HIDE DEF F
    <3> QED
      BY <3>1, FS_Product
  <2>2. f \in [S -> T]
    <3>1. ASSUME NEW s \in S
          PROVE  [x \in 0 .. (k + 1) - 1 |-> IF x = k THEN s[2] ELSE s[1][x]] \in T
      <4>1. s[2] \in V /\ s[1] \in F(k)
        OBVIOUS
      <4>2. \A x \in 0 .. (k + 1) - 1 : x # k => x \in 0 .. k - 1
        OBVIOUS
      <4> QED
        BY <4>1, <4>2
    <3> HIDE DEF S, T
    <3> QED
      BY <3>1
  <2>3. ASSUME NEW t \in T PROVE \E s \in S : f[s] = t
    <3> DEFINE s == << [x \in 0 .. k - 1 |-> t[x]], t[k] >>
    <3>1. \A x \in 0 .. k - 1 : x \in 0 .. (k + 1) - 1
      OBVIOUS
    <3>2. k \in 0 .. (k + 1) - 1
      OBVIOUS
    <3>3. s \in S
      BY <3>1, <3>2
    <3>4. ASSUME NEW x \in 0 .. (k + 1) - 1
          PROVE  (IF x = k THEN s[2] ELSE s[1][x]) = t[x]
      <4>1. x # k => x \in 0 .. k - 1
        OBVIOUS
      <4> QED
        BY <4>1
    <3>5. f[s] = [x \in 0 .. (k + 1) - 1 |-> IF x = k THEN s[2] ELSE s[1][x]]
      BY <3>3
    <3>6. t = [x \in 0 .. (k + 1) - 1 |-> t[x]]
      OBVIOUS
    <3> HIDE DEF s, f, T
    <3>7. f[s] = t
      BY <3>4, <3>5, <3>6
    <3> QED
      BY <3>3, <3>7
  <2> HIDE DEF f, S, T
  <2>4. f \in Surjection(S, T)
    BY <2>2, <2>3 DEF Surjection
  <2>5. IsFiniteSet(T)
    BY <2>1, <2>4, FS_Surjection
  <2> QED
    BY <2>5 DEF T
<1> HIDE DEF U
<1>3. n \in U
  BY <1>1, <1>2, InductionUpTo
<1> QED
  BY <1>3 DEF U

(* Every vector is the values of a polynomial.                             *)
LEMMA Interpolates ==
    ASSUME SupportsNtt, NEW r \in Roots, NEW a \in [Index -> 0 .. P - 1]
    PROVE  \E w \in [Index -> 0 .. P - 1] : HoldsValues(a, w, r, P)
<1> DEFINE S == [Index -> 0 .. P - 1]
           f == [w \in S |-> [x \in Index |-> Evaluate(w, r, x)]]
<1>1. P \in Nat \ {0} /\ Index = 0 .. N - 1 /\ N \in Nat
  BY TransformModulus, Degree
<1>2. IsFiniteSet(S)
  <2>1. IsFiniteSet(0 .. P - 1)
    <3>1. 0 \in Int /\ P - 1 \in Int
      BY <1>1
    <3> QED
      BY <3>1, FS_Interval
  <2> QED
    BY <1>1, <2>1, FiniteVectors
<1>3. ASSUME NEW w \in S
      PROVE  /\ [x \in Index |-> Evaluate(w, r, x)] \in S
             /\ HoldsValues([x \in Index |-> Evaluate(w, r, x)], w, r, P)
  <2>1. w \in [Index -> Int]
    BY WantTypes
  <2>2. ASSUME NEW x \in Index
        PROVE  Evaluate(w, r, x) \in 0 .. P - 1 /\ Evaluate(w, r, x) % P = Evaluate(w, r, x)
    <3> DEFINE y == Evaluate(w, r, x)
    <3>1. y \in 0 .. P - 1
      BY <2>1, FoldOne
    <3> HIDE DEF y
    <3>2. y \in Int /\ 0 <= y /\ y < P
      BY <1>1, <3>1
    <3>3. y % P = y
      BY <1>1, <3>2, OwnRemainder
    <3> QED
      BY <3>1, <3>3 DEF y
  <2> QED
    BY <2>2 DEF HoldsValues
<1>4. f \in [S -> S]
  <2> HIDE DEF S
  <2> QED
    BY <1>3
<1>5. ASSUME NEW v \in S, NEW w \in S, f[v] = f[w] PROVE v = w
  <2> DEFINE b == f[v]
  <2>1. b \in S /\ HoldsValues(b, v, r, P) /\ HoldsValues(b, w, r, P)
    <3> HIDE DEF S
    <3> QED
      BY <1>3, <1>5
  <2> HIDE DEF b, f
  <2>2. BackwardWhole(b, r) = v /\ BackwardWhole(b, r) = w
    BY <2>1, BackwardWholeExact
  <2> QED
    BY <2>2
<1>6. PICK w \in S : f[w] = a
  <2> HIDE DEF f
  <2>1. a \in S
    OBVIOUS
  <2> HIDE DEF S
  <2> QED
    BY <1>2, <1>4, <1>5, <2>1, InjectiveOnto
<1> QED
  BY <1>3, <1>6


-----------------------------------------------------------------------------
(* The powers of three modulo 2 N, exponents of the slots: as many as the  *)
(* slots of a row, and none the opposite of another.                       *)
Threes == CHOOSE g : PowersOf(g, 3)

(* The powers of three exist, and exponents add.                           *)
LEMMA ThreesAre ==
    /\ PowersOf(Threes, 3) /\ Threes[0] = 1 /\ Threes[1] = 3 /\ Threes[2] = 9
    /\ \A i \in Nat : Threes[i] \in Int /\ Threes[i + 1] = 3 * Threes[i]
    /\ \A i, j \in Nat : Threes[i + j] = Threes[i] * Threes[j]
<1>1. PowersOf(Threes, 3)
  <2>1. \E g : PowersOf(g, 3)
    BY PowersExist
  <2> QED
    BY <2>1 DEF Threes
<1> HIDE DEF Threes
<1>2. /\ Threes[0] = 1
      /\ \A i \in Nat : Threes[i] \in Int /\ Threes[i + 1] = 3 * Threes[i]
  BY <1>1 DEF PowersOf
<1>3. Threes[1] = 3
  <2>1. Threes[0 + 1] = 3 * Threes[0]
    BY <1>2
  <2> QED
    BY <1>2, <2>1
<1>4. Threes[2] = 9
  <2>1. Threes[1 + 1] = 3 * Threes[1]
    BY <1>2
  <2> QED
    BY <1>3, <2>1
<1>5. \A i, j \in Nat : Threes[i + j] = Threes[i] * Threes[j]
  BY <1>1, PowersAdd
<1> QED
  BY <1>1, <1>2, <1>3, <1>4, <1>5

(* The size of a row is half the degree, a power of two.                   *)
LEMMA RowFacts ==
    /\ LogN \in Nat /\ LogN >= 3 /\ LogN - 1 \in Nat /\ LogN - 1 \in 1 .. LogN - 1
    /\ RowSize = Pow2[LogN - 1] /\ RowSize \in Nat \ {0} /\ RowSize >= 4 /\ RowSize \in Int
    /\ N = 2 * RowSize /\ N \in Nat /\ N \in Int /\ 2 * N = 4 * RowSize
    /\ 2 * N \in Nat \ {0} /\ 2 * N \in Int /\ \E q \in Nat : 2 * N = q * 8
    /\ Index = 0 .. N - 1
<1>1. LogN \in Nat /\ LogN >= 3 /\ LogN - 1 \in 1 .. LogN - 1 /\ LogN - 1 \in Nat
  BY Degree, SlotsAssumption
<1>2. N \in Nat /\ N = 2 * Pow2[LogN - 1] /\ Index = 0 .. N - 1
  BY Degree
<1>3. LogN - 1 \in 0 .. LogN /\ LogN - 2 \in 0 .. LogN /\ LogN - 3 \in 0 .. LogN
      /\ LogN - 1 = (LogN - 2) + 1 /\ LogN - 2 = (LogN - 3) + 1
      /\ LogN - 2 < LogN /\ LogN - 3 < LogN
  BY <1>1
<1>4. Pow2[(LogN - 3) + 1] = 2 * Pow2[LogN - 3] /\ Pow2[LogN - 3] \in Nat \ {0}
      /\ Pow2[(LogN - 2) + 1] = 2 * Pow2[LogN - 2]
  BY <1>3, Power2
<1> DEFINE z == Pow2[LogN - 3]
<1>5. Pow2[LogN - 1] = 4 * z /\ z \in Nat \ {0}
  BY <1>3, <1>4
<1> HIDE DEF z
<1>6. Pow2[LogN - 1] \in Nat /\ Pow2[LogN - 1] >= 4 /\ N = 8 * z
  BY <1>2, <1>5
<1>7. RowSize = Pow2[LogN - 1]
  BY <1>2, <1>6 DEF RowSize
<1>8. 2 * N = (2 * z) * 8 /\ 2 * z \in Nat
  BY <1>5, <1>6
<1>9. \E q \in Nat : 2 * N = q * 8
  BY <1>8
<1>10. RowSize \in Nat \ {0} /\ RowSize >= 4 /\ RowSize \in Int
  BY <1>6, <1>7
<1>11. N = 2 * RowSize /\ 2 * N = 4 * RowSize
  BY <1>2, <1>7, <1>10
<1>12. LogN \in Nat /\ LogN >= 3 /\ LogN - 1 \in Nat /\ LogN - 1 \in 1 .. LogN - 1
  BY <1>1, <1>2
<1>13. /\ N \in Nat /\ N \in Int /\ 2 * N \in Nat \ {0} /\ 2 * N \in Int
       /\ Index = 0 .. N - 1
  BY <1>2, <1>10, <1>11
<1> QED
  BY <1>7, <1>9, <1>10, <1>11, <1>12, <1>13, ZenonT(60)

(* Powers of two below the size of a row double.                           *)
LEMMA LevelPower ==
    ASSUME NEW l \in 1 .. LogN - 1
    PROVE  /\ l \in Nat /\ Pow2[l] \in Nat \ {0}
           /\ l + 1 <= LogN - 1 => Pow2[l + 1] = 2 * Pow2[l]
<1>1. l \in 0 .. LogN /\ l < LogN
  BY RowFacts
<1> QED
  BY <1>1, Power2

(* 3^(2^l) = 1 + 2^(l + 2) m, m odd.                                       *)
OddPart(l, m) == m \in Int /\ m % 2 = 1 /\ Threes[Pow2[l]] = 1 + (4 * Pow2[l]) * m

(* The first two powers of two.                                            *)
LEMMA PowersOfTwo == Pow2[0] = 1 /\ Pow2[1] = 2
<1>1. W \in Nat /\ W >= 4
  BY Degree
<1>2. 0 \in 0 .. 4 * W - 1 /\ 0 + 1 = 1
  BY <1>1
<1>3. Pow2[0] = 1 /\ Pow2[0 + 1] = 2 * Pow2[0]
  BY <1>2, PowersDouble
<1> QED
  BY <1>2, <1>3

(* By squaring, from 3^2 = 1 + 8.                                          *)
LEMMA OddParts == \A l \in 1 .. LogN - 1 : \E m : OddPart(l, m)
<1> DEFINE U == {n \in 0 .. LogN - 2 : \E m : OddPart(n + 1, m)}
<1>1. 0 \in U
  <2>1. Threes[Pow2[1]] = 1 + (4 * Pow2[1]) * 1
    BY PowersOfTwo, ThreesAre
  <2>2. 0 + 1 = 1 /\ 1 % 2 = 1 /\ 0 \in 0 .. LogN - 2
    BY RowFacts
  <2>3. OddPart(0 + 1, 1)
    BY <2>1, <2>2 DEF OddPart
  <2> QED
    BY <2>2, <2>3
<1>2. ASSUME NEW n \in 0 .. (LogN - 2) - 1, n \in U PROVE n + 1 \in U
  <2> DEFINE q == Pow2[n + 1]
             x == Threes[q]
  <2>1. n + 1 \in 1 .. LogN - 1 /\ n + 1 \in Nat /\ n \in Nat /\ (n + 1) + 1 <= LogN - 1
        /\ n + 1 \in 0 .. LogN - 2
    BY RowFacts
  <2>2. q \in Nat /\ Pow2[(n + 1) + 1] = q + q
    <3>1. q \in Nat \ {0} /\ Pow2[(n + 1) + 1] = 2 * q
      BY <2>1, LevelPower
    <3> HIDE DEF q
    <3> QED
      BY <3>1
  <2>3. PICK m : OddPart(n + 1, m)
    BY <1>2
  <2>4. m \in Int /\ m % 2 = 1 /\ x = 1 + (4 * q) * m
    BY <2>3 DEF OddPart
  <2> HIDE DEF q
  <2>5. Threes[q + q] = x * x
    BY <2>2, ThreesAre
  <2> HIDE DEF x
  <2> DEFINE u == q * m
             v == q * (m * m)
  <2>6. u \in Int /\ v \in Int /\ u * u = q * v
    BY <2>2, <2>4
  <2>7. x = 1 + 4 * u
    BY <2>2, <2>4
  <2>8. x * x = 1 + 8 * u + 16 * (u * u)
    <3> HIDE DEF u, v
    <3> QED
      BY <2>6, <2>7
  <2> DEFINE d == m + 2 * v
  <2>9. d \in Int /\ d % 2 = 1
    <3> HIDE DEF v
    <3>1. d \in Int /\ d = v * 2 + m
      BY <2>4, <2>6
    <3>2. d % 2 = m % 2
      <4> HIDE DEF d
      <4> QED
        BY <2>4, <2>6, <3>1, SameRemainder
    <3> QED
      BY <2>4, <3>1, <3>2
  <2>10. x * x = 1 + (4 * (q + q)) * d
    <3>1. (4 * (q + q)) * d = 8 * (q * d)
      <4> HIDE DEF d
      <4> QED
        BY <2>2, <2>9
    <3>2. q * d = u + 2 * (q * v)
      <4>1. q * d = q * m + q * (2 * v)
        <5> HIDE DEF v
        <5> QED
          BY <2>2, <2>4, <2>6, Distributes
      <4>2. q * (2 * v) = 2 * (q * v)
        <5> HIDE DEF v
        <5> QED
          BY <2>2, <2>6
      <4> QED
        BY <4>1, <4>2
    <3> HIDE DEF u, v, d
    <3>3. q * v \in Int /\ q * d \in Int
      BY <2>2, <2>6, <2>9
    <3> QED
      BY <2>6, <2>8, <3>1, <3>2, <3>3
  <2> HIDE DEF d
  <2>11. OddPart((n + 1) + 1, d)
    BY <2>2, <2>5, <2>9, <2>10 DEF OddPart
  <2> QED
    BY <2>1, <2>11
<1> HIDE DEF U
<1>3. \A n \in 0 .. LogN - 2 : n \in U
  <2>1. LogN - 2 \in Nat
    BY RowFacts
  <2> QED
    BY <1>1, <1>2, <2>1, InductionUpTo
<1>4. ASSUME NEW l \in 1 .. LogN - 1 PROVE \E m : OddPart(l, m)
  <2>1. l - 1 \in 0 .. LogN - 2 /\ (l - 1) + 1 = l
    BY RowFacts
  <2> QED
    BY <1>3, <2>1 DEF U
<1> QED
  BY <1>4


(* A multiple of a power of two that is the exponent gives one.            *)
LEMMA ThreesCycle ==
    ASSUME NEW l \in 1 .. LogN - 1, NEW k \in Nat
    PROVE  Same(Threes[k * Pow2[l]], 1, 4 * Pow2[l])
<1> DEFINE q == Pow2[l]
           U == {j \in Nat : Same(Threes[j * q], 1, 4 * q)}
<1>1. q \in Nat \ {0} /\ 4 * q \in Int
  BY LevelPower
<1>2. PICK m : OddPart(l, m)
  BY OddParts
<1>3. Same(Threes[q], 1, 4 * q)
  <2>1. m \in Int /\ Threes[q] = 1 + (4 * q) * m
    BY <1>2 DEF OddPart
  <2> HIDE DEF q
  <2>2. Threes[q] \in Int /\ Threes[q] = 1 + m * (4 * q)
    BY <1>1, <2>1, ThreesAre
  <2> QED
    BY <2>1, <2>2 DEF Same
<1> HIDE DEF q
<1>4. 0 \in U
  <2>1. 0 * q = 0 /\ Threes[0] = 1
    BY <1>1, ThreesAre
  <2>2. Same(1, 1, 4 * q)
    BY <1>1, SameReflexive
  <2> QED
    BY <2>1, <2>2
<1>5. ASSUME NEW j \in Nat, j \in U PROVE j + 1 \in U
  <2>1. (j + 1) * q = j * q + q /\ j * q \in Nat /\ q \in Nat
    BY <1>1
  <2>2. Threes[(j + 1) * q] = Threes[j * q] * Threes[q]
    BY <2>1, ThreesAre
  <2>3. Same(Threes[j * q] * Threes[q], 1 * 1, 4 * q)
    BY <1>1, <1>3, <1>5, SameTimes
  <2> QED
    BY <2>2, <2>3
<1> HIDE DEF U
<1>6. k \in U
  BY <1>4, <1>5, SetInduction
<1> QED
  BY <1>6 DEF U, q

(* Modulo 8, a power of three is 1 or 3, as its exponent is even or odd.   *)
LEMMA ThreesModEight ==
    ASSUME NEW d \in Nat
    PROVE  Threes[d] % 8 = IF d % 2 = 0 THEN 1 ELSE 3
<1> DEFINE Good(j) == Threes[j] % 8 = IF j % 2 = 0 THEN 1 ELSE 3
           U == {j \in Nat : Good(j)}
<1>1. 0 \in U
  <2>1. Threes[0] % 8 = 1 /\ 0 % 2 = 0
    BY ThreesAre
  <2> QED
    BY <2>1
<1>2. ASSUME NEW j \in Nat, j \in U PROVE j + 1 \in U
  <2> DEFINE x == Threes[j]
             y == x \div 8
  <2>0. x \in Int /\ Threes[j + 1] = 3 * x
    BY ThreesAre
  <2>1. x \in Int /\ Threes[j + 1] = 3 * x /\ y \in Int /\ x = y * 8 + (x % 8)
    <3> HIDE DEF x
    <3> QED
      BY <2>0
  <2>2. x % 8 = IF j % 2 = 0 THEN 1 ELSE 3
    BY <1>2
  <2> HIDE DEF x, y
  <2>3. CASE j % 2 = 0
    <3>1. (j + 1) % 2 # 0
      BY <2>3
    <3>2. 3 * x = (3 * y) * 8 + 3 /\ 3 * y \in Int /\ 3 * x \in Int
      BY <2>1, <2>2, <2>3
    <3>3. (3 * x) % 8 = 3
      BY <3>2, RemainderUnique
    <3> QED
      BY <2>1, <3>1, <3>3
  <2>4. CASE j % 2 # 0
    <3>1. (j + 1) % 2 = 0
      BY <2>4
    <3>2. 3 * x = (3 * y + 1) * 8 + 1 /\ 3 * y + 1 \in Int /\ 3 * x \in Int
      BY <2>1, <2>2, <2>4
    <3>3. (3 * x) % 8 = 1
      BY <3>2, RemainderUnique
    <3> QED
      BY <2>1, <3>1, <3>3
  <2> QED
    BY <2>3, <2>4
<1> HIDE DEF U
<1>3. d \in U
  BY <1>1, <1>2, SetInduction
<1> QED
  BY <1>3 DEF U

(* And only the multiples do.                                              *)
LEMMA ThreesOrder ==
    ASSUME NEW d \in Nat
    PROVE  \A l \in 1 .. LogN - 1 :
              Same(Threes[d], 1, 4 * Pow2[l]) => \E k \in Nat : d = k * Pow2[l]
<1> DEFINE Claim(l) == Same(Threes[d], 1, 4 * Pow2[l]) => \E k \in Nat : d = k * Pow2[l]
           U == {n \in 0 .. LogN - 2 : Claim(n + 1)}
<1>1. 0 \in U
  <2>1. ASSUME Same(Threes[d], 1, 4 * Pow2[1]) PROVE \E k \in Nat : d = k * Pow2[1]
    <3>1. Same(Threes[d], 1, 8)
      BY <2>1, PowersOfTwo
    <3>2. Threes[d] % 8 = 1 % 8
      BY <3>1, SameEqual
    <3>3. d % 2 = 0
      BY <3>2, ThreesModEight
    <3>4. d = (d \div 2) * 2 /\ d \div 2 \in Nat
      BY <3>3
    <3> QED
      BY <3>4, PowersOfTwo
  <2>2. 0 + 1 = 1 /\ 0 \in 0 .. LogN - 2
    BY RowFacts
  <2> QED
    BY <2>1, <2>2
<1>2. ASSUME NEW n \in 0 .. (LogN - 2) - 1, n \in U PROVE n + 1 \in U
  <2> DEFINE q == Pow2[n + 1]
  <2>1. n + 1 \in 1 .. LogN - 1 /\ (n + 1) + 1 \in 1 .. LogN - 1 /\ n \in 0 .. LogN - 2
        /\ (n + 1) + 1 <= LogN - 1 /\ n + 1 \in 0 .. LogN - 2
    BY RowFacts
  <2>2. q \in Nat \ {0} /\ Pow2[(n + 1) + 1] = 2 * q
    BY <2>1, LevelPower
  <2>3. PICK m : OddPart(n + 1, m)
    BY <2>1, OddParts
  <2>4. m \in Int /\ m % 2 = 1 /\ Threes[q] = 1 + (4 * q) * m
    BY <2>3 DEF OddPart
  <2>5. \A j \in Nat : Same(Threes[j * (2 * q)], 1, 4 * (2 * q))
    BY <2>1, <2>2, ThreesCycle
  <2>6. Same(Threes[d], 1, 4 * q) => \E k \in Nat : d = k * q
    BY <1>2
  <2> HIDE DEF q
  <2>7. ASSUME Same(Threes[d], 1, 4 * (2 * q)) PROVE \E k \in Nat : d = k * (2 * q)
    <3>1. PICK c \in Int : Threes[d] = 1 + c * (4 * (2 * q))
      BY <2>7 DEF Same
    <3>2. Threes[d] \in Int /\ Threes[d] = 1 + (2 * c) * (4 * q) /\ 2 * c \in Int
      BY <2>2, <3>1, ThreesAre
    <3>3. PICK k \in Nat : d = k * q
      <4>1. Same(Threes[d], 1, 4 * q)
        BY <3>2 DEF Same
      <4> QED
        BY <2>6, <4>1
    <3>4. CASE k % 2 = 0
      <4>1. k \div 2 \in Nat /\ k = 2 * (k \div 2)
        BY <3>4
      <4> DEFINE j == k \div 2
      <4> HIDE DEF j
      <4>2. d = j * (2 * q)
        BY <2>2, <3>3, <4>1 DEF j
      <4> QED
        BY <4>1, <4>2 DEF j
    <3>5. CASE k % 2 # 0
      <4>1. k \div 2 \in Nat /\ k = 2 * (k \div 2) + 1
        BY <3>5
      <4> DEFINE j == k \div 2
                 u == j * (2 * q)
                 x == Threes[u]
                 y == Threes[q]
      <4> HIDE DEF j
      <4>2. d = u + q /\ u \in Nat /\ q \in Nat
        BY <2>2, <3>3, <4>1 DEF j
      <4>3. Threes[d] = x * y
        BY <4>2, ThreesAre
      <4>4. Same(x, 1, 4 * (2 * q))
        BY <2>5, <4>1 DEF j
      <4>5. y \in Int /\ 4 * (2 * q) \in Int
        BY <2>2, ThreesAre
      <4> HIDE DEF u, x, y
      <4>6. Same(y, y, 4 * (2 * q))
        BY <4>5, SameReflexive
      <4>7. Same(x * y, 1 * y, 4 * (2 * q))
        BY <4>4, <4>5, <4>6, SameTimes
      <4>8. Same(1, x * y, 4 * (2 * q))
        BY <2>7, <4>3, <4>5, SameSymmetric
      <4>9. Same(1, 1 * y, 4 * (2 * q))
        BY <4>5, <4>7, <4>8, SameTransitive
      <4>10. PICK e \in Int : 1 = 1 * y + e * (4 * (2 * q))
        BY <4>9 DEF Same
      <4>11. (4 * q) * m + (4 * q) * (2 * e) = 0
        BY <2>2, <2>4, <4>10 DEF y
      <4>12. (4 * q) * (m + 2 * e) = 0
        <5>1. 4 * q \in Int /\ 2 * e \in Int
          BY <2>2
        <5> QED
          BY <2>4, <4>11, <5>1, Distributes
      <4>13. m + 2 * e = 0
        <5> DEFINE z == m + 2 * e
        <5>1. z \in Int
          BY <2>4
        <5> HIDE DEF z
        <5>2. z = 0
          BY <2>2, <4>12, <5>1 DEF z
        <5> QED
          BY <5>2 DEF z
      <4> QED
        BY <2>4, <4>13
    <3> QED
      BY <3>4, <3>5
  <2> QED
    BY <2>1, <2>2, <2>7
<1> HIDE DEF U
<1>3. \A n \in 0 .. LogN - 2 : n \in U
  <2>1. LogN - 2 \in Nat
    BY RowFacts
  <2> QED
    BY <1>1, <1>2, <2>1, InductionUpTo
<1>4. ASSUME NEW l \in 1 .. LogN - 1 PROVE Claim(l)
  <2> HIDE DEF Claim
  <2>1. l - 1 \in 0 .. LogN - 2 /\ (l - 1) + 1 = l
    BY RowFacts
  <2> QED
    BY <1>3, <2>1 DEF U
<1> QED
  BY <1>4


(* The order of three modulo 2 N is the size of a row.                     *)
LEMMA ThreesRow ==
    /\ Same(Threes[RowSize], 1, 2 * N)
    /\ \A d \in Nat : Same(Threes[d], 1, 2 * N) => \E k \in Nat : d = k * RowSize
<1>1. LogN - 1 \in 1 .. LogN - 1 /\ RowSize = Pow2[LogN - 1] /\ 2 * N = 4 * RowSize /\ RowSize \in Nat
  BY RowFacts
<1>2. 1 * Pow2[LogN - 1] = RowSize /\ 4 * Pow2[LogN - 1] = 2 * N
  BY <1>1
<1>3. Same(Threes[1 * Pow2[LogN - 1]], 1, 4 * Pow2[LogN - 1])
  BY <1>1, ThreesCycle
<1> QED
  BY <1>1, <1>2, <1>3, ThreesOrder, SMTT(60)

(* The powers of three below the size of a row are different, and none is  *)
(* the opposite of another.                                                *)
LEMMA ThreesDiffer ==
    ASSUME NEW i \in 0 .. RowSize - 1, NEW j \in 0 .. RowSize - 1
    PROVE  Same(Threes[i], Threes[j], 2 * N) => ~(i < j)
<1> SUFFICES ASSUME Same(Threes[i], Threes[j], 2 * N), i < j PROVE FALSE
  OBVIOUS
<1>1. RowSize \in Nat /\ 2 * N \in Int
  BY RowFacts
<1>2. i \in Nat /\ j - i \in Nat /\ RowSize - i \in Nat /\ j - i > 0 /\ j - i < RowSize
      /\ (RowSize - i) + i = RowSize /\ i + (j - i) = j
  BY <1>1
<1> DEFINE x == Threes[RowSize - i]
           y == Threes[i]
           z == Threes[j - i]
<1>3. x \in Int /\ y \in Int /\ z \in Int /\ Threes[RowSize] = x * y /\ Threes[j] = y * z
  BY <1>2, ThreesAre, ZenonT(60)
<1>4. Same(x * y, 1, 2 * N)
  BY <1>3, ThreesRow
<1>5. Same(y, y * z, 2 * N)
  BY <1>3
<1> HIDE DEF x, y, z
<1>6. Same(x * y, x * (y * z), 2 * N)
  BY <1>1, <1>3, <1>5, SameScaled
<1>7. x * (y * z) = (x * y) * z
  BY <1>3
<1>8. Same((x * y) * z, 1 * z, 2 * N)
  <2>1. Same(z, z, 2 * N)
    BY <1>1, <1>3, SameReflexive
  <2> QED
    BY <1>1, <1>4, <2>1, SameTimes
<1>9. Same(1, x * y, 2 * N)
  BY <1>1, <1>4, SameSymmetric
<1>10. Same(1, (x * y) * z, 2 * N)
  <2>1. Same(x * y, (x * y) * z, 2 * N)
    BY <1>6, <1>7
  <2> QED
    BY <1>1, <1>9, <2>1, SameTransitive
<1>11. Same(1, z, 2 * N)
  <2>1. 1 * z = z
    BY <1>3
  <2>2. Same(1, 1 * z, 2 * N)
    BY <1>1, <1>8, <1>10, SameTransitive
  <2> QED
    BY <2>1, <2>2
<1>12. Same(Threes[j - i], 1, 2 * N)
  BY <1>1, <1>11, SameSymmetric DEF z
<1>13. PICK k \in Nat : j - i = k * RowSize
  BY <1>2, <1>12, ThreesRow
<1>14. k * RowSize > 0 /\ k * RowSize < RowSize
  BY <1>2, <1>13
<1> DEFINE q == RowSize
<1>q. q \in Nat \ {0} /\ k * q > 0 /\ k * q < q
  BY <1>14, RowFacts
<1> HIDE DEF q
<1>15. q \in Nat \ {0} /\ -q < k * q /\ k * q < q
  <2> DEFINE kq == k * q
  <2>1. kq > 0 /\ kq < q /\ kq \in Int /\ q \in Nat \ {0}
    BY <1>q
  <2> HIDE DEF kq
  <2>2. -q < kq /\ kq < q
    BY <2>1
  <2> QED
    BY <2>1, <2>2 DEF kq
<1>16. k = 0
  BY <1>15, SmallMultiple
<1>17. k * RowSize = 0
  BY <1>1, <1>16
<1> QED
  BY <1>14, <1>17

(* Opposites differ modulo 8.                                              *)
LEMMA ThreesNotOpposite ==
    ASSUME NEW i \in Nat, NEW j \in Nat
    PROVE  ~Same(Threes[i], -Threes[j], 2 * N)
<1> SUFFICES ASSUME Same(Threes[i], -Threes[j], 2 * N) PROVE FALSE
  OBVIOUS
<1> DEFINE x == Threes[i]
           y == Threes[j]
<1>1. x \in Int /\ y \in Int /\ (x % 8 = 1 \/ x % 8 = 3) /\ (y % 8 = 1 \/ y % 8 = 3)
  BY ThreesAre, ThreesModEight
<1>2. PICK k \in Int : x = -y + k * (2 * N)
  BY DEF Same
<1>3. PICK q \in Nat : 2 * N = q * 8
  BY RowFacts
<1> HIDE DEF x, y
<1> DEFINE c == k * q
<1>4. c \in Int /\ x = -y + c * 8
  BY <1>1, <1>2, <1>3
<1> HIDE DEF c
<1> QED
  BY <1>1, <1>4

-----------------------------------------------------------------------------
(* The exponents of the slots: powers of three in the first row, and the   *)
(* opposites in the second.                                                *)

GeneratorRun(f) == f = [i \in 0 .. RowSize |-> IF i = 0 THEN 1 ELSE (f[i - 1] * 3) % (2 * N)]

(* The list that build makes is of the powers of three modulo 2 N.         *)
LEMMA GeneratorPowers ==
    \A i \in 0 .. RowSize : /\ GeneratorPower[i] = Threes[i] % (2 * N)
                            /\ GeneratorPower[i] \in 0 .. 2 * N - 1
                            /\ Same(GeneratorPower[i], Threes[i], 2 * N)
<1> DEFINE f == [i \in 0 .. RowSize |-> Threes[i] % (2 * N)]
<1>1. RowSize \in Nat /\ 2 * N \in Nat \ {0} /\ 2 * N >= 16 /\ 2 * N \in Int
  BY RowFacts
<1>2. ASSUME NEW x \in Int PROVE ((x % (2 * N)) * 3) % (2 * N) = (3 * x) % (2 * N)
  <2> DEFINE y == x % (2 * N)
  <2>1. Same(y, x, 2 * N)
    BY <1>1, SameMod
  <2>2. y \in Int
    BY <2>1 DEF Same
  <2> HIDE DEF y
  <2>3. Same(3 * y, 3 * x, 2 * N)
    BY <1>1, <2>1, SameScaled
  <2>4. (3 * y) % (2 * N) = (3 * x) % (2 * N)
    <3>1. 3 * y \in Int /\ 3 * x \in Int
      BY <2>2
    <3> QED
      BY <1>1, <2>3, <3>1, SameEqual
  <2>5. y * 3 = 3 * y
    BY <2>2
  <2> QED
    BY <2>4, <2>5 DEF y
<1>3. GeneratorRun(f)
  <2>1. ASSUME NEW i \in 0 .. RowSize
        PROVE  f[i] = IF i = 0 THEN 1 ELSE (f[i - 1] * 3) % (2 * N)
    <3>1. CASE i = 0
      <4>1. 1 % (2 * N) = 1
        BY <1>1
      <4> QED
        BY <3>1, <4>1, ThreesAre
    <3>2. CASE i # 0
      <4>1. i - 1 \in 0 .. RowSize /\ (i - 1) + 1 = i /\ i - 1 \in Nat
        BY <1>1, <3>2
      <4> DEFINE x == Threes[i - 1]
      <4>2. x \in Int /\ Threes[(i - 1) + 1] = 3 * x
        BY <4>1, ThreesAre
      <4>3. f[i] = (3 * x) % (2 * N) /\ f[i - 1] = x % (2 * N)
        BY <4>1, <4>2
      <4> HIDE DEF f, x
      <4>4. ((x % (2 * N)) * 3) % (2 * N) = (3 * x) % (2 * N)
        BY <1>2, <4>2
      <4> QED
        BY <3>2, <4>3, <4>4
    <3> QED
      BY <3>1, <3>2
  <2>2. f = [i \in 0 .. RowSize |-> f[i]]
    OBVIOUS
  <2> HIDE DEF f
  <2> QED
    BY <2>1, <2>2 DEF GeneratorRun
<1> HIDE DEF f
<1>4. GeneratorPower = CHOOSE g : GeneratorRun(g)
  BY DEF GeneratorPower, GeneratorRun
<1>5. GeneratorRun(GeneratorPower)
  BY <1>3, <1>4
<1>6. /\ GeneratorPower[0] = 1
      /\ \A i \in 0 .. RowSize : i # 0 => GeneratorPower[i] = (GeneratorPower[i - 1] * 3) % (2 * N)
  <2> DEFINE g == GeneratorPower
  <2>1. GeneratorRun(g)
    BY <1>5
  <2> HIDE DEF g
  <2>2. 0 \in 0 .. RowSize
    BY <1>1
  <2> QED
    BY <2>1, <2>2 DEF GeneratorRun, g
<1> DEFINE U == {i \in 0 .. RowSize : GeneratorPower[i] = Threes[i] % (2 * N)}
<1>7. 0 \in U
  <2>1. 1 % (2 * N) = 1 /\ 0 \in 0 .. RowSize
    BY <1>1
  <2> QED
    BY <1>6, <2>1, ThreesAre
<1>8. ASSUME NEW i \in 0 .. RowSize - 1, i \in U PROVE i + 1 \in U
  <2> DEFINE x == Threes[i]
  <2>1. i + 1 \in 0 .. RowSize /\ i + 1 # 0 /\ (i + 1) - 1 = i /\ i \in Nat
    BY <1>1
  <2>2. x \in Int /\ Threes[i + 1] = 3 * x
    BY <2>1, ThreesAre
  <2>3. GeneratorPower[i] = x % (2 * N)
    BY <1>8
  <2> HIDE DEF x
  <2>4. GeneratorPower[i + 1] = ((x % (2 * N)) * 3) % (2 * N)
    BY <1>6, <2>1, <2>3
  <2> QED
    BY <1>2, <2>1, <2>2, <2>4
<1> HIDE DEF U
<1>9. \A i \in 0 .. RowSize : i \in U
  BY <1>1, <1>7, <1>8, InductionUpTo
<1>10. ASSUME NEW i \in 0 .. RowSize
       PROVE  /\ GeneratorPower[i] = Threes[i] % (2 * N) /\ GeneratorPower[i] \in 0 .. 2 * N - 1
              /\ Same(GeneratorPower[i], Threes[i], 2 * N)
  <2> DEFINE x == Threes[i]
             y == x % (2 * N)
  <2>1. GeneratorPower[i] = y
    BY <1>9 DEF U
  <2>2. x \in Int
    BY ThreesAre
  <2> HIDE DEF x
  <2>3. Same(y, x, 2 * N)
    BY <1>1, <2>2, SameMod
  <2>4. y \in 0 .. 2 * N - 1
    BY <1>1, <2>2, Remainder
  <2> QED
    BY <2>1, <2>3, <2>4 DEF x
<1> QED
  BY <1>10


SlotPower(i) == IF i < RowSize THEN GeneratorPower[i] ELSE 2 * N - GeneratorPower[i - RowSize]

SignedThree(i) == IF i < RowSize THEN Threes[i] ELSE -Threes[i - RowSize]

(* A slot of the first or of the second row.                               *)
LEMMA SlotOfRow ==
    ASSUME NEW i \in Index
    PROVE  /\ i \in Nat /\ RowSize \in Nat
           /\ i < RowSize => i \in 0 .. RowSize - 1 /\ i \in 0 .. RowSize
           /\ ~(i < RowSize) => /\ i - RowSize \in 0 .. RowSize - 1 /\ i - RowSize \in 0 .. RowSize
                                /\ i - RowSize \in Nat
<1>1. RowSize \in Nat /\ N = 2 * RowSize /\ Index = 0 .. N - 1
  BY RowFacts
<1>2. Index = 0 .. 2 * RowSize - 1
  BY <1>1
<1> DEFINE r == RowSize
<1>3. i \in 0 .. 2 * r - 1 /\ r \in Nat
  BY <1>1, <1>2
<1> HIDE DEF r
<1>4. /\ i \in Nat /\ r \in Nat
      /\ i < r => i \in 0 .. r - 1 /\ i \in 0 .. r
      /\ ~(i < r) => i - r \in 0 .. r - 1 /\ i - r \in 0 .. r /\ i - r \in Nat
  BY <1>3
<1> QED
  BY <1>4 DEF r

(* Powers of three are odd and none is 0.                                  *)
LEMMA GeneratorOdd ==
    ASSUME NEW i \in 0 .. RowSize
    PROVE  GeneratorPower[i] \in 1 .. 2 * N - 1 /\ GeneratorPower[i] % 2 = 1
<1> DEFINE x == GeneratorPower[i]
           y == Threes[i]
           m == 2 * N
<1>1. i \in Nat
  BY RowFacts
<1>2. x \in 0 .. m - 1 /\ Same(x, y, m)
  BY GeneratorPowers
<1>3. y \in Int /\ (y % 8 = 1 \/ y % 8 = 3)
  BY <1>1, ThreesAre, ThreesModEight
<1>4. PICK q \in Nat : m = q * 8
  BY RowFacts
<1> HIDE DEF x, y, m
<1>5. PICK k \in Int : x = y + k * m
  BY <1>2 DEF Same
<1> DEFINE c == k * q
<1>6. c \in Int /\ x = y + c * 8
  BY <1>3, <1>4, <1>5
<1> HIDE DEF c
<1>7. x % 2 = 1
  BY <1>3, <1>6
<1>8. x # 0
  BY <1>7
<1>9. x \in 1 .. m - 1
  BY <1>2, <1>4, <1>8
<1> QED
  BY <1>7, <1>9 DEF x, m

(* The index map sends a slot to the place of its exponent.                *)
LEMMA SlotPowers ==
    ASSUME NEW i \in Index
    PROVE  /\ SlotPower(i) \in 1 .. 2 * N - 1 /\ SlotPower(i) % 2 = 1
           /\ SlotPower(i) \in Nat /\ SlotPower(i) \in Int
           /\ IndexMap[i] \in Index /\ 2 * BitRev[IndexMap[i]] + 1 = SlotPower(i)
           /\ SignedThree(i) \in Int /\ Same(SlotPower(i), SignedThree(i), 2 * N)
<1> DEFINE e == SlotPower(i)
           h == (e - 1) \div 2
<1>1. N \in Nat /\ N \in Int /\ 2 * N \in Int /\ Index = 0 .. N - 1
  BY RowFacts
<1>2. /\ e \in 1 .. 2 * N - 1 /\ e % 2 = 1 /\ SignedThree(i) \in Int
      /\ Same(e, SignedThree(i), 2 * N)
  <2>1. CASE i < RowSize
    <3>1. i \in 0 .. RowSize /\ e = GeneratorPower[i] /\ SignedThree(i) = Threes[i] /\ i \in Nat
      BY <2>1, SlotOfRow DEF SlotPower, SignedThree
    <3> QED
      BY <3>1, GeneratorPowers, GeneratorOdd, ThreesAre
  <2>2. CASE ~(i < RowSize)
    <3> DEFINE x == GeneratorPower[i - RowSize]
               y == Threes[i - RowSize]
    <3>1. /\ i - RowSize \in 0 .. RowSize /\ i - RowSize \in Nat
          /\ e = 2 * N - x /\ SignedThree(i) = -y
      BY <2>2, SlotOfRow DEF SlotPower, SignedThree
    <3>2. x \in 1 .. 2 * N - 1 /\ x % 2 = 1 /\ Same(x, y, 2 * N) /\ y \in Int
      BY <3>1, GeneratorPowers, GeneratorOdd, ThreesAre
    <3> HIDE DEF x, y, e
    <3>3. e \in 1 .. 2 * N - 1 /\ e % 2 = 1 /\ -y \in Int /\ x \in Int
      BY <1>1, <3>1, <3>2
    <3>4. PICK k \in Int : x = y + k * (2 * N)
      BY <3>2 DEF Same
    <3>5. e = -y + (1 - k) * (2 * N) /\ 1 - k \in Int /\ e \in Int
      <4> DEFINE m == 2 * N
      <4>1. e = m - x /\ x = y + k * m /\ m \in Int
        BY <1>1, <3>1, <3>4
      <4> HIDE DEF m
      <4>2. e = -y + (1 - k) * m /\ e \in Int
        BY <3>2, <4>1
      <4> QED
        BY <4>2 DEF m
    <3>6. Same(e, -y, 2 * N)
      BY <3>3, <3>5 DEF Same
    <3> QED
      BY <3>1, <3>3, <3>6
  <2> QED
    BY <2>1, <2>2
<1>3. IndexMap[i] = BitRev[h]
  <2>1. i < RowSize => e = GeneratorPower[i]
    BY DEF SlotPower
  <2>2. ~(i < RowSize) => e = 2 * N - GeneratorPower[i - RowSize]
    BY DEF SlotPower
  <2>3. IndexMap[i] = IF i < RowSize THEN BitRev[(GeneratorPower[i] - 1) \div 2]
                      ELSE BitRev[(2 * N - GeneratorPower[i - RowSize] - 1) \div 2]
    BY DEF IndexMap
  <2> HIDE DEF e
  <2> QED
    BY <2>1, <2>2, <2>3
<1> HIDE DEF e
<1>4. h \in Index /\ 2 * h + 1 = e
  BY <1>1, <1>2
<1> HIDE DEF h
<1>5. IndexMap[i] \in Index /\ BitRev[IndexMap[i]] = h
  BY <1>3, <1>4, BitRevTypes, BitRevTwice
<1>6. e \in Nat /\ e \in Int
  BY <1>1, <1>2
<1> QED
  BY <1>2, <1>4, <1>5, <1>6 DEF e

(* Different slots have different exponents.                               *)
LEMMA SignedThreesDiffer ==
    ASSUME NEW i \in Index, NEW j \in Index, Same(SignedThree(i), SignedThree(j), 2 * N)
    PROVE  i = j
<1>1. 2 * N \in Int /\ RowSize \in Nat
  BY RowFacts
<1>2. Same(SignedThree(j), SignedThree(i), 2 * N)
  BY <1>1, SameSymmetric
<1>3. CASE i < RowSize /\ j < RowSize
  <2>1. i \in 0 .. RowSize - 1 /\ j \in 0 .. RowSize - 1
    BY <1>3, SlotOfRow
  <2>2. Same(Threes[i], Threes[j], 2 * N) /\ Same(Threes[j], Threes[i], 2 * N)
    BY <1>2, <1>3 DEF SignedThree
  <2>3. ~(i < j) /\ ~(j < i)
    BY <2>1, <2>2, ThreesDiffer
  <2> QED
    BY <2>1, <2>3
<1>4. CASE ~(i < RowSize) /\ ~(j < RowSize)
  <2> DEFINE a == i - RowSize
             b == j - RowSize
  <2>1. a \in 0 .. RowSize - 1 /\ b \in 0 .. RowSize - 1 /\ i \in Nat /\ j \in Nat
    BY <1>4, SlotOfRow
  <2>2. Same(-Threes[a], -Threes[b], 2 * N)
    BY <1>4 DEF SignedThree
  <2>3. Same(-(-Threes[a]), -(-Threes[b]), 2 * N)
    BY <1>1, <2>2, SameNegated
  <2>4. -(-Threes[a]) = Threes[a] /\ -(-Threes[b]) = Threes[b]
    <3>1. a \in Nat /\ b \in Nat
      BY <2>1
    <3>2. Threes[a] \in Int /\ Threes[b] \in Int
      BY <3>1, ThreesAre
    <3> QED
      BY <3>2
  <2>5. Same(Threes[a], Threes[b], 2 * N) /\ Same(Threes[b], Threes[a], 2 * N)
    BY <1>1, <2>3, <2>4, SameSymmetric
  <2> HIDE DEF a, b
  <2>6. ~(a < b) /\ ~(b < a)
    BY <2>1, <2>5, ThreesDiffer
  <2>7. a = b
    BY <1>1, <2>1, <2>6
  <2> QED
    BY <1>1, <2>1, <2>7 DEF a, b
<1>5. CASE i < RowSize /\ ~(j < RowSize)
  <2>1. i \in Nat /\ j - RowSize \in Nat
    BY <1>5, SlotOfRow
  <2>2. Same(Threes[i], -Threes[j - RowSize], 2 * N)
    BY <1>5 DEF SignedThree
  <2> QED
    BY <2>1, <2>2, ThreesNotOpposite
<1>6. CASE ~(i < RowSize) /\ j < RowSize
  <2>1. j \in Nat /\ i - RowSize \in Nat
    BY <1>6, SlotOfRow
  <2>2. Same(Threes[j], -Threes[i - RowSize], 2 * N)
    BY <1>2, <1>6 DEF SignedThree
  <2> QED
    BY <2>1, <2>2, ThreesNotOpposite
<1> QED
  BY <1>3, <1>4, <1>5, <1>6

(* The index map is a permutation.                                         *)
LEMMA IndexMapPermutes ==
    /\ IndexMap \in [Index -> Index]
    /\ \A i, j \in Index : IndexMap[i] = IndexMap[j] => i = j
    /\ \A x \in Index : \E i \in Index : IndexMap[i] = x
    /\ \A i \in Index : (CHOOSE k \in Index : IndexMap[k] = IndexMap[i]) = i
<1>1. IndexMap \in [Index -> Index]
  <2>1. IndexMap = [i \in Index |-> IndexMap[i]]
    BY DEF IndexMap
  <2>2. \A i \in Index : IndexMap[i] \in Index
    BY SlotPowers
  <2> QED
    BY <2>1, <2>2
<1>2. ASSUME NEW i \in Index, NEW j \in Index, IndexMap[i] = IndexMap[j] PROVE i = j
  <2>1. SlotPower(i) = SlotPower(j)
    <3>1. 2 * BitRev[IndexMap[i]] + 1 = SlotPower(i) /\ 2 * BitRev[IndexMap[j]] + 1 = SlotPower(j)
      BY SlotPowers
    <3> QED
      BY <1>2, <3>1
  <2>2. Same(SlotPower(i), SignedThree(i), 2 * N) /\ Same(SlotPower(i), SignedThree(j), 2 * N)
    <3>1. Same(SlotPower(i), SignedThree(i), 2 * N) /\ Same(SlotPower(j), SignedThree(j), 2 * N)
      BY SlotPowers
    <3> QED
      BY <2>1, <3>1
  <2>3. 2 * N \in Int
    BY RowFacts
  <2>4. Same(SignedThree(i), SlotPower(i), 2 * N)
    BY <2>2, <2>3, SameSymmetric
  <2>5. Same(SignedThree(i), SignedThree(j), 2 * N)
    BY <2>2, <2>3, <2>4, SameTransitive
  <2> QED
    BY <2>5, SignedThreesDiffer
<1>3. IsFiniteSet(Index)
  <2>1. 0 \in Int /\ N - 1 \in Int /\ Index = 0 .. N - 1
    BY RowFacts, SMTT(60)
  <2> DEFINE m == N - 1
  <2> HIDE DEF m
  <2>2. IsFiniteSet(0 .. m)
    BY <2>1, FS_Interval DEF m
  <2> QED
    BY <2>1, <2>2 DEF m
<1>4. \A x \in Index : \E i \in Index : IndexMap[i] = x
  BY <1>1, <1>2, <1>3, InjectiveOnto
<1>5. \A i \in Index : (CHOOSE k \in Index : IndexMap[k] = IndexMap[i]) = i
  BY <1>2
<1> QED
  BY <1>1, <1>2, <1>4, <1>5


-----------------------------------------------------------------------------
(* What a plaintext holds in its slots.                                    *)

Residue == 0 .. P - 1

Plain == [Index -> Residue]

SlotAt(w, r, i) == ValueAt(w, r, SlotPower(i))

(* The coefficients of a plaintext are residues.                           *)
LEMMA PlainTypes ==
    ASSUME NEW w \in Plain
    PROVE  /\ P \in Nat \ {0} /\ P \in Int /\ w \in [Index -> Int] /\ w \in [Index -> 0 .. P - 1]
           /\ \A x \in Index : w[x] \in 0 .. P - 1 /\ w[x] \in Int /\ w[x] % P = w[x]
<1>1. P \in Nat \ {0} /\ P \in Int
  BY RowModulus
<1>2. ASSUME NEW x \in Index PROVE w[x] \in 0 .. P - 1 /\ w[x] \in Int /\ w[x] % P = w[x]
  <2> DEFINE y == w[x]
  <2>1. y \in 0 .. P - 1
    BY DEF Plain, Residue
  <2> HIDE DEF y
  <2>2. y \in Int /\ 0 <= y /\ y < P
    BY <1>1, <2>1
  <2>3. y % P = y
    BY <1>1, <2>2, OwnRemainder
  <2> QED
    BY <2>1, <2>2, <2>3 DEF y
<1>3. w = [x \in Index |-> w[x]]
  BY DEF Plain
<1>4. w \in [Index -> Int]
  BY <1>2, <1>3
<1> QED
  BY <1>1, <1>2, <1>4 DEF Plain, Residue

(* The transform evaluates at the exponents of the slots.                  *)
LEMMA SlotTypes ==
    ASSUME SupportsNtt, NEW r \in Roots, NEW w \in Plain, NEW i \in Index
    PROVE  /\ SlotAt(w, r, i) \in Int /\ SlotAt(w, r, i) % P \in Residue
           /\ Evaluate(w, r, IndexMap[i]) = SlotAt(w, r, i) % P
<1> DEFINE b == IndexMap[i]
           e == SlotPower(i)
<1>1. b \in Index /\ e = 2 * BitRev[b] + 1
  BY SlotPowers
<1>2. w \in [Index -> Int]
  BY PlainTypes
<1> HIDE DEF b, e
<1>3. /\ ValueAt(w, r, e) \in Int /\ Evaluate(w, r, b) = ValueAt(w, r, e) % P
      /\ Evaluate(w, r, b) \in 0 .. P - 1
  BY <1>1, <1>2, EvaluateAt
<1> QED
  BY <1>3 DEF SlotAt, Residue, b, e

(* Decoding gives the slots.                                               *)
LEMMA DecodedSlots ==
    ASSUME SupportsNtt, NEW r \in Roots, NEW w \in Plain, NEW simd, simd
    PROVE  DecodedValue(w, simd, r) = [i \in Index |-> SlotAt(w, r, i) % P]
<1>1. w \in [Index -> 0 .. P - 1]
  BY PlainTypes
<1>2. \A x \in Index : ForwardWhole(w, r)[x] = Evaluate(w, r, x)
  BY <1>1, ForwardWholeExact
<1>3. ASSUME NEW i \in Index PROVE ForwardWhole(w, r)[IndexMap[i]] = SlotAt(w, r, i) % P
  BY <1>2, SlotPowers, SlotTypes
<1>4. DecodedValue(w, simd, r) = [i \in Index |-> ForwardWhole(w, r)[IndexMap[i]]]
  BY DEF DecodedValue
<1> QED
  BY <1>3, <1>4

(* Entries of the vectors encoded are residues, or 0 beyond them.          *)
LEMMA AtTypes ==
    ASSUME NEW v \in Vectors \cup Others, NEW i \in Index
    PROVE  At(v, i) \in Residue
<1>1. v \in Seq(0 .. P - 1)
  BY SlotsAssumption
<1>2. 0 \in 0 .. P - 1
  BY RowModulus
<1>3. i \in Nat
  BY SlotOfRow
<1>4. CASE i < Len(v)
  <2>1. i + 1 \in 1 .. Len(v)
    BY <1>1, <1>3, <1>4
  <2> DEFINE S == 0 .. P - 1
             k == i + 1
  <2>2. v[i + 1] \in 0 .. P - 1
    <3>1. v \in Seq(S) /\ k \in 1 .. Len(v)
      BY <1>1, <2>1
    <3> HIDE DEF S, k
    <3>2. v[k] \in S
      BY <3>1
    <3> QED
      BY <3>2 DEF S, k
  <2> QED
    BY <1>4, <2>2 DEF At, Residue
<1>5. CASE ~(i < Len(v))
  BY <1>2, <1>5 DEF At, Residue
<1> QED
  BY <1>4, <1>5

(* Encoding as coefficients is the vector.                                 *)
LEMMA EncodedCoefficients ==
    ASSUME NEW v \in Vectors \cup Others, NEW r, NEW simd, ~simd
    PROVE  /\ EncodedValue(v, simd, r) = [i \in Index |-> At(v, i)]
           /\ EncodedValue(v, simd, r) \in Plain
<1>1. EncodedValue(v, simd, r) = [i \in Index |-> At(v, i)]
  BY DEF EncodedValue
<1> QED
  BY <1>1, AtTypes DEF Plain

(* Encoding in slots gives a plaintext with these slots.                   *)
LEMMA EncodedSlots ==
    ASSUME SupportsNtt, NEW r \in Roots, NEW v \in Vectors \cup Others, NEW simd, simd
    PROVE  /\ EncodedValue(v, simd, r) \in Plain
           /\ \A i \in Index : Same(SlotAt(EncodedValue(v, simd, r), r, i), At(v, i), P)
<1> DEFINE k(j) == CHOOSE i \in Index : IndexMap[i] = j
           a == [j \in Index |-> At(v, k(j))]
<1>1. a \in [Index -> 0 .. P - 1]
  <2>1. ASSUME NEW j \in Index PROVE k(j) \in Index
    BY IndexMapPermutes
  <2>2. ASSUME NEW j \in Index PROVE At(v, k(j)) \in 0 .. P - 1
    <3> HIDE DEF k
    <3> QED
      BY <2>1, AtTypes DEF Residue
  <2> HIDE DEF k
  <2> QED
    BY <2>2
<1>2. EncodedValue(v, simd, r) = BackwardWhole(a, r)
  BY DEF EncodedValue
<1>3. \A i \in Index : IndexMap[i] \in Index /\ a[IndexMap[i]] = At(v, i)
  <2>1. ASSUME NEW i \in Index PROVE IndexMap[i] \in Index /\ k(IndexMap[i]) = i
    BY IndexMapPermutes
  <2> HIDE DEF k
  <2> QED
    BY <2>1
<1> HIDE DEF a
<1>4. PICK w \in [Index -> 0 .. P - 1] : HoldsValues(a, w, r, P)
  BY <1>1, Interpolates
<1>5. EncodedValue(v, simd, r) = w
  BY <1>1, <1>2, <1>4, BackwardWholeExact
<1>6. w \in Plain
  BY DEF Plain, Residue
<1>7. ASSUME NEW i \in Index PROVE Same(SlotAt(w, r, i), At(v, i), P)
  <2> DEFINE x == IndexMap[i]
             y == At(v, i)
             z == SlotAt(w, r, i)
  <2>1. x \in Index /\ a[x] = y /\ y \in 0 .. P - 1
    BY <1>3, AtTypes DEF Residue
  <2>2. a[x] % P = Evaluate(w, r, x)
    BY <1>4, <2>1 DEF HoldsValues
  <2>3. z \in Int /\ Evaluate(w, r, x) = z % P
    BY <1>6, SlotTypes
  <2>4. P \in Nat \ {0} /\ P \in Int
    BY RowModulus
  <2> HIDE DEF x, y, z
  <2>5. y % P = z % P /\ y \in Int
    BY <2>1, <2>2, <2>3, <2>4
  <2>6. Same(z % P, z, P) /\ Same(y % P, y, P)
    BY <2>3, <2>4, <2>5, SameMod
  <2>7. Same(z, z % P, P)
    BY <2>4, <2>6, SameSymmetric
  <2>8. Same(z, y, P)
    <3>1. Same(z % P, y, P)
      BY <2>5, <2>6
    <3> QED
      BY <2>4, <2>7, <3>1, SameTransitive
  <2> QED
    BY <2>8 DEF y, z
<1> QED
  BY <1>5, <1>6, <1>7


-----------------------------------------------------------------------------
(* What the operations do to the slots.                                    *)

(* A sum of plaintexts is one.                                             *)
LEMMA AddedTypes ==
    ASSUME NEW a \in Plain, NEW b \in Plain,
           NEW c, c = [i \in Index |-> Add(PModulus, a[i], b[i])]
    PROVE  c \in Plain /\ \A i \in Index : c[i] = (a[i] + b[i]) % P /\ Same(c[i], a[i] + b[i], P)
<1>1. P \in Nat \ {0} /\ P \in Int /\ PModulus.p = P
  BY RowModulus
<1>2. ASSUME NEW i \in Index
      PROVE  c[i] \in Residue /\ c[i] = (a[i] + b[i]) % P /\ Same(c[i], a[i] + b[i], P)
  <2> DEFINE x == a[i]
             y == b[i]
  <2>1. x \in 0 .. P - 1 /\ y \in 0 .. P - 1 /\ x \in Int /\ y \in Int
    BY PlainTypes
  <2>2. c[i] = Add(PModulus, x, y)
    OBVIOUS
  <2> HIDE DEF x, y
  <2>3. c[i] = (x + y) % P
    BY <1>1, <2>1, <2>2, SumsExact
  <2> DEFINE z == x + y
  <2>4. z \in Int
    BY <2>1
  <2> HIDE DEF z
  <2>5. z % P \in 0 .. P - 1 /\ Same(z % P, z, P)
    BY <1>1, <2>4, Remainder, SameMod
  <2> QED
    BY <2>3, <2>5 DEF x, y, z, Residue
<1>3. c \in Plain
  BY <1>2 DEF Plain
<1> QED
  BY <1>2, <1>3

(* Slots of a sum are sums of slots.                                       *)
LEMMA AddedSlots ==
    ASSUME SupportsNtt, NEW r \in Roots, NEW a \in Plain, NEW b \in Plain,
           NEW c, c = [i \in Index |-> Add(PModulus, a[i], b[i])], NEW i \in Index
    PROVE  Same(SlotAt(c, r, i), SlotAt(a, r, i) + SlotAt(b, r, i), P)
<1> DEFINE e == SlotPower(i)
           f == ValueTerms(c, r, e)
           g == ValueTerms(a, r, e)
           h == ValueTerms(b, r, e)
           s == [k \in Index |-> g[k] + h[k]]
<1>1. c \in Plain /\ \A k \in Index : Same(c[k], a[k] + b[k], P)
  BY AddedTypes
<1> HIDE DEF e
<1>2. a \in [Index -> Int] /\ b \in [Index -> Int] /\ c \in [Index -> Int] /\ P \in Int
      /\ \A k \in Index : a[k] \in Int /\ b[k] \in Int
  BY <1>1, PlainTypes
<1>3. e \in Int
  BY SlotPowers DEF e
<1>4. Terms(f, Index) /\ Terms(g, Index) /\ Terms(h, Index)
      /\ \A k \in Index : RootTo(r, e * k) \in Int
  BY <1>2, <1>3, ValueTypes
<1>5. ASSUME NEW k \in Index PROVE Same(f[k], s[k], P) /\ s[k] \in Int
  <2> DEFINE z == RootTo(r, e * k)
             x == a[k]
             y == b[k]
             u == c[k]
  <2>1. f[k] = u * z /\ g[k] = x * z /\ h[k] = y * z /\ s[k] = g[k] + h[k]
    BY DEF ValueTerms
  <2>2. x \in Int /\ y \in Int /\ z \in Int /\ Same(u, x + y, P)
    BY <1>1, <1>2, <1>4
  <2> HIDE DEF f, g, h, s, x, y, z, u
  <2>3. Same(z, z, P)
    BY <1>2, <2>2, SameReflexive
  <2>4. Same(u * z, (x + y) * z, P)
    BY <1>2, <2>2, <2>3, SameTimes
  <2>5. s[k] = (x + y) * z /\ s[k] \in Int
    BY <2>1, <2>2
  <2> QED
    BY <2>1, <2>4, <2>5
<1>6. \A k \in Index : s[k] = g[k] + h[k]
  OBVIOUS
<1>7. SlotAt(c, r, i) = SumFunctionOnSet(f, Index) /\ SlotAt(a, r, i) = SumFunctionOnSet(g, Index)
      /\ SlotAt(b, r, i) = SumFunctionOnSet(h, Index)
  BY DEF SlotAt, ValueAt, e
<1> HIDE DEF f, g, h, s
<1>8. Terms(s, Index)
  BY <1>4, <1>5 DEF Terms
<1>9. Same(SumFunctionOnSet(f, Index), SumFunctionOnSet(s, Index), P)
  BY <1>2, <1>4, <1>5, <1>8, SumCongruent
<1>10. SumFunctionOnSet(s, Index) = SumFunctionOnSet(g, Index) + SumFunctionOnSet(h, Index)
  BY <1>4, <1>6, SumPlus
<1> QED
  BY <1>7, <1>9, <1>10

(* Slots of a product are products of slots.                               *)
LEMMA MultipliedSlots ==
    ASSUME SupportsNtt, NEW r \in Roots, NEW a \in Plain, NEW b \in Plain, NEW i \in Index
    PROVE  /\ Product1(a, b) \in Plain
           /\ Same(SlotAt(Product1(a, b), r, i), SlotAt(a, r, i) * SlotAt(b, r, i), P)
<1> DEFINE e == SlotPower(i)
           c == Product1(a, b)
<1>1. a \in [Index -> Int] /\ b \in [Index -> Int]
  BY PlainTypes
<1>2. e \in Int /\ e % 2 = 1
  BY SlotPowers
<1>3. c \in Plain
  BY <1>1, ProductTypes DEF Plain, Residue
<1> HIDE DEF e
<1>4. Same(ValueAt(c, r, e), ValueAt(a, r, e) * ValueAt(b, r, e), P)
  <2> HIDE DEF c
  <2>1. c = Product1(a, b)
    BY DEF c
  <2> QED
    BY <1>1, <1>2, <2>1, ProductAtRoot
<1> QED
  BY <1>3, <1>4 DEF SlotAt, e

(* The substitution of the code is the composition.                        *)
LEMMA SubstitutedIs ==
    ASSUME NEW a \in Plain, NEW e \in Nat, e % 2 = 1
    PROVE  SubstitutedPower(a, e) = ComposedWith(a, e) /\ ComposedWith(a, e) \in Plain
<1>1. a \in [Index -> 0 .. P - 1] /\ a \in [Index -> Int]
  BY PlainTypes
<1>2. \A j \in Index : SubstitutedPower(a, e)[j] = ComposedWith(a, e)[j]
  BY <1>1, SubstitutedPowerExact
<1>3. ComposedWith(a, e) \in [Index -> 0 .. P - 1]
  BY <1>1, ComposedTypes
<1>4. SubstitutedPower(a, e) = [j \in Index |-> SubstitutedPower(a, e)[j]]
  BY DEF SubstitutedPower
<1> QED
  BY <1>2, <1>3, <1>4 DEF Plain, Residue

(* A substitution moves slots as it multiplies their exponents.            *)
LEMMA SubstitutedSlots ==
    ASSUME SupportsNtt, NEW r \in Roots, NEW a \in Plain, NEW e \in Nat, e % 2 = 1,
           NEW i \in Index, NEW k \in Index, Same(SlotPower(i) * e, SlotPower(k), 2 * N)
    PROVE  Same(SlotAt(SubstitutedPower(a, e), r, i), SlotAt(a, r, k), P)
<1> DEFINE x == SlotPower(i)
           o == SlotPower(k)
           c == ComposedWith(a, e)
<1>1. a \in [Index -> Int] /\ P \in Int
  BY PlainTypes
<1>2. x \in Int /\ x % 2 = 1 /\ o \in Int
  BY SlotPowers
<1>3. PICK n \in Int : x * e = o + n * (2 * N)
  BY DEF Same
<1> HIDE DEF x, o
<1>4. Same(ValueAt(a, r, o), ValueAt(c, r, x), P)
  <2> HIDE DEF c
  <2>1. c = ComposedWith(a, e)
    BY DEF c
  <2> QED
    BY <1>1, <1>2, <1>3, <2>1, ComposedAt
<1>5. Same(ValueAt(c, r, x), ValueAt(a, r, o), P)
  BY <1>1, <1>4, SameSymmetric
<1>6. SubstitutedPower(a, e) = c
  BY SubstitutedIs
<1> QED
  BY <1>5, <1>6 DEF SlotAt, x, o

(* The exponents of rotations.                                             *)

(* The exponent of a column rotation is a power of three.                  *)
LEMMA ColumnExponentIs ==
    ASSUME NEW s \in 0 .. RowSize
    PROVE  /\ ColumnExponent(s) \in Nat /\ ColumnExponent(s) % 2 = 1
           /\ Same(ColumnExponent(s), Threes[s], 2 * N)
<1>1. 2 * N \in Nat /\ NewModulusOk(2 * N) /\ 2 * N >= 16 /\ RowSize \in Nat /\ 2 * N = 4 * RowSize
  BY RowFacts, SlotsAssumption, SMTT(60)
<1>2. s \in Word
  <2> DEFINE m == 2 * N
             q == B \div 4
  <2>1. m < q /\ B \in Nat /\ m \in Nat
    <3>1. B \in Nat
      BY WordTypes
    <3> QED
      BY <1>1, <3>1 DEF NewModulusOk
  <2>2. s \in Nat /\ s <= m
    BY <1>1
  <2> HIDE DEF m
  <2>3. s < B
    BY <2>1, <2>2
  <2> QED
    BY <2>1, <2>2, <2>3 DEF Word
<1>3. PowersOf(Threes, 3)
  BY ThreesAre
<1> DEFINE m == 2 * N
<1>4. Power(NewModulus(m), 3, s) = Threes[s] % m
  <2>1. m \in Nat /\ NewModulusOk(m) /\ 3 \in 0 .. m - 1
    BY <1>1
  <2> HIDE DEF m
  <2> QED
    BY <1>2, <1>3, <2>1, PowerExact
<1>5. ColumnExponent(s) = GeneratorPower[s]
  BY <1>4, GeneratorPowers DEF ColumnExponent
<1> QED
  BY <1>1, <1>5, GeneratorPowers, GeneratorOdd

(* The exponent of the row rotation is -1.                                 *)
LEMMA RowExponentIs ==
    RowExponent \in Nat /\ RowExponent % 2 = 1 /\ Same(RowExponent, -1, 2 * N)
<1>1. N \in Nat /\ N >= 8 /\ 2 * N \in Int
  BY RowFacts
<1>2. RowExponent = -1 + 1 * (2 * N) /\ RowExponent \in Nat /\ RowExponent % 2 = 1
  BY <1>1 DEF RowExponent
<1> QED
  BY <1>2 DEF Same


ColumnTo(i, s) == ((i \div RowSize) * RowSize) + ((i + s) % RowSize)

RowTo(i) == (i + RowSize) % N

(* Powers of three multiply as columns add, around the row.                *)
LEMMA ThreesColumn ==
    ASSUME NEW c \in 0 .. RowSize - 1, NEW s \in 0 .. RowSize
    PROVE  /\ (c + s) % RowSize \in 0 .. RowSize - 1
           /\ Same(Threes[c] * Threes[s], Threes[(c + s) % RowSize], 2 * N)
<1> DEFINE q == RowSize
           d == (c + s) % q
<1>1. q \in Nat \ {0} /\ 2 * N \in Int /\ q \in Int
  BY RowFacts
<1>2. c \in 0 .. q - 1 /\ s \in 0 .. q
  OBVIOUS
<1>3. Same(Threes[q], 1, 2 * N)
  BY ThreesRow
<1> HIDE DEF q
<1>4. c \in Nat /\ s \in Nat /\ c + s \in Int
  BY <1>1, <1>2
<1>5. Threes[c + s] = Threes[c] * Threes[s]
  BY <1>4, ThreesAre
<1>6. CASE c + s < q
  <2>1. d = c + s
    <3> DEFINE z == c + s
    <3>1. z \in Int /\ 0 <= z /\ z < q
      BY <1>1, <1>2, <1>6
    <3> HIDE DEF z
    <3>2. z % q = z
      BY <1>1, <3>1, OwnRemainder
    <3> QED
      BY <3>2 DEF z
  <2> HIDE DEF d
  <2>2. d \in 0 .. q - 1 /\ d \in Nat
    BY <1>1, <1>2, <1>6, <2>1
  <2>3. Same(Threes[d], Threes[d], 2 * N)
    BY <1>1, <2>2, ThreesAre, SameReflexive
  <2> QED
    BY <1>5, <2>1, <2>2, <2>3 DEF d, q
<1>7. CASE ~(c + s < q)
  <2> DEFINE z == c + s
             x == z - q
  <2>1. z \in Int /\ z = 1 * q + x /\ 0 <= x /\ x < q /\ x \in Int /\ x \in Nat /\ z = q + x
    BY <1>1, <1>2, <1>7
  <2>2. z % q = x
    <3> HIDE DEF z, x
    <3>1. 1 \in Int
      OBVIOUS
    <3> QED
      BY <1>1, <2>1, <3>1, RemainderUnique
  <2>3. Threes[z] = Threes[q] * Threes[x] /\ Threes[x] \in Int
    <3> HIDE DEF z, x
    <3>1. q \in Nat /\ x \in Nat
      BY <1>1, <2>1
    <3> QED
      BY <2>1, <3>1, ThreesAre
  <2>4. d = x
    BY <2>2
  <2> HIDE DEF z, x, d
  <2>5. x \in 0 .. q - 1
    BY <1>1, <2>1
  <2> DEFINE y == Threes[x]
             u == Threes[q]
  <2>6. y \in Int /\ Threes[z] = u * y /\ Same(u, 1, 2 * N)
    BY <1>3, <2>3
  <2> HIDE DEF y, u
  <2>7. Same(y, y, 2 * N)
    BY <1>1, <2>6, SameReflexive
  <2>8. Same(u * y, 1 * y, 2 * N)
    BY <1>1, <2>6, <2>7, SameTimes
  <2>12. 1 * y = y
    BY <2>6
  <2>9. Same(Threes[z], y, 2 * N)
    BY <2>6, <2>8, <2>12
  <2>10. Threes[z] = Threes[c] * Threes[s]
    BY <1>5 DEF z
  <2>11. Same(Threes[c] * Threes[s], Threes[d], 2 * N)
    BY <2>4, <2>9, <2>10 DEF y
  <2> QED
    BY <2>4, <2>5, <2>11 DEF d, q
<1> QED
  BY <1>6, <1>7

(* The halves of the index.                                                *)
LEMMA RowOfSlot ==
    ASSUME NEW i \in Index
    PROVE  /\ i < RowSize => i \div RowSize = 0 /\ i % RowSize = i
           /\ ~(i < RowSize) => i \div RowSize = 1 /\ i % RowSize = i - RowSize
           /\ \A s \in Nat : ~(i < RowSize) => (i + s) % RowSize = ((i - RowSize) + s) % RowSize
<1> DEFINE q == RowSize
<1>1. q \in Nat \ {0} /\ i \in Int
  BY RowFacts, SlotOfRow
<1>2. i < q => 0 <= i /\ i < q
  BY SlotOfRow
<1>7. ~(i < q) => i - q \in 0 .. q - 1
  BY SlotOfRow
<1> HIDE DEF q
<1>3. ~(i < q) => 0 <= i - q /\ i - q < q
  BY <1>1, <1>7
<1>4. ASSUME i < q PROVE i \div q = 0 /\ i % q = i
  <2>1. i = 0 * q + i /\ 0 \in Int /\ 0 <= i /\ i < q
    BY <1>1, <1>2, <1>4
  <2> QED
    BY <1>1, <2>1, QuotientUnique, RemainderUnique
<1>5. ASSUME ~(i < q) PROVE i \div q = 1 /\ i % q = i - q
  <2> DEFINE x == i - q
  <2>1. i = 1 * q + x /\ 1 \in Int /\ 0 <= x /\ x < q /\ x \in Int
    BY <1>1, <1>3, <1>5
  <2> HIDE DEF x
  <2> QED
    BY <1>1, <2>1, QuotientUnique, RemainderUnique DEF x
<1>6. ASSUME NEW s \in Nat PROVE (i + s) % q = ((i - q) + s) % q
  <2> DEFINE x == i + s
             y == (i - q) + s
  <2>1. x \in Int /\ y \in Int /\ x = 1 * q + y /\ 1 \in Int
    BY <1>1
  <2> HIDE DEF x, y
  <2>3. PICK k \in Int : x = k * q + y
    BY <2>1
  <2>2. x % q = y % q
    <3>1. x \in Int /\ y \in Int /\ q \in Nat \ {0}
      BY <1>1, <2>1
    <3> QED
      BY <2>3, <3>1, SameRemainder, ZenonT(60)
  <2> QED
    BY <2>2 DEF x, y
<1> QED
  BY <1>4, <1>5, <1>6 DEF q

(* Rotating columns multiplies the exponent by a power of three.           *)
LEMMA SignedColumn ==
    ASSUME NEW i \in Index, NEW s \in 0 .. RowSize
    PROVE  /\ ColumnTo(i, s) \in Index
           /\ Same(SignedThree(i) * Threes[s], SignedThree(ColumnTo(i, s)), 2 * N)
<1>1. RowSize \in Nat \ {0} /\ N = 2 * RowSize /\ 2 * N \in Int /\ Index = 0 .. N - 1 /\ s \in Nat
      /\ RowSize \in Nat
  BY RowFacts
<1>2. CASE i < RowSize
  <2> DEFINE d == (i + s) % RowSize
  <2>1. i \in 0 .. RowSize - 1 /\ i \div RowSize = 0
    BY <1>2, SlotOfRow, RowOfSlot
  <2>2. d \in 0 .. RowSize - 1 /\ Same(Threes[i] * Threes[s], Threes[d], 2 * N)
    BY <2>1, ThreesColumn
  <2>3. ColumnTo(i, s) = (0 * RowSize) + d
    BY <2>1 DEF ColumnTo
  <2> HIDE DEF d
  <2>4. ColumnTo(i, s) = d /\ d \in Index /\ d < RowSize
    BY <1>1, <2>2, <2>3
  <2> QED
    BY <1>2, <2>2, <2>4 DEF SignedThree
<1>3. CASE ~(i < RowSize)
  <2> DEFINE c == i - RowSize
             d == (c + s) % RowSize
             x == Threes[c]
             y == Threes[s]
             z == Threes[d]
  <2>1. c \in 0 .. RowSize - 1 /\ i \div RowSize = 1 /\ (i + s) % RowSize = d
    BY <1>1, <1>3, SlotOfRow, RowOfSlot
  <2>2. d \in 0 .. RowSize - 1 /\ Same(x * y, z, 2 * N)
    <3> HIDE DEF c
    <3> QED
      BY <2>1, ThreesColumn
  <2>3. x \in Int /\ y \in Int
    <3>1. c \in Nat
      BY <1>1, <2>1
    <3> HIDE DEF c
    <3> QED
      BY <1>1, <3>1, ThreesAre
  <2>4. ColumnTo(i, s) = (1 * RowSize) + d
    BY <2>1 DEF ColumnTo
  <2>5. SignedThree(i) = -x
    BY <1>3 DEF SignedThree
  <2> HIDE DEF c, d, x, y, z
  <2>6. ColumnTo(i, s) \in Index /\ ~(ColumnTo(i, s) < RowSize) /\ ColumnTo(i, s) - RowSize = d
    <3>1. d \in Int /\ 0 <= d /\ d < RowSize /\ ColumnTo(i, s) = RowSize + d
      BY <1>1, <2>2, <2>4
    <3> QED
      BY <1>1, <3>1
  <2>7. SignedThree(ColumnTo(i, s)) = -z
    BY <2>6 DEF SignedThree, z
  <2>8. Same(-(x * y), -z, 2 * N)
    BY <1>1, <2>2, SameNegated
  <2>9. (-x) * y = -(x * y)
    BY <2>3
  <2> QED
    BY <2>5, <2>6, <2>7, <2>8, <2>9 DEF y
<1> QED
  BY <1>2, <1>3

(* Exchanging rows changes the sign of the exponent.                       *)
LEMMA SignedRow ==
    ASSUME NEW i \in Index
    PROVE  /\ RowTo(i) \in Index
           /\ SignedThree(RowTo(i)) = -SignedThree(i)
           /\ i < RowSize => RowTo(i) = i + RowSize
           /\ ~(i < RowSize) => RowTo(i) = i - RowSize
<1> DEFINE q == RowSize
           x == i + q
<1>1. q \in Nat \ {0} /\ N = 2 * q /\ N \in Nat \ {0} /\ Index = 0 .. N - 1
  BY RowFacts
<1>2. i \in Int /\ 0 <= i /\ i < 2 * q
  BY <1>1, SlotOfRow
<1> HIDE DEF q
<1>3. CASE i < q
  <2>1. x \in Int /\ 0 <= x /\ x < N /\ ~(x < q) /\ x - q = i
    BY <1>1, <1>2, <1>3
  <2>2. x = i + q
    OBVIOUS
  <2> HIDE DEF x
  <2>3. x % N = x
    BY <1>1, <2>1, OwnRemainder
  <2>4. RowTo(i) = x
    BY <2>2, <2>3 DEF RowTo, q
  <2>5. SignedThree(x) = -Threes[i] /\ SignedThree(i) = Threes[i]
    BY <1>3, <2>1 DEF SignedThree, q
  <2>6. x \in Index
    BY <1>1, <2>1
  <2> QED
    BY <1>3, <2>2, <2>4, <2>5, <2>6 DEF q
<1>4. CASE ~(i < q)
  <2> DEFINE y == i - q
  <2>1. x \in Int /\ x = 1 * N + y /\ 0 <= y /\ y < N /\ y \in Int /\ y < q /\ 1 \in Int
    BY <1>1, <1>2, <1>4
  <2>2. x = i + q /\ y = i - q
    OBVIOUS
  <2> HIDE DEF x, y
  <2>3. x % N = y
    BY <1>1, <2>1, RemainderUnique
  <2>4. RowTo(i) = y
    BY <2>2, <2>3 DEF RowTo, q
  <2>5. SignedThree(y) = Threes[y] /\ SignedThree(i) = -Threes[y]
    BY <1>4, <2>1, <2>2 DEF SignedThree, q
  <2>6. y \in Index /\ y \in Nat
    BY <1>1, <2>1
  <2>7. Threes[y] \in Int
    BY <2>6, ThreesAre
  <2>8. Threes[y] = -(-Threes[y])
    BY <2>7
  <2> QED
    BY <1>4, <2>2, <2>4, <2>5, <2>6, <2>8 DEF q
<1> QED
  BY <1>3, <1>4 DEF q


(* X -> X^(3^s) rotates the columns by s.                                  *)
LEMMA ColumnsRotated ==
    ASSUME SupportsNtt, NEW r \in Roots, NEW a \in Plain, NEW s \in 0 .. RowSize,
           NEW c, c = SubstitutedPower(a, ColumnExponent(s))
    PROVE  /\ c \in Plain
           /\ \A i \in Index : /\ ColumnTo(i, s) \in Index
                               /\ Same(SlotAt(c, r, i), SlotAt(a, r, ColumnTo(i, s)), P)
<1> DEFINE e == ColumnExponent(s)
<1>1. e \in Nat /\ e % 2 = 1 /\ Same(e, Threes[s], 2 * N)
  BY ColumnExponentIs
<1>2. 2 * N \in Int
  BY RowFacts
<1>3. c = SubstitutedPower(a, e)
  OBVIOUS
<1> HIDE DEF e
<1>4. c \in Plain
  BY <1>1, <1>3, SubstitutedIs
<1>5. ASSUME NEW i \in Index
      PROVE  /\ ColumnTo(i, s) \in Index
             /\ Same(SlotAt(c, r, i), SlotAt(a, r, ColumnTo(i, s)), P)
  <2> DEFINE k == ColumnTo(i, s)
             x == SlotPower(i)
             y == SlotPower(k)
             u == SignedThree(i)
             v == SignedThree(k)
             t == Threes[s]
  <2>1. k \in Index /\ Same(u * t, v, 2 * N)
    BY SignedColumn
  <2> HIDE DEF k
  <2>2. Same(x, u, 2 * N) /\ Same(y, v, 2 * N)
    BY <2>1, SlotPowers
  <2> HIDE DEF x, y, u, v, t
  <2>3. Same(x * e, u * t, 2 * N)
    BY <1>1, <1>2, <2>2, SameTimes DEF t
  <2>4. Same(x * e, v, 2 * N)
    BY <1>2, <2>1, <2>3, SameTransitive
  <2>5. Same(v, y, 2 * N)
    BY <1>2, <2>2, SameSymmetric
  <2>6. Same(SlotPower(i) * e, SlotPower(k), 2 * N)
    BY <1>2, <2>4, <2>5, SameTransitive DEF x, y
  <2>7. Same(SlotAt(c, r, i), SlotAt(a, r, k), P)
    BY <1>1, <1>3, <2>1, <2>6, SubstitutedSlots
  <2> QED
    BY <2>1, <2>7 DEF k
<1> QED
  BY <1>4, <1>5

(* X -> X^(-1) exchanges the rows.                                         *)
LEMMA RowsRotated ==
    ASSUME SupportsNtt, NEW r \in Roots, NEW a \in Plain,
           NEW c, c = SubstitutedPower(a, RowExponent)
    PROVE  /\ c \in Plain
           /\ \A i \in Index : /\ RowTo(i) \in Index
                               /\ Same(SlotAt(c, r, i), SlotAt(a, r, RowTo(i)), P)
<1> DEFINE e == RowExponent
<1>1. e \in Nat /\ e % 2 = 1 /\ Same(e, -1, 2 * N)
  BY RowExponentIs
<1>2. 2 * N \in Int
  BY RowFacts
<1>3. c = SubstitutedPower(a, e)
  OBVIOUS
<1> HIDE DEF e
<1>4. c \in Plain
  BY <1>1, <1>3, SubstitutedIs
<1>5. ASSUME NEW i \in Index
      PROVE  RowTo(i) \in Index /\ Same(SlotAt(c, r, i), SlotAt(a, r, RowTo(i)), P)
  <2> DEFINE k == RowTo(i)
             x == SlotPower(i)
             y == SlotPower(k)
             u == SignedThree(i)
             v == SignedThree(k)
  <2>1. k \in Index /\ v = -u
    BY SignedRow
  <2> HIDE DEF k
  <2>2. Same(x, u, 2 * N) /\ Same(y, v, 2 * N) /\ u \in Int
    BY <2>1, SlotPowers
  <2> HIDE DEF x, y, u, v
  <2>3. Same(x * e, u * (-1), 2 * N)
    BY <1>1, <1>2, <2>2, SameTimes
  <2>4. u * (-1) = v
    BY <2>1, <2>2
  <2>5. Same(v, y, 2 * N)
    BY <1>2, <2>2, SameSymmetric
  <2>6. Same(x * e, v, 2 * N)
    BY <2>3, <2>4
  <2>7. Same(SlotPower(i) * e, SlotPower(k), 2 * N)
    BY <1>2, <2>5, <2>6, SameTransitive DEF x, y
  <2>8. Same(SlotAt(c, r, i), SlotAt(a, r, k), P)
    BY <1>1, <1>3, <2>1, <2>7, SubstitutedSlots
  <2> QED
    BY <2>1, <2>8 DEF k
<1> QED
  BY <1>4, <1>5

-----------------------------------------------------------------------------
(* The inner sum: after l steps a slot holds the sum of a window of 2^l    *)
(* slots of its row, and after the last one, of all slots.                 *)

Window(i, w) == {ColumnTo(i, d) : d \in 0 .. w - 1}

(* A rotated column stays in its row.                                      *)
LEMMA ColumnFacts ==
    ASSUME NEW i \in Index, NEW s \in Nat
    PROVE  /\ ColumnTo(i, s) \in Index
           /\ ColumnTo(i, s) \div RowSize = i \div RowSize
           /\ ColumnTo(i, s) % RowSize = (i + s) % RowSize
           /\ (i + s) % RowSize \in 0 .. RowSize - 1
<1> DEFINE q == RowSize
           h == i \div q
           c == (i + s) % q
<1>1. q \in Nat \ {0} /\ N = 2 * q /\ Index = 0 .. N - 1 /\ i \in Nat
  BY RowFacts, SlotOfRow
<1>2. h = 0 \/ h = 1
  BY RowOfSlot
<1>3. ColumnTo(i, s) = h * q + c
  BY DEF ColumnTo
<1> HIDE DEF h, q
<1>4. c \in 0 .. q - 1
  <2> DEFINE z == i + s
  <2>1. z \in Int
    BY <1>1
  <2> HIDE DEF z
  <2>2. z % q \in 0 .. q - 1
    BY <1>1, <2>1, Remainder
  <2> QED
    BY <2>2 DEF z
<1> HIDE DEF c
<1> DEFINE x == h * q + c
<1>5. h \in Int /\ x = h * q + c /\ x \in Int /\ c \in Int /\ 0 <= c /\ c < q
  BY <1>1, <1>2, <1>4
<1>6. x \in Index
  BY <1>1, <1>2, <1>4
<1> HIDE DEF x
<1>7. x \div q = h /\ x % q = c
  BY <1>1, <1>5, QuotientUnique, RemainderUnique
<1>8. ColumnTo(i, s) = x
  BY <1>3 DEF x
<1> QED
  BY <1>4, <1>6, <1>7, <1>8 DEF q, h, c

(* A slot is told by its row and its column.                               *)
LEMMA SlotIs ==
    ASSUME NEW i \in Index, NEW j \in Index, i \div RowSize = j \div RowSize,
           i % RowSize = j % RowSize
    PROVE  i = j
<1> DEFINE q == RowSize
<1>1. q \in Nat \ {0} /\ i \in Int /\ j \in Int
  BY RowFacts, SlotOfRow
<1>2. i \div q = j \div q /\ i % q = j % q
  OBVIOUS
<1> HIDE DEF q
<1>3. i = (i \div q) * q + (i % q) /\ j = (j \div q) * q + (j % q)
  BY <1>1, Remainder
<1> QED
  BY <1>2, <1>3

(* Two rotations make one.                                                 *)
LEMMA ColumnAdds ==
    ASSUME NEW i \in Index, NEW a \in Nat, NEW d \in Nat
    PROVE  ColumnTo(ColumnTo(i, a), d) = ColumnTo(i, a + d)
<1> DEFINE q == RowSize
           y == ColumnTo(i, a)
           x == ColumnTo(y, d)
           z == ColumnTo(i, a + d)
<1>1. q \in Nat \ {0} /\ i \in Int /\ a + d \in Nat
  BY RowFacts, SlotOfRow
<1>2. y \in Index /\ y \div q = i \div q /\ y % q = (i + a) % q
  BY ColumnFacts
<1>3. z \in Index /\ z \div q = i \div q /\ z % q = (i + (a + d)) % q
  BY <1>1, ColumnFacts
<1> HIDE DEF y, z
<1>4. x \in Index /\ x \div q = y \div q /\ x % q = (y + d) % q
  BY <1>2, ColumnFacts
<1>5. y \in Int
  BY <1>2, SlotOfRow
<1> HIDE DEF x
<1>6. (y + d) % q = (i + (a + d)) % q
  <2> HIDE DEF q
  <2>1. ((y % q) + d) % q = (y + d) % q
    <3>1. q \in Nat \ {0} /\ y \in Int /\ d \in Int
      BY <1>1, <1>5
    <3> QED
      BY <3>1, RemainderOfSum
  <2> DEFINE u == i + a
  <2>2. u \in Int /\ u + d = i + (a + d) /\ y % q = u % q
    BY <1>1, <1>2
  <2> HIDE DEF u
  <2>3. ((u % q) + d) % q = (u + d) % q
    <3>1. q \in Nat \ {0} /\ u \in Int /\ d \in Int
      BY <1>1, <2>2
    <3> QED
      BY <3>1, RemainderOfSum
  <2> QED
    BY <2>1, <2>2, <2>3
<1>7. x = z
  BY <1>2, <1>3, <1>4, <1>6, SlotIs
<1> QED
  BY <1>7 DEF x, y, z

(* Columns within one row of one another are different.                    *)
LEMMA ColumnsDiffer ==
    ASSUME NEW i \in Index, NEW a \in 0 .. RowSize - 1, NEW b \in 0 .. RowSize - 1,
           ColumnTo(i, a) = ColumnTo(i, b)
    PROVE  a = b
<1> DEFINE q == RowSize
<1>1. q \in Nat \ {0} /\ q \in Int /\ i \in Int /\ a \in 0 .. q - 1 /\ b \in 0 .. q - 1
      /\ a \in Nat /\ b \in Nat
  BY RowFacts, SlotOfRow
<1>2. (i + a) % q = (i + b) % q
  BY <1>1, ColumnFacts
<1> HIDE DEF q
<1> DEFINE x == i + a
           y == i + b
<1>3. x \in Int /\ y \in Int /\ x % q = y % q
  BY <1>1, <1>2
<1>4. x + (-i) = a /\ y + (-i) = b /\ -i \in Int
  BY <1>1
<1> HIDE DEF x, y
<1>5. Same(x % q, x, q) /\ Same(x % q, y, q)
  BY <1>1, <1>3, SameMod
<1>6. Same(x, y, q)
  <2>1. Same(x, x % q, q)
    BY <1>1, <1>5, SameSymmetric
  <2> QED
    BY <1>1, <1>5, <2>1, SameTransitive
<1>7. Same(x + (-i), y + (-i), q)
  <2>1. Same(-i, -i, q)
    BY <1>1, <1>4, SameReflexive
  <2> QED
    BY <1>1, <1>6, <2>1, SameAdd
<1>8. Same(a, b, q)
  BY <1>4, <1>7
<1> QED
  BY <1>1, <1>8, SameIndex


(* A window and the one after it make one of twice the size.               *)
LEMMA WindowDoubles ==
    ASSUME NEW i \in Index, NEW w \in Nat, w >= 1, 2 * w <= RowSize,
           NEW t, t = ColumnTo(i, w)
    PROVE  /\ t \in Index
           /\ Window(i, 2 * w) = Window(i, w) \cup Window(t, w)
           /\ Window(i, w) \cap Window(t, w) = {}
           /\ Window(i, 2 * w) \subseteq Index
<1>1. RowSize \in Nat /\ RowSize \in Int
  BY RowFacts
<1>2. t \in Index
  BY ColumnFacts
<1>3. Window(i, 2 * w) = {ColumnTo(i, d) : d \in 0 .. 2 * w - 1}
      /\ Window(i, w) = {ColumnTo(i, d) : d \in 0 .. w - 1}
  BY DEF Window
<1>4. Window(t, w) = {ColumnTo(i, w + d) : d \in 0 .. w - 1}
  <2>1. \A d \in 0 .. w - 1 : ColumnTo(t, d) = ColumnTo(i, w + d)
    BY ColumnAdds
  <2> QED
    BY <2>1 DEF Window
<1>5. ASSUME NEW d \in 0 .. 2 * w - 1
      PROVE  d \in 0 .. w - 1 \/ (d - w \in 0 .. w - 1 /\ d = w + (d - w))
  OBVIOUS
<1>6. ASSUME NEW a \in 0 .. w - 1, NEW b \in 0 .. w - 1
      PROVE  ColumnTo(i, a) # ColumnTo(i, w + b)
  <2> DEFINE z == w + b
  <2>1. a \in 0 .. RowSize - 1 /\ z \in 0 .. RowSize - 1 /\ a # z
    BY <1>1
  <2> HIDE DEF z
  <2>2. ColumnTo(i, a) # ColumnTo(i, z)
    BY <2>1, ColumnsDiffer
  <2> QED
    BY <2>2 DEF z
<1>7. \A d \in 0 .. w - 1 : d \in 0 .. 2 * w - 1 /\ w + d \in 0 .. 2 * w - 1
  OBVIOUS
<1>8. Window(i, 2 * w) = Window(i, w) \cup Window(t, w)
  <2>1. Window(i, 2 * w) \subseteq Window(i, w) \cup Window(t, w)
    BY <1>3, <1>4, <1>5
  <2>2. Window(i, w) \cup Window(t, w) \subseteq Window(i, 2 * w)
    BY <1>3, <1>4, <1>7
  <2> QED
    BY <2>1, <2>2
<1>9. Window(i, w) \cap Window(t, w) = {}
  BY <1>3, <1>4, <1>6
<1>10. Window(i, 2 * w) \subseteq Index
  <2>1. \A d \in 0 .. 2 * w - 1 : d \in Nat
    OBVIOUS
  <2> QED
    BY <1>3, <2>1, ColumnFacts
<1> QED
  BY <1>2, <1>8, <1>9, <1>10

(* A window of one slot.                                                   *)
LEMMA WindowOne == ASSUME NEW i \in Index PROVE Window(i, 1) = {i}
<1>1. ColumnTo(i, 0) = i
  <2> DEFINE y == ColumnTo(i, 0)
  <2>1. y \in Index /\ y \div RowSize = i \div RowSize /\ y % RowSize = (i + 0) % RowSize
    BY ColumnFacts
  <2>2. i + 0 = i
    BY SlotOfRow
  <2> HIDE DEF y
  <2>3. y = i
    BY <2>1, <2>2, SlotIs
  <2> QED
    BY <2>3 DEF y
<1>2. 0 .. 1 - 1 = {0}
  OBVIOUS
<1> QED
  BY <1>1, <1>2 DEF Window

(* A window of the size of a row is the row.                               *)
LEMMA WindowRow ==
    ASSUME NEW i \in Index
    PROVE  Window(i, RowSize) = {j \in Index : j \div RowSize = i \div RowSize}
<1> DEFINE q == RowSize
           c == i % q
<1>1. q \in Nat \ {0} /\ i \in Int /\ i \in Nat
  BY RowFacts, SlotOfRow
<1>2. ASSUME NEW d \in 0 .. q - 1
      PROVE  ColumnTo(i, d) \in Index /\ ColumnTo(i, d) \div q = i \div q
  <2>1. d \in Nat
    BY <1>1
  <2> QED
    BY <2>1, ColumnFacts
<1>3. ASSUME NEW j \in Index, j \div q = i \div q
      PROVE  \E d \in 0 .. q - 1 : ColumnTo(i, d) = j
  <2> DEFINE d == (j - i) % q
             z == j - i
  <2>1. j \in Int /\ z \in Int
    BY <1>1, SlotOfRow
  <2>2. d = z % q /\ j = i + z
    BY <1>1, <2>1
  <2> HIDE DEF q, d, z
  <2>3. d \in 0 .. q - 1 /\ d \in Nat /\ d \in Int
    BY <1>1, <2>1, <2>2, Remainder
  <2>4. (i + d) % q = j % q
    <3>1. ((z % q) + i) % q = (z + i) % q
      <4>1. q \in Nat \ {0} /\ z \in Int /\ i \in Int
        BY <1>1, <2>1
      <4> QED
        BY <4>1, RemainderOfSum
    <3>2. (z % q) + i = i + d /\ z + i = j
      BY <1>1, <2>1, <2>2, <2>3
    <3> QED
      BY <3>1, <3>2
  <2>5. ColumnTo(i, d) \in Index /\ ColumnTo(i, d) \div q = j \div q
        /\ ColumnTo(i, d) % q = j % q
    BY <1>3, <2>3, <2>4, ColumnFacts DEF q
  <2> DEFINE y == ColumnTo(i, d)
  <2> HIDE DEF y
  <2>6. y = j
    BY <2>5, SlotIs DEF y, q
  <2> QED
    BY <2>3, <2>6 DEF y
<1> QED
  BY <1>2, <1>3 DEF Window

(* Coefficients can be summed over any indices.                            *)
LEMMA PlainTerms ==
    ASSUME NEW v \in Plain, NEW S \in SUBSET Index
    PROVE  Terms(v, S)
<1>1. IsFiniteSet(Index)
  <2>1. 0 \in Int /\ N - 1 \in Int /\ Index = 0 .. N - 1
    BY RowFacts, SMTT(60)
  <2> DEFINE m == N - 1
  <2> HIDE DEF m
  <2>2. IsFiniteSet(0 .. m)
    BY <2>1, FS_Interval DEF m
  <2> QED
    BY <2>1, <2>2 DEF m
<1>2. IsFiniteSet(S)
  BY <1>1, FS_Subset
<1>3. \A x \in Index : v[x] \in Int
  BY PlainTypes
<1> QED
  BY <1>2, <1>3 DEF Terms

(* A plaintext holds in every slot the sum of a window of v.               *)
WindowSums(v, a, r, w) ==
    \A i \in Index : Same(SlotAt(a, r, i), SumFunctionOnSet(v, Window(i, w)), P)

SlotsAre(v, a, r) == \A i \in Index : Same(SlotAt(a, r, i), v[i], P)

(* A slot is the sum of a window of one.                                   *)
LEMMA SumStarts ==
    ASSUME NEW v \in Plain, NEW a, NEW r, SlotsAre(v, a, r)
    PROVE  WindowSums(v, a, r, 1)
<1> SUFFICES ASSUME NEW i \in Index
             PROVE  Same(SlotAt(a, r, i), SumFunctionOnSet(v, Window(i, 1)), P)
  BY DEF WindowSums
<1>1. Window(i, 1) = {i}
  BY WindowOne
<1>2. Terms(v, {i})
  BY PlainTerms
<1>3. SumFunctionOnSet(v, {i}) = v[i]
  BY <1>2, SumOnly
<1> QED
  BY <1>1, <1>3 DEF SlotsAre

(* Adding the rotation by the size of the windows doubles them.            *)
LEMMA SumDoubles ==
    ASSUME SupportsNtt, NEW r \in Roots, NEW v \in Plain, NEW a \in Plain,
           NEW w \in Nat, w >= 1, 2 * w <= RowSize, WindowSums(v, a, r, w),
           NEW b, b = SubstitutedPower(a, ColumnExponent(w)),
           NEW c, c = [i \in Index |-> Add(PModulus, a[i], b[i])]
    PROVE  c \in Plain /\ WindowSums(v, c, r, 2 * w)
<1>1. w \in 0 .. RowSize /\ RowSize \in Nat /\ P \in Int
  BY RowFacts, RowModulus, SMTT(60)
<1>2. /\ b \in Plain
      /\ \A i \in Index : /\ ColumnTo(i, w) \in Index
                          /\ Same(SlotAt(b, r, i), SlotAt(a, r, ColumnTo(i, w)), P)
  BY <1>1, ColumnsRotated
<1>3. c \in Plain
  BY <1>2, AddedTypes
<1>4. ASSUME NEW i \in Index
      PROVE  Same(SlotAt(c, r, i), SumFunctionOnSet(v, Window(i, 2 * w)), P)
  <2> DEFINE t == ColumnTo(i, w)
             A == SumFunctionOnSet(v, Window(i, w))
             D == SumFunctionOnSet(v, Window(t, w))
             x == SlotAt(a, r, i)
             y == SlotAt(b, r, i)
             z == SlotAt(a, r, t)
  <2>1. Same(SlotAt(c, r, i), x + y, P)
    BY <1>2, AddedSlots
  <2>2. /\ t \in Index
        /\ Window(i, 2 * w) = Window(i, w) \cup Window(t, w)
        /\ Window(i, w) \cap Window(t, w) = {}
        /\ Window(i, 2 * w) \subseteq Index
    BY WindowDoubles
  <2>3. Same(y, z, P)
    BY <1>2
  <2> HIDE DEF t
  <2>4. Same(x, A, P) /\ Same(z, D, P)
    BY <2>2 DEF WindowSums
  <2>5. SumFunctionOnSet(v, Window(i, 2 * w)) = A + D
    <3>1. Terms(v, Window(i, w) \cup Window(t, w))
      BY <2>2, PlainTerms
    <3> QED
      BY <2>2, <3>1, SumUnion
  <2> HIDE DEF A, D, x, y, z
  <2>6. Same(y, D, P)
    BY <1>1, <2>3, <2>4, SameTransitive
  <2>7. Same(x + y, A + D, P)
    BY <1>1, <2>4, <2>6, SameAdd
  <2>8. Same(SlotAt(c, r, i), A + D, P)
    BY <1>1, <2>1, <2>7, SameTransitive
  <2> QED
    BY <2>5, <2>8
<1> QED
  BY <1>3, <1>4 DEF WindowSums

(* Adding the other row makes every slot the sum of all.                   *)
LEMMA SumEnds ==
    ASSUME SupportsNtt, NEW r \in Roots, NEW v \in Plain, NEW a \in Plain,
           WindowSums(v, a, r, RowSize), NEW b, b = SubstitutedPower(a, RowExponent),
           NEW c, c = [i \in Index |-> Add(PModulus, a[i], b[i])]
    PROVE  /\ c \in Plain /\ SumFunctionOnSet(v, Index) \in Int
           /\ \A i \in Index : Same(SlotAt(c, r, i), SumFunctionOnSet(v, Index), P)
<1>1. P \in Int
  BY RowModulus
<1>2. /\ b \in Plain
      /\ \A i \in Index : /\ RowTo(i) \in Index
                          /\ Same(SlotAt(b, r, i), SlotAt(a, r, RowTo(i)), P)
  BY RowsRotated
<1>3. c \in Plain
  BY <1>2, AddedTypes
<1>4. Terms(v, Index)
  BY PlainTerms
<1>5. ASSUME NEW i \in Index
      PROVE  Same(SlotAt(c, r, i), SumFunctionOnSet(v, Index), P)
  <2> DEFINE t == RowTo(i)
             S == Window(i, RowSize)
             R == Window(t, RowSize)
             A == SumFunctionOnSet(v, S)
             D == SumFunctionOnSet(v, R)
             x == SlotAt(a, r, i)
             y == SlotAt(b, r, i)
             z == SlotAt(a, r, t)
  <2>1. Same(SlotAt(c, r, i), x + y, P)
    BY <1>2, AddedSlots
  <2>2. Same(y, z, P) /\ t \in Index
    BY <1>2
  <2>3. S \cup R = Index /\ S \cap R = {}
    <3>1. i \div RowSize # t \div RowSize
      <4>1. /\ i < RowSize => t = i + RowSize
            /\ ~(i < RowSize) => t = i - RowSize
        BY SignedRow
      <4>2. i \in Nat /\ t \in Nat /\ RowSize \in Nat /\ (~(i < RowSize) => i - RowSize \in 0 .. RowSize - 1)
        BY <2>2, SlotOfRow
      <4> HIDE DEF t
      <4>3. (i < RowSize) # (t < RowSize)
        BY <4>1, <4>2
      <4> QED
        BY <2>2, <4>3, RowOfSlot
    <3> HIDE DEF t
    <3>2. S = {j \in Index : j \div RowSize = i \div RowSize}
          /\ R = {j \in Index : j \div RowSize = t \div RowSize}
      BY <2>2, WindowRow
    <3>3. \A j \in Index : j \div RowSize = 0 \/ j \div RowSize = 1
      BY RowOfSlot
    <3>4. \A j \in Index : j \div RowSize = i \div RowSize \/ j \div RowSize = t \div RowSize
      BY <2>2, <3>1, <3>3
    <3> HIDE DEF S, R
    <3> QED
      BY <3>1, <3>2, <3>4
  <2> HIDE DEF t
  <2>4. Same(x, A, P) /\ Same(z, D, P)
    BY <2>2 DEF WindowSums
  <2>5. SumFunctionOnSet(v, Index) = A + D
    <3> HIDE DEF S, R
    <3>1. Terms(v, S \cup R)
      BY <1>4, <2>3
    <3> QED
      BY <2>3, <3>1, SumUnion
  <2> HIDE DEF A, D, x, y, z
  <2>6. Same(y, D, P)
    BY <1>1, <2>2, <2>4, SameTransitive
  <2>7. Same(x + y, A + D, P)
    BY <1>1, <2>4, <2>6, SameAdd
  <2>8. Same(SlotAt(c, r, i), A + D, P)
    BY <1>1, <2>1, <2>7, SameTransitive
  <2> QED
    BY <2>5, <2>8
<1>6. SumFunctionOnSet(v, Index) \in Int
  BY <1>4, SumInt
<1> QED
  BY <1>3, <1>5, <1>6


(* The recursion over the powers of two.                                   *)
RotationRun(f, a) ==
    f = [n \in 0 .. LogN - 1 |->
            IF n = 0 THEN a
            ELSE [i \in Index |->
                    Add(PModulus, f[n - 1][i],
                        SubstitutedPower(f[n - 1], ColumnExponent(Pow2[n - 1]))[i])]]

AddRotated(a, e) == [i \in Index |-> Add(PModulus, a[i], SubstitutedPower(a, e)[i])]

(* Windows before the last step are at most half a row.                    *)
LEMMA HalfRow ==
    ASSUME NEW n \in 1 .. LogN - 1
    PROVE  /\ Pow2[n - 1] \in Nat \ {0} /\ Pow2[n] = 2 * Pow2[n - 1] /\ 2 * Pow2[n - 1] <= RowSize
           /\ Pow2[n - 1] \in 0 .. RowSize
<1>1. /\ n - 1 \in 0 .. LogN /\ (n - 1) + 1 = n /\ n - 1 < LogN /\ n \in 0 .. LogN /\ n < LogN
      /\ RowSize \in Nat /\ N = 2 * RowSize
  BY RowFacts
<1>2. Pow2[n - 1] \in Nat \ {0} /\ Pow2[(n - 1) + 1] = 2 * Pow2[n - 1]
  BY <1>1, Power2
<1> DEFINE x == Pow2[n]
           y == Pow2[n - 1]
           z == Pow2[LogN - 1 - n]
<1>3. x * (2 * z) = N /\ x \in Nat \ {0} /\ z \in Nat \ {0}
  <2>1. x * Pow2[LogN - n] = N /\ Pow2[LogN - n] = 2 * z
    BY <1>1, Power2
  <2>2. x \in Nat \ {0} /\ z \in Nat \ {0}
    BY <1>1, Power2
  <2> QED
    BY <2>1, <2>2
<1>4. x = 2 * y /\ y \in Nat \ {0}
  BY <1>1, <1>2
<1> HIDE DEF x, y, z
<1>5. x <= RowSize
  <2> DEFINE m == RowSize
             u == x * z
  <2>1. u \in Nat /\ 2 * u = 2 * m /\ m \in Nat
    BY <1>1, <1>3
  <2>2. u >= x
    <3>1. z = 1 + (z - 1) /\ z - 1 \in Nat /\ x \in Nat
      BY <1>3
    <3>2. x * (z - 1) \in Nat
      BY <3>1
    <3>3. x * z = x + x * (z - 1)
      <4> DEFINE k == z - 1
      <4>1. x * (1 + k) = x * 1 + x * k
        BY <3>1, Distributes
      <4> QED
        BY <3>1, <4>1
    <3> QED
      BY <3>1, <3>2, <3>3
  <2> HIDE DEF u, m
  <2>3. x <= m
    BY <1>3, <2>1, <2>2
  <2> QED
    BY <2>3 DEF m
<1>6. y \in Nat \ {0} /\ 2 * y <= RowSize /\ y \in 0 .. RowSize
  BY <1>1, <1>4, <1>5
<1> QED
  BY <1>4, <1>6 DEF x, y

(* A step of the inner sum gives a plaintext.                              *)
LEMMA RotatedPlain ==
    ASSUME NEW a \in Plain, NEW n \in 1 .. LogN - 1
    PROVE  AddRotated(a, ColumnExponent(Pow2[n - 1])) \in Plain
<1> DEFINE e == ColumnExponent(Pow2[n - 1])
           b == SubstitutedPower(a, e)
<1>1. Pow2[n - 1] \in 0 .. RowSize
  BY HalfRow
<1>2. e \in Nat /\ e % 2 = 1
  BY <1>1, ColumnExponentIs
<1> HIDE DEF e
<1>3. b \in Plain
  BY <1>2, SubstitutedIs
<1>4. AddRotated(a, e) = [i \in Index |-> Add(PModulus, a[i], b[i])]
  BY DEF AddRotated
<1> HIDE DEF b
<1>5. AddRotated(a, e) \in Plain
  BY <1>3, <1>4, AddedTypes
<1> QED
  BY <1>5 DEF e

(* The steps of the inner sum exist.                                       *)
LEMMA RotationRunExists ==
    ASSUME NEW a \in Plain
    PROVE  \E f : RotationRun(f, a)
<1> DEFINE M == LogN - 1
           E(n) == ColumnExponent(Pow2[n - 1])
           step == [x \in (1 .. M) \X Plain |-> AddRotated(x[2], E(x[1]))]
<1>1. M \in Nat
  BY RowFacts
<1>2. ASSUME NEW n \in 1 .. M, NEW b \in Plain PROVE AddRotated(b, E(n)) \in Plain
  BY RotatedPlain
<1> HIDE DEF M, E
<1>3. step \in [(1 .. M) \X Plain -> Plain]
  BY <1>2
<1>4. \A n \in 1 .. M, b \in Plain : step[<< n, b >>] = AddRotated(b, E(n))
  OBVIOUS
<1> HIDE DEF step
<1>5. PICK f \in [0 .. M -> Plain] : Steps(f, M, a, step)
  BY <1>1, <1>3, RecursionExists
<1>6. ASSUME NEW n \in 0 .. M
      PROVE  f[n] = IF n = 0 THEN a ELSE AddRotated(f[n - 1], E(n))
  <2>1. CASE n = 0
    BY <1>5, <2>1 DEF Steps
  <2>2. CASE n # 0
    <3>1. n \in 1 .. M /\ n - 1 \in 0 .. M
      BY <1>1, <2>2
    <3>2. f[n - 1] \in Plain
      BY <1>5, <3>1
    <3>3. f[n] = step[<< n, f[n - 1] >>]
      BY <1>5, <3>1 DEF Steps
    <3> QED
      BY <1>4, <2>2, <3>1, <3>2, <3>3
  <2> QED
    BY <2>1, <2>2
<1>7. f = [n \in 0 .. M |-> IF n = 0 THEN a ELSE AddRotated(f[n - 1], E(n))]
  <2>1. f = [n \in 0 .. M |-> f[n]]
    BY <1>5
  <2> QED
    BY <1>6, <2>1
<1>8. RotationRun(f, a)
  BY <1>7 DEF RotationRun, AddRotated, E, M
<1> QED
  BY <1>8

(* The inner sum puts the sum of all slots into every slot.                *)
LEMMA SumOfRotationsExact ==
    ASSUME SupportsNtt, NEW r \in Roots, NEW v \in Plain, NEW a \in Plain, SlotsAre(v, a, r),
           NEW c, c = SumOfRotations(a)
    PROVE  /\ c \in Plain /\ SumFunctionOnSet(v, Index) \in Int
           /\ \A i \in Index : Same(SlotAt(c, r, i), SumFunctionOnSet(v, Index), P)
<1> DEFINE f == CHOOSE g : RotationRun(g, a)
           M == LogN - 1
           all == f[M]
<1>1. c = [i \in Index |-> Add(PModulus, all[i], SubstitutedPower(all, RowExponent)[i])]
  BY DEF SumOfRotations, RotationRun
<1>2. RotationRun(f, a)
  BY RotationRunExists
<1> HIDE DEF f
<1>3. M \in Nat /\ RowSize = Pow2[M] /\ 0 \in 0 .. M /\ M \in 0 .. M
  BY RowFacts
<1>4. f[0] = a /\ \A n \in 1 .. M : f[n] = AddRotated(f[n - 1], ColumnExponent(Pow2[n - 1]))
  <2>1. \A n \in 0 .. M :
           f[n] = IF n = 0 THEN a ELSE AddRotated(f[n - 1], ColumnExponent(Pow2[n - 1]))
    BY <1>2 DEF RotationRun, AddRotated
  <2>2. \A n \in 1 .. M : n \in 0 .. M /\ n # 0
    OBVIOUS
  <2> QED
    BY <1>3, <2>1, <2>2
<1> DEFINE U == {n \in 0 .. M : f[n] \in Plain /\ WindowSums(v, f[n], r, Pow2[n])}
<1>5. 0 \in U
  BY <1>3, <1>4, PowersOfTwo, SumStarts
<1>6. ASSUME NEW n \in 0 .. M - 1, n \in U PROVE n + 1 \in U
  <2> DEFINE w == Pow2[n]
             x == f[n]
             b == SubstitutedPower(x, ColumnExponent(w))
             y == f[n + 1]
  <2>1. n + 1 \in 1 .. M /\ (n + 1) - 1 = n /\ n + 1 \in 0 .. M
    BY <1>3
  <2>2. w \in Nat /\ w >= 1 /\ Pow2[n + 1] = 2 * w /\ 2 * w <= RowSize
    BY <2>1, HalfRow
  <2>3. y = AddRotated(x, ColumnExponent(w))
    BY <1>4, <2>1
  <2>4. y = [i \in Index |-> Add(PModulus, x[i], b[i])]
    BY <2>3 DEF AddRotated
  <2>5. x \in Plain /\ WindowSums(v, x, r, w)
    BY <1>6
  <2>6. b = SubstitutedPower(x, ColumnExponent(w))
    OBVIOUS
  <2> HIDE DEF w, x, b, y
  <2>7. y \in Plain /\ WindowSums(v, y, r, 2 * w)
    BY <2>2, <2>4, <2>5, <2>6, SumDoubles
  <2> QED
    BY <2>1, <2>2, <2>7 DEF w, y
<1> HIDE DEF U
<1>7. \A n \in 0 .. M : n \in U
  BY <1>3, <1>5, <1>6, InductionUpTo
<1>8. all \in Plain /\ WindowSums(v, all, r, RowSize)
  BY <1>3, <1>7 DEF U
<1> HIDE DEF all
<1> QED
  BY <1>1, <1>8, SumEnds

-----------------------------------------------------------------------------
(* The invariant: in slots, a plaintext has the values wanted at the       *)
(* exponents of the slots; otherwise its coefficients are those wanted.    *)

SlotRecords == [root : Roots, simd : BOOLEAN, value : Plain, left : Int, want : Plain]

GoodSlots(s) ==
    /\ s \in SlotRecords
    /\ s.simd => SupportsNtt /\ SlotsAre(s.want, s.value, s.root)
    /\ ~s.simd => s.value = s.want

SlotsInv == slots = NoSlots \/ GoodSlots(slots)

(* A vector of integers reduced modulo P is a plaintext.                   *)
LEMMA ReducedPlain ==
    ASSUME NEW f, \A i \in Index : f[i] \in Int, NEW c, c = [i \in Index |-> f[i] % P]
    PROVE  c \in Plain /\ \A i \in Index : Same(f[i], c[i], P)
<1>1. P \in Nat \ {0} /\ P \in Int
  BY RowModulus
<1>2. ASSUME NEW i \in Index PROVE c[i] \in Residue /\ Same(f[i], c[i], P)
  <2> DEFINE x == f[i]
  <2>1. x \in Int /\ c[i] = x % P
    OBVIOUS
  <2> HIDE DEF x
  <2>2. x % P \in 0 .. P - 1
    BY <1>1, <2>1, Remainder
  <2>3. Same(x % P, x, P)
    BY <1>1, <2>1, SameMod
  <2>4. Same(x, x % P, P)
    BY <1>1, <2>3, SameSymmetric
  <2> QED
    BY <2>1, <2>2, <2>4 DEF x, Residue
<1>3. c \in Plain
  BY <1>2 DEF Plain
<1> QED
  BY <1>2, <1>3

(* A good plaintext decodes to the vector wanted.                          *)
LEMMA GoodDecodes ==
    ASSUME NEW s, GoodSlots(s)
    PROVE  DecodedValue(s.value, s.simd, s.root) = s.want
<1> DEFINE w == s.value
           v == s.want
           r == s.root
           simd == s.simd
<1>1. /\ w \in Plain /\ v \in Plain /\ r \in Roots
      /\ simd => SupportsNtt /\ SlotsAre(v, w, r)
      /\ ~simd => w = v
  BY DEF GoodSlots, SlotRecords
<1> HIDE DEF w, v, r, simd
<1>2. CASE simd
  <2>1. DecodedValue(w, simd, r) = [i \in Index |-> SlotAt(w, r, i) % P]
    BY <1>1, <1>2, DecodedSlots
  <2>2. ASSUME NEW i \in Index PROVE SlotAt(w, r, i) % P = v[i]
    <3>1. Same(SlotAt(w, r, i), v[i], P)
      BY <1>1, <1>2 DEF SlotsAre
    <3>2. v[i] % P = v[i] /\ P \in Nat \ {0}
      BY <1>1, PlainTypes
    <3> QED
      BY <3>1, <3>2, SameEqual
  <2>3. v = [i \in Index |-> v[i]]
    BY <1>1 DEF Plain
  <2> QED
    BY <2>1, <2>2, <2>3 DEF w, v, r, simd
<1>3. CASE ~simd
  <2>1. DecodedValue(w, simd, r) = w
    BY <1>3 DEF DecodedValue
  <2> QED
    BY <1>1, <1>3, <2>1 DEF w, v, r, simd
<1> QED
  BY <1>2, <1>3


(* No plaintext yet.                                                       *)
LEMMA InitSlots == ASSUME SlotsInit PROVE SlotsInv
BY DEF SlotsInit, SlotsInv

(* An encoded vector has the slots or the coefficients wanted.             *)
LEMMA EncodeVectorKeeps ==
    ASSUME NEW v \in Vectors, NEW simd \in BOOLEAN, NEW r \in Roots, EncodeVector(v, simd, r)
    PROVE  SlotsInv'
<1> DEFINE value == EncodedValue(v, simd, r)
           want == [i \in Index |-> At(v, i)]
           s == [root |-> r, simd |-> simd, value |-> value, left |-> MaxSlotSteps, want |-> want]
<1>1. slots' = s /\ (simd => SupportsNtt)
  BY DEF EncodeVector, EncodingOk
<1>2. v \in Vectors \cup Others
  OBVIOUS
<1>3. want \in Plain
  BY <1>2, AtTypes DEF Plain
<1>4. simd => value \in Plain /\ \A i \in Index : Same(SlotAt(value, r, i), At(v, i), P)
  BY <1>1, <1>2, EncodedSlots
<1>5. ~simd => value = want /\ value \in Plain
  BY <1>2, EncodedCoefficients
<1>6. \A i \in Index : want[i] = At(v, i)
  OBVIOUS
<1> HIDE DEF value, want
<1>7. simd => SlotsAre(want, value, r)
  BY <1>4, <1>6 DEF SlotsAre
<1>8. value \in Plain
  BY <1>4, <1>5
<1>9. MaxSlotSteps \in Int
  BY SlotsAssumption
<1>10. s \in SlotRecords
  BY <1>3, <1>8, <1>9 DEF SlotRecords
<1>11. s.root = r /\ s.value = value /\ s.want = want /\ (s.simd <=> simd)
  OBVIOUS
<1> HIDE DEF s
<1>12. GoodSlots(s)
  BY <1>1, <1>5, <1>7, <1>10, <1>11 DEF GoodSlots
<1> QED
  BY <1>1, <1>12 DEF SlotsInv

(* The parts of a good plaintext.                                          *)
LEMMA SlotsFields ==
    ASSUME SlotsInv, slots # NoSlots
    PROVE  /\ slots \in SlotRecords /\ slots.root \in Roots /\ slots.simd \in BOOLEAN
           /\ slots.value \in Plain /\ slots.want \in Plain
           /\ slots.simd => SupportsNtt /\ SlotsAre(slots.want, slots.value, slots.root)
           /\ ~slots.simd => slots.value = slots.want
BY DEF SlotsInv, GoodSlots, SlotRecords

(* A step that does to the slots what is wanted keeps the invariant.       *)
LEMMA WorkKeeps ==
    ASSUME SlotsInv, NEW value \in Plain, NEW want \in Plain, Work(value, want),
           slots.simd => SlotsAre(want, value, slots.root), ~slots.simd => value = want
    PROVE  SlotsInv'
<1> DEFINE s == slots
           t == [s EXCEPT !.value = value, !.want = want, !.left = s.left - 1]
<1>1. slots' = t /\ s # NoSlots
  BY DEF Work
<1>2. s \in SlotRecords /\ (s.simd => SupportsNtt)
  BY <1>1, SlotsFields
<1>3. (s.simd => SlotsAre(want, value, s.root)) /\ (~s.simd => value = want)
  OBVIOUS
<1> HIDE DEF s
<1>4. t \in SlotRecords
  <2>1. s.left - 1 \in Int
    BY <1>2 DEF SlotRecords
  <2> QED
    BY <1>2, <2>1 DEF SlotRecords
<1>5. t.root = s.root /\ t.value = value /\ t.want = want /\ (t.simd <=> s.simd)
  BY <1>2 DEF SlotRecords
<1> HIDE DEF t
<1>6. GoodSlots(t)
  BY <1>2, <1>3, <1>4, <1>5 DEF GoodSlots
<1> QED
  BY <1>1, <1>6 DEF SlotsInv

(* Sums keep the invariant.                                                *)
LEMMA AddPlaintextKeeps ==
    ASSUME SlotsInv, slots # NoSlots, NEW v \in Others, AddPlaintext(v)
    PROVE  SlotsInv'
<1> DEFINE r == slots.root
           simd == slots.simd
           a == slots.value
           w == slots.want
           g == EncodedValue(v, simd, r)
           c == [i \in Index |-> Add(PModulus, a[i], g[i])]
           f == [i \in Index |-> w[i] + At(v, i)]
           d == [i \in Index |-> (w[i] + At(v, i)) % P]
<1>1. Work(c, d)
  BY DEF AddPlaintext
<1>2. /\ a \in Plain /\ w \in Plain /\ r \in Roots
      /\ simd => SupportsNtt /\ SlotsAre(w, a, r)
      /\ ~simd => a = w
  BY SlotsFields
<1>3. v \in Vectors \cup Others
  OBVIOUS
<1>4. P \in Int /\ P \in Nat \ {0}
  BY RowModulus
<1>5. \A i \in Index : f[i] \in Int /\ f[i] = w[i] + At(v, i) /\ At(v, i) \in Int
  <2>1. \A i \in Index : At(v, i) \in Residue
    BY <1>3, AtTypes
  <2>2. \A i \in Index : w[i] \in Int
    BY <1>2, PlainTypes
  <2>3. \A i \in Index : At(v, i) \in Int
    <3> HIDE DEF w
    <3> QED
      BY <1>4, <2>1 DEF Residue
  <2> QED
    BY <2>2, <2>3
<1>6. d \in Plain /\ \A i \in Index : Same(f[i], d[i], P)
  <2>1. d = [i \in Index |-> f[i] % P]
    OBVIOUS
  <2>2. \A i \in Index : f[i] \in Int
    BY <1>5
  <2> HIDE DEF d, f
  <2> QED
    BY <2>1, <2>2, ReducedPlain
<1>7. /\ simd => g \in Plain /\ \A i \in Index : Same(SlotAt(g, r, i), At(v, i), P)
      /\ ~simd => g \in Plain /\ g = [i \in Index |-> At(v, i)]
  <2> HIDE DEF r, simd, a, w
  <2> QED
    BY <1>2, <1>3, EncodedSlots, EncodedCoefficients
<1> HIDE DEF g
<1>8. g \in Plain
  BY <1>7
<1>9. c \in Plain /\ \A i \in Index : c[i] = (a[i] + g[i]) % P
  <2>1. c = [i \in Index |-> Add(PModulus, a[i], g[i])]
    OBVIOUS
  <2> HIDE DEF a, c
  <2> QED
    BY <1>2, <1>8, <2>1, AddedTypes
<1>10. simd => SlotsAre(d, c, r)
  <2> SUFFICES ASSUME simd, NEW i \in Index PROVE Same(SlotAt(c, r, i), d[i], P)
    BY DEF SlotsAre
  <2> DEFINE x == SlotAt(a, r, i)
             y == SlotAt(g, r, i)
  <2>1. Same(SlotAt(c, r, i), x + y, P)
    <3>1. c = [k \in Index |-> Add(PModulus, a[k], g[k])]
      OBVIOUS
    <3> HIDE DEF a, c, r, simd
    <3> QED
      BY <1>2, <1>8, <3>1, AddedSlots
  <2>2. Same(x, w[i], P) /\ Same(y, At(v, i), P)
    BY <1>2, <1>7 DEF SlotsAre
  <2>3. f[i] = w[i] + At(v, i) /\ Same(f[i], d[i], P)
    BY <1>5, <1>6
  <2> HIDE DEF x, y, a, c, r, simd, f, d, w
  <2>4. Same(x + y, f[i], P)
    BY <1>4, <2>2, <2>3, SameAdd
  <2>5. Same(SlotAt(c, r, i), f[i], P)
    BY <1>4, <2>1, <2>4, SameTransitive
  <2> QED
    BY <1>4, <2>3, <2>5, SameTransitive
<1>11. ~simd => c = d
  <2> SUFFICES ASSUME ~simd PROVE c = d
    OBVIOUS
  <2>1. \A i \in Index : c[i] = d[i]
    BY <1>2, <1>7, <1>9
  <2>2. c = [i \in Index |-> c[i]] /\ d = [i \in Index |-> d[i]]
    BY <1>6, <1>9 DEF Plain
  <2> HIDE DEF c, d
  <2> QED
    BY <2>1, <2>2
<1> HIDE DEF c, d
<1> QED
  BY <1>1, <1>6, <1>9, <1>10, <1>11, WorkKeeps

(* Products keep the invariant.                                            *)
LEMMA MultiplyPlaintextKeeps ==
    ASSUME SlotsInv, slots # NoSlots, NEW v \in Others, MultiplyPlaintext(v)
    PROVE  SlotsInv'
<1> DEFINE r == slots.root
           simd == slots.simd
           a == slots.value
           w == slots.want
           g == EncodedValue(v, simd, r)
           h == [i \in Index |-> At(v, i)]
           c == Product1(a, g)
           f == [i \in Index |-> w[i] * h[i]]
           d == [i \in Index |-> (w[i] * h[i]) % P]
           want == IF simd THEN d ELSE Product1(w, h)
<1>1. Work(c, want)
  BY DEF MultiplyPlaintext
<1>2. /\ a \in Plain /\ w \in Plain /\ r \in Roots
      /\ simd => SupportsNtt /\ SlotsAre(w, a, r)
      /\ ~simd => a = w
  BY SlotsFields
<1>3. v \in Vectors \cup Others
  OBVIOUS
<1>4. P \in Int /\ P \in Nat \ {0}
  BY RowModulus
<1>5. h \in Plain /\ \A i \in Index : h[i] = At(v, i)
  BY <1>3, AtTypes DEF Plain
<1>6. /\ simd => g \in Plain /\ \A i \in Index : Same(SlotAt(g, r, i), At(v, i), P)
      /\ ~simd => g \in Plain /\ g = h
  <2> HIDE DEF r, simd, a, w
  <2> QED
    BY <1>2, <1>3, EncodedSlots, EncodedCoefficients
<1> HIDE DEF g, h
<1>7. \A i \in Index : f[i] \in Int /\ f[i] = w[i] * h[i]
  <2>1. \A i \in Index : w[i] \in Int
    BY <1>2, PlainTypes
  <2>2. \A i \in Index : h[i] \in Int
    BY <1>5, PlainTypes
  <2> HIDE DEF w
  <2> QED
    BY <2>1, <2>2
<1>8. d \in Plain /\ \A i \in Index : Same(f[i], d[i], P)
  <2>1. d = [i \in Index |-> f[i] % P]
    OBVIOUS
  <2>2. \A i \in Index : f[i] \in Int
    BY <1>7
  <2> HIDE DEF d, f
  <2> QED
    BY <2>1, <2>2, ReducedPlain
<1>9. g \in Plain
  BY <1>6
<1> HIDE DEF d
<1>10. c \in Plain /\ Product1(w, h) \in Plain
  <2>1. a \in [Index -> Int] /\ g \in [Index -> Int] /\ w \in [Index -> Int] /\ h \in [Index -> Int]
    BY <1>2, <1>5, <1>9, PlainTypes
  <2> QED
    BY <2>1, ProductTypes DEF Plain, Residue
<1>11. want \in Plain
  BY <1>8, <1>10
<1>12. simd => SlotsAre(want, c, r)
  <2> SUFFICES ASSUME simd, NEW i \in Index PROVE Same(SlotAt(c, r, i), d[i], P)
    BY DEF SlotsAre
  <2> DEFINE x == SlotAt(a, r, i)
             y == SlotAt(g, r, i)
  <2>1. Same(SlotAt(c, r, i), x * y, P)
    <3> HIDE DEF a, r, simd
    <3> QED
      BY <1>2, <1>9, MultipliedSlots
  <2>2. Same(x, w[i], P) /\ Same(y, h[i], P)
    BY <1>2, <1>5, <1>6 DEF SlotsAre
  <2>3. f[i] = w[i] * h[i] /\ Same(f[i], d[i], P)
    BY <1>7, <1>8
  <2> HIDE DEF x, y, a, c, r, simd, f, w
  <2>4. Same(x * y, f[i], P)
    BY <1>4, <2>2, <2>3, SameTimes
  <2>5. Same(SlotAt(c, r, i), f[i], P)
    BY <1>4, <2>1, <2>4, SameTransitive
  <2> QED
    BY <1>4, <2>3, <2>5, SameTransitive
<1>13. ~simd => c = want
  BY <1>2, <1>6
<1> HIDE DEF c, want
<1> QED
  BY <1>1, <1>10, <1>11, <1>12, <1>13, WorkKeeps

(* Rotations of columns keep the invariant.                                *)
LEMMA RotateColumnsKeeps ==
    ASSUME SlotsInv, NEW s \in 1 .. RowSize - 1, RotateColumns(s)
    PROVE  SlotsInv'
<1> DEFINE r == slots.root
           simd == slots.simd
           a == slots.value
           w == slots.want
           e == ColumnExponent(s)
           c == SubstitutedPower(a, e)
           d == [j \in Index |-> w[((j \div RowSize) * RowSize) + ((j + s) % RowSize)]]
           want == IF ~simd THEN ComposedWith(w, e) ELSE d
<1>1. Work(c, want) /\ slots # NoSlots
  BY DEF RotateColumns
<1>2. /\ a \in Plain /\ w \in Plain /\ r \in Roots
      /\ simd => SupportsNtt /\ SlotsAre(w, a, r)
      /\ ~simd => a = w
  BY <1>1, SlotsFields
<1>3. s \in 0 .. RowSize /\ RowSize \in Nat /\ P \in Int
  BY RowFacts, RowModulus, SMTT(60)
<1>4. e \in Nat /\ e % 2 = 1
  BY <1>3, ColumnExponentIs
<1>5. d = [j \in Index |-> w[ColumnTo(j, s)]]
  BY DEF ColumnTo
<1> HIDE DEF a, w, r, simd, d
<1>6. c \in Plain
  <2> HIDE DEF e
  <2> QED
    BY <1>2, <1>4, SubstitutedIs
<1>7. d \in Plain
  <2>1. \A j \in Index : ColumnTo(j, s) \in Index
    BY <1>3, SignedColumn
  <2> QED
    BY <1>2, <1>5, <2>1 DEF Plain
<1>8. simd => SlotsAre(d, c, r)
  <2> SUFFICES ASSUME simd, NEW i \in Index PROVE Same(SlotAt(c, r, i), d[i], P)
    BY DEF SlotsAre
  <2> DEFINE k == ColumnTo(i, s)
  <2>1. k \in Index /\ Same(SlotAt(c, r, i), SlotAt(a, r, k), P)
    <3>1. c = SubstitutedPower(a, ColumnExponent(s))
      OBVIOUS
    <3> HIDE DEF c
    <3> QED
      BY <1>2, <1>3, <3>1, ColumnsRotated
  <2>2. d[i] = w[k]
    BY <1>5
  <2> HIDE DEF c, k
  <2>3. Same(SlotAt(a, r, k), w[k], P)
    BY <1>2, <2>1 DEF SlotsAre
  <2> QED
    BY <1>3, <2>1, <2>2, <2>3, SameTransitive
<1>9. ~simd => c = ComposedWith(w, e) /\ ComposedWith(w, e) \in Plain
  <2> HIDE DEF e
  <2> QED
    BY <1>2, <1>4, SubstitutedIs
<1> HIDE DEF c, e
<1>10. want \in Plain
  BY <1>7, <1>9
<1>11. (simd => SlotsAre(want, c, r)) /\ (~simd => c = want)
  BY <1>8, <1>9
<1> HIDE DEF want
<1> QED
  BY <1>1, <1>6, <1>10, <1>11, WorkKeeps DEF simd, r

(* The exchange of rows keeps the invariant.                               *)
LEMMA RotateRowsKeeps ==
    ASSUME SlotsInv, RotateRows
    PROVE  SlotsInv'
<1> DEFINE r == slots.root
           simd == slots.simd
           a == slots.value
           w == slots.want
           e == RowExponent
           c == SubstitutedPower(a, e)
           d == [j \in Index |-> w[(j + RowSize) % N]]
           want == IF ~simd THEN ComposedWith(w, e) ELSE d
<1>1. Work(c, want) /\ slots # NoSlots
  BY DEF RotateRows
<1>2. /\ a \in Plain /\ w \in Plain /\ r \in Roots
      /\ simd => SupportsNtt /\ SlotsAre(w, a, r)
      /\ ~simd => a = w
  BY <1>1, SlotsFields
<1>3. P \in Int
  BY RowModulus
<1>4. e \in Nat /\ e % 2 = 1
  BY RowExponentIs
<1>5. d = [j \in Index |-> w[RowTo(j)]]
  BY DEF RowTo
<1> HIDE DEF a, w, r, simd, d
<1>6. c \in Plain
  <2> HIDE DEF e
  <2> QED
    BY <1>2, <1>4, SubstitutedIs
<1>7. d \in Plain
  <2>1. \A j \in Index : RowTo(j) \in Index
    BY SignedRow
  <2> QED
    BY <1>2, <1>5, <2>1 DEF Plain
<1>8. simd => SlotsAre(d, c, r)
  <2> SUFFICES ASSUME simd, NEW i \in Index PROVE Same(SlotAt(c, r, i), d[i], P)
    BY DEF SlotsAre
  <2> DEFINE k == RowTo(i)
  <2>1. k \in Index /\ Same(SlotAt(c, r, i), SlotAt(a, r, k), P)
    <3>1. c = SubstitutedPower(a, RowExponent)
      OBVIOUS
    <3> HIDE DEF c
    <3> QED
      BY <1>2, <3>1, RowsRotated
  <2>2. d[i] = w[k]
    BY <1>5
  <2> HIDE DEF c, k
  <2>3. Same(SlotAt(a, r, k), w[k], P)
    BY <1>2, <2>1 DEF SlotsAre
  <2> QED
    BY <1>3, <2>1, <2>2, <2>3, SameTransitive
<1>9. ~simd => c = ComposedWith(w, e) /\ ComposedWith(w, e) \in Plain
  <2> HIDE DEF e
  <2> QED
    BY <1>2, <1>4, SubstitutedIs
<1> HIDE DEF c, e
<1>10. want \in Plain
  BY <1>7, <1>9
<1>11. (simd => SlotsAre(want, c, r)) /\ (~simd => c = want)
  BY <1>8, <1>9
<1> HIDE DEF want
<1> QED
  BY <1>1, <1>6, <1>10, <1>11, WorkKeeps DEF simd, r

(* Inner sums keep the invariant.                                          *)
LEMMA InnerSumKeeps ==
    ASSUME SlotsInv, InnerSum
    PROVE  SlotsInv'
<1> DEFINE r == slots.root
           a == slots.value
           w == slots.want
           c == SumOfRotations(a)
           t == SumFunctionOnSet(w, Index)
           f == [i \in Index |-> t]
           d == [i \in Index |-> SumFunction([j \in Index |-> w[j]]) % P]
<1>1. Work(c, d) /\ slots # NoSlots /\ slots.simd
  BY DEF InnerSum
<1>2. a \in Plain /\ w \in Plain /\ r \in Roots /\ SupportsNtt /\ SlotsAre(w, a, r)
  BY <1>1, SlotsFields
<1>3. P \in Int
  BY RowModulus
<1>4. SumFunction([j \in Index |-> w[j]]) = t
  <2>1. [j \in Index |-> w[j]] = w /\ DOMAIN w = Index
    BY <1>2 DEF Plain
  <2> HIDE DEF w
  <2> QED
    BY <2>1 DEF SumFunction
<1>5. /\ c \in Plain /\ t \in Int
      /\ \A i \in Index : Same(SlotAt(c, r, i), t, P)
  <2>1. c = SumOfRotations(a)
    OBVIOUS
  <2> HIDE DEF a, w, r, c
  <2> QED
    BY <1>2, <2>1, SumOfRotationsExact
<1> HIDE DEF t, c
<1>6. d = [i \in Index |-> f[i] % P] /\ \A i \in Index : f[i] \in Int /\ f[i] = t
  BY <1>4, <1>5
<1> HIDE DEF d, f
<1>7. d \in Plain /\ \A i \in Index : Same(t, d[i], P)
  <2>1. d \in Plain /\ \A i \in Index : Same(f[i], d[i], P)
    BY <1>6, ReducedPlain
  <2> QED
    BY <1>6, <2>1
<1>8. SlotsAre(d, c, r)
  <2> HIDE DEF r
  <2>1. ASSUME NEW i \in Index PROVE Same(SlotAt(c, r, i), d[i], P)
    BY <1>3, <1>5, <1>7, SameTransitive
  <2> QED
    BY <2>1 DEF SlotsAre
<1> QED
  BY <1>1, <1>5, <1>7, <1>8, WorkKeeps

(* Every step keeps the invariant.                                         *)
LEMMA SlotStepsKeep ==
    ASSUME SlotsInv, [SlotsNext]_slots
    PROVE  SlotsInv'
<1>1. ASSUME NEW v \in Vectors, NEW simd \in BOOLEAN, NEW r \in Roots, EncodeVector(v, simd, r)
      PROVE  SlotsInv'
  BY <1>1, EncodeVectorKeeps
<1>2. ASSUME slots # NoSlots, NEW v \in Others, AddPlaintext(v)
      PROVE  SlotsInv'
  BY <1>2, AddPlaintextKeeps
<1>3. ASSUME slots # NoSlots, NEW v \in Others, MultiplyPlaintext(v)
      PROVE  SlotsInv'
  BY <1>3, MultiplyPlaintextKeeps
<1>4. ASSUME NEW i \in 1 .. RowSize - 1, RotateColumns(i)
      PROVE  SlotsInv'
  BY <1>4, RotateColumnsKeeps
<1>5. CASE RotateRows
  BY <1>5, RotateRowsKeeps
<1>6. CASE InnerSum
  BY <1>6, InnerSumKeeps
<1>7. CASE UNCHANGED slots
  BY <1>7 DEF SlotsInv
<1> QED
  BY <1>1, <1>2, <1>3, <1>4, <1>5, <1>6, <1>7 DEF SlotsNext

(* What is decoded from a plaintext is the vector that the operations on   *)
(* it make of the one encoded: sums and products slot by slot, the columns *)
(* rotated, the rows exchanged, and the sum of all slots.                  *)
THEOREM SlotsAreExact == SlotsSpec => []SlotsExact
<1>1. SlotsInv => SlotsExact
  BY GoodDecodes DEF SlotsInv, SlotsExact
<1> QED
  BY <1>1, InitSlots, SlotStepsKeep, PTL DEF SlotsSpec

-----------------------------------------------------------------------------
(* Sequences of bits *)

(* Where bits come from, and sequences of sequences of them.               *)
Origin == Nat \X Nat

Pieces == Seq(Seq(Origin))

(* Flat puts the pieces one after the other.                               *)
LEMMA FlatIs ==
    ASSUME NEW s \in Pieces
    PROVE  \E f \in [0 .. Len(s) -> Seq(Origin)] :
               /\ f[0] = << >> /\ \A k \in 1 .. Len(s) : f[k] = f[k - 1] \o s[k]
               /\ Flat(s) = f[Len(s)]
<1> DEFINE n == Len(s)
           E(f) == f = [k \in 0 .. n |-> IF k = 0 THEN << >> ELSE f[k - 1] \o s[k]]
           w == CHOOSE f : E(f)
           step == [p \in (1 .. n) \X Seq(Origin) |-> p[2] \o s[p[1]]]
<1>1. n \in Nat /\ \A k \in 1 .. n : s[k] \in Seq(Origin)
  BY DEF Pieces
<1>2. Flat(s) = w[n]
  BY DEF Flat
<1>3. << >> \in Seq(Origin)
  OBVIOUS
<1>4. step \in [(1 .. n) \X Seq(Origin) -> Seq(Origin)]
  <2> SUFFICES ASSUME NEW p \in (1 .. n) \X Seq(Origin) PROVE p[2] \o s[p[1]] \in Seq(Origin)
    OBVIOUS
  <2>1. p[1] \in 1 .. n /\ p[2] \in Seq(Origin)
    OBVIOUS
  <2>2. s[p[1]] \in Seq(Origin)
    BY <1>1, <2>1
  <2> QED
    BY <2>1, <2>2
<1>5. \A k \in 1 .. n, v \in Seq(Origin) : step[<< k, v >>] = v \o s[k]
  OBVIOUS
<1> HIDE DEF n, step
<1>6. PICK g \in [0 .. n -> Seq(Origin)] : Steps(g, n, << >>, step)
  BY <1>1, <1>3, <1>4, RecursionExists
<1>7. g[0] = << >> /\ \A k \in 1 .. n : g[k] = g[k - 1] \o s[k]
  <2>1. g[0] = << >> /\ \A k \in 1 .. n : g[k] = step[<< k, g[k - 1] >>]
    BY <1>6 DEF Steps
  <2>2. \A k \in 1 .. n : g[k - 1] \in Seq(Origin)
    BY <1>1
  <2> QED
    BY <1>5, <2>1, <2>2
<1>8. E(g)
  <2>1. \A k \in 0 .. n : g[k] = IF k = 0 THEN << >> ELSE g[k - 1] \o s[k]
    <3> TAKE k \in 0 .. n
    <3>1. CASE k = 0
      BY <1>7, <3>1
    <3>2. CASE k # 0
      <4>1. k \in 1 .. n
        BY <1>1, <3>2
      <4> QED
        BY <1>7, <3>2, <4>1
    <3> QED
      BY <3>1, <3>2
  <2> QED
    BY <2>1
<1>9. E(w)
  BY <1>8
<1> HIDE DEF w
<1>10. \A k \in 0 .. n : w[k] = IF k = 0 THEN << >> ELSE w[k - 1] \o s[k]
  BY <1>9
<1>11. \A k \in 0 .. n : w[k] = g[k]
  <2> DEFINE S == {k \in Nat : w[k] = g[k]}
  <2>1. 0 \in S
    BY <1>1, <1>7, <1>10
  <2>2. ASSUME NEW k \in 0 .. n - 1, k \in S PROVE k + 1 \in S
    <3>1. k + 1 \in 1 .. n /\ k + 1 \in 0 .. n /\ (k + 1) - 1 = k /\ k + 1 # 0 /\ k + 1 \in Nat
      BY <1>1
    <3>2. w[k + 1] = w[k] \o s[k + 1] /\ g[k + 1] = g[k] \o s[k + 1]
      BY <1>7, <1>10, <3>1
    <3> QED
      BY <2>2, <3>1, <3>2
  <2> HIDE DEF S
  <2>3. \A k \in 0 .. n : k \in S
    BY <1>1, <2>1, <2>2, InductionUpTo
  <2> QED
    BY <2>3 DEF S
<1>12. Flat(s) = g[n]
  BY <1>1, <1>2, <1>11
<1> QED
  BY <1>7, <1>12 DEF n

LEMMA FlatEmpty == Flat(<< >>) = << >>
<1>1. << >> \in Pieces /\ Len(<< >>) = 0
  BY DEF Pieces
<1> QED
  BY <1>1, FlatIs

LEMMA FlatAppend ==
    ASSUME NEW s \in Pieces, NEW x \in Seq(Origin)
    PROVE  /\ Append(s, x) \in Pieces /\ Flat(s) \in Seq(Origin)
           /\ Flat(Append(s, x)) = Flat(s) \o x
<1> DEFINE n == Len(s)
           t == Append(s, x)
<1>1. /\ n \in Nat /\ t \in Pieces /\ Len(t) = n + 1 /\ t[n + 1] = x
      /\ \A k \in 1 .. n : t[k] = s[k]
  BY DEF Pieces
<1>2. PICK f \in [0 .. n -> Seq(Origin)] :
          /\ f[0] = << >> /\ \A k \in 1 .. n : f[k] = f[k - 1] \o s[k]
          /\ Flat(s) = f[n]
  BY FlatIs
<1> HIDE DEF t, n
<1>3. PICK g \in [0 .. n + 1 -> Seq(Origin)] :
          /\ g[0] = << >> /\ \A k \in 1 .. n + 1 : g[k] = g[k - 1] \o t[k]
          /\ Flat(t) = g[n + 1]
  BY <1>1, FlatIs
<1>4. \A k \in 0 .. n : f[k] = g[k]
  <2> DEFINE S == {k \in Nat : f[k] = g[k]}
  <2>1. 0 \in S
    BY <1>2, <1>3
  <2>2. ASSUME NEW k \in 0 .. n - 1, k \in S PROVE k + 1 \in S
    <3>1. k + 1 \in 1 .. n /\ k + 1 \in 1 .. n + 1 /\ (k + 1) - 1 = k /\ k + 1 \in Nat
      BY <1>1
    <3>2. f[k + 1] = f[k] \o s[k + 1] /\ g[k + 1] = g[k] \o t[k + 1] /\ t[k + 1] = s[k + 1]
      BY <1>1, <1>2, <1>3, <3>1
    <3> QED
      BY <2>2, <3>1, <3>2
  <2> HIDE DEF S
  <2>3. \A k \in 0 .. n : k \in S
    BY <1>1, <2>1, <2>2, InductionUpTo
  <2> QED
    BY <2>3 DEF S
<1>5. n \in 0 .. n /\ n + 1 \in 1 .. n + 1 /\ (n + 1) - 1 = n
  BY <1>1
<1>6. g[n + 1] = g[n] \o x /\ f[n] = g[n] /\ f[n] \in Seq(Origin)
  BY <1>1, <1>3, <1>4, <1>5
<1> QED
  BY <1>1, <1>2, <1>3, <1>6 DEF t

(* Pieces of one length. *)
Uniform(s, n) == s \in Pieces /\ \A i \in 1 .. Len(s) : Len(s[i]) = n

LEMMA FlatLength ==
    ASSUME NEW n \in Nat, NEW s, Uniform(s, n)
    PROVE  Flat(s) \in Seq(Origin) /\ Len(Flat(s)) = n * Len(s) /\ Len(s) \in Nat
<1> DEFINE m == Len(s)
<1>1. s \in Pieces /\ m \in Nat /\ \A i \in 1 .. m : s[i] \in Seq(Origin) /\ Len(s[i]) = n
  BY DEF Uniform, Pieces
<1>2. PICK f \in [0 .. m -> Seq(Origin)] :
          /\ f[0] = << >> /\ \A k \in 1 .. m : f[k] = f[k - 1] \o s[k]
          /\ Flat(s) = f[m]
  BY <1>1, FlatIs
<1> HIDE DEF m
<1>3. \A k \in 0 .. m : Len(f[k]) = n * k
  <2> DEFINE S == {k \in Nat : Len(f[k]) = n * k}
  <2>1. 0 \in S
    BY <1>2
  <2>2. ASSUME NEW k \in 0 .. m - 1, k \in S PROVE k + 1 \in S
    <3>1. k + 1 \in 1 .. m /\ (k + 1) - 1 = k /\ k + 1 \in Nat /\ k \in Nat /\ k \in 0 .. m
      BY <1>1
    <3>2. f[k + 1] = f[k] \o s[k + 1] /\ f[k] \in Seq(Origin) /\ s[k + 1] \in Seq(Origin) /\ Len(s[k + 1]) = n
      BY <1>1, <1>2, <3>1
    <3>3. Len(f[k + 1]) = Len(f[k]) + n
      <4> DEFINE u == f[k]
                 v == s[k + 1]
      <4>1. u \in Seq(Origin) /\ v \in Seq(Origin) /\ Len(v) = n /\ f[k + 1] = u \o v
        BY <3>2
      <4> HIDE DEF u, v
      <4>2. Len(u \o v) = Len(u) + Len(v)
        BY <4>1, ConcatProperties
      <4> QED
        BY <4>1, <4>2 DEF u
    <3>4. Len(f[k]) = n * k
      BY <2>2
    <3>5. n * (k + 1) = n * k + n
      BY <3>1
    <3> QED
      BY <3>1, <3>3, <3>4, <3>5
  <2> HIDE DEF S
  <2>3. \A k \in 0 .. m : k \in S
    BY <1>1, <2>1, <2>2, InductionUpTo
  <2> QED
    BY <2>3 DEF S
<1>4. m \in 0 .. m
  BY <1>1
<1> QED
  BY <1>1, <1>2, <1>3, <1>4 DEF m

(* One more piece of the length. *)
LEMMA UniformAppend ==
    ASSUME NEW n \in Nat, NEW s, Uniform(s, n), NEW x \in Seq(Origin), Len(x) = n
    PROVE  /\ Uniform(Append(s, x), n) /\ Len(Append(s, x)) = Len(s) + 1
           /\ Flat(Append(s, x)) = Flat(s) \o x
<1>1. s \in Pieces /\ Append(s, x) \in Pieces /\ Flat(Append(s, x)) = Flat(s) \o x
  BY FlatAppend DEF Uniform
<1>2. Len(Append(s, x)) = Len(s) + 1 /\ \A i \in 1 .. Len(s) + 1 : Len(Append(s, x)[i]) = n
  BY DEF Uniform, Pieces
<1> QED
  BY <1>1, <1>2 DEF Uniform

(* The next piece of a sequence of them. *)
LEMMA FlatNext ==
    ASSUME NEW s \in Pieces, NEW k \in 0 .. Len(s) - 1
    PROVE  Flat(SubSeq(s, 1, k + 1)) = Flat(SubSeq(s, 1, k)) \o s[k + 1]
<1> DEFINE a == SubSeq(s, 1, k)
           b == SubSeq(s, 1, k + 1)
           x == s[k + 1]
<1>1. a \in Pieces /\ b \in Pieces /\ Len(a) = k /\ Len(b) = k + 1 /\ x \in Seq(Origin)
  BY DEF Pieces
<1>2. (\A i \in 1 .. k : a[i] = s[i]) /\ (\A i \in 1 .. k + 1 : b[i] = s[i])
  BY DEF Pieces
<1> HIDE DEF a, b
<1>3. Append(a, x) \in Pieces /\ Len(Append(a, x)) = k + 1 /\ Append(a, x)[k + 1] = x
      /\ \A i \in 1 .. k : Append(a, x)[i] = a[i]
  <2> DEFINE v == x
  <2>1. a \in Seq(Seq(Origin)) /\ v \in Seq(Origin) /\ Len(a) = k
    BY <1>1 DEF Pieces
  <2> HIDE DEF v
  <2>2. /\ Append(a, v) \in Seq(Seq(Origin)) /\ Len(Append(a, v)) = k + 1 /\ Append(a, v)[k + 1] = v
        /\ \A i \in 1 .. k : Append(a, v)[i] = a[i]
    BY <2>1, AppendProperties
  <2> QED
    BY <2>2 DEF v, Pieces
<1>4. \A i \in 1 .. k + 1 : b[i] = Append(a, x)[i]
  BY <1>2, <1>3
<1>5. b = Append(a, x)
  BY <1>1, <1>3, <1>4, SeqEqual DEF Pieces
<1> QED
  BY <1>1, <1>5, FlatAppend DEF a, b

(* A pool with room takes all the bits.                                    *)
LEMMA PooledIs ==
    ASSUME NEW u \in Seq(Origin), NEW v \in Seq(Origin), Len(u) + Len(v) <= Capacity
    PROVE  Pooled(u, v) = u \o v
<1> DEFINE b == u \o v
<1>1. b \in Seq(Origin) /\ Len(b) = Len(u) + Len(v) /\ Len(b) \in Nat
  BY ConcatProperties
<1>2. Pooled(u, v) = [i \in 1 .. Len(b) |-> IF i <= Capacity THEN b[i] ELSE Zero]
  BY DEF Pooled
<1> HIDE DEF b
<1>3. Capacity \in Int
  BY StreamsAssumption DEF Capacity
<1>4. \A i \in 1 .. Len(b) : i <= Capacity
  BY <1>1, <1>3
<1>5. Pooled(u, v) = [i \in 1 .. Len(b) |-> b[i]]
  BY <1>2, <1>4
<1>6. b = [i \in 1 .. Len(b) |-> b[i]]
  BY <1>1
<1> QED
  BY <1>5, <1>6 DEF b

LEMMA PaddedIs ==
    ASSUME NEW v \in Seq(Origin), NEW n \in Nat
    PROVE  /\ Padded(v, n) \in Seq(Origin) /\ Len(Padded(v, n)) = n
           /\ \A i \in 1 .. n : Padded(v, n)[i] = IF i <= Len(v) THEN v[i] ELSE Zero
<1>1. \A i \in 1 .. n : (IF i <= Len(v) THEN v[i] ELSE Zero) \in Origin
  BY DEF Zero, Origin
<1> QED
  BY <1>1 DEF Padded

LEMMA PaddedWhole ==
    ASSUME NEW v \in Seq(Origin)
    PROVE  Padded(v, Len(v)) = v
<1>1. Len(v) \in Nat
  OBVIOUS
<1>2. /\ Padded(v, Len(v)) \in Seq(Origin) /\ Len(Padded(v, Len(v))) = Len(v)
      /\ \A i \in 1 .. Len(v) : Padded(v, Len(v))[i] = v[i]
  BY <1>1, PaddedIs
<1> QED
  BY <1>2, SeqEqual

(* The zeros come last. *)
LEMMA PaddedLast ==
    ASSUME NEW u \in Seq(Origin), NEW v \in Seq(Origin), NEW n \in Nat, Len(v) <= n
    PROVE  u \o Padded(v, n) = Padded(u \o v, Len(u) + n)
<1> DEFINE p == Padded(v, n)
           c == u \o v
           x == u \o p
           m == Len(u) + n
           y == Padded(c, m)
<1>1. Len(u) \in Nat /\ Len(v) \in Nat /\ m \in Nat
  OBVIOUS
<1>2. p \in Seq(Origin) /\ Len(p) = n /\ \A i \in 1 .. n : p[i] = IF i <= Len(v) THEN v[i] ELSE Zero
  BY PaddedIs
<1>3. c \in Seq(Origin) /\ Len(c) = Len(u) + Len(v)
      /\ \A i \in 1 .. Len(u) + Len(v) : c[i] = IF i <= Len(u) THEN u[i] ELSE v[i - Len(u)]
  BY ConcatProperties
<1> HIDE DEF p, c, m
<1>4. y \in Seq(Origin) /\ Len(y) = m /\ \A i \in 1 .. m : y[i] = IF i <= Len(c) THEN c[i] ELSE Zero
  BY <1>1, <1>3, PaddedIs
<1>5. x \in Seq(Origin) /\ Len(x) = m
      /\ \A i \in 1 .. m : x[i] = IF i <= Len(u) THEN u[i] ELSE p[i - Len(u)]
  BY <1>2, ConcatProperties DEF m
<1> HIDE DEF x, y
<1>6. ASSUME NEW i \in 1 .. m PROVE x[i] = y[i]
  <2>1. CASE i <= Len(u)
    <3>1. i <= Len(c) /\ i \in 1 .. Len(u) + Len(v)
      BY <1>1, <1>3, <2>1
    <3> QED
      BY <1>3, <1>4, <1>5, <2>1, <3>1
  <2>2. CASE ~(i <= Len(u))
    <3> DEFINE j == i - Len(u)
    <3>1. j \in 1 .. n /\ i = Len(u) + j
      BY <1>1, <2>2 DEF m
    <3>2. x[i] = p[j]
      BY <1>5, <2>2
    <3>3. CASE j <= Len(v)
      <4>1. i <= Len(c) /\ i \in 1 .. Len(u) + Len(v)
        BY <1>1, <1>3, <3>1, <3>3
      <4>2. y[i] = v[j]
        BY <1>3, <1>4, <2>2, <4>1
      <4> QED
        BY <1>2, <3>1, <3>2, <3>3, <4>2
    <3>4. CASE ~(j <= Len(v))
      <4>1. ~(i <= Len(c))
        BY <1>1, <1>3, <3>1, <3>4, SMTT(60)
      <4> QED
        BY <1>2, <1>4, <3>1, <3>2, <3>4, <4>1
    <3> QED
      BY <3>3, <3>4
  <2> QED
    BY <2>1, <2>2
<1> QED
  BY <1>4, <1>5, <1>6, SeqEqual DEF x, y, p, c, m

(* What is taken from a pool and what is left. *)
LEMMA DropIs ==
    ASSUME NEW v \in Seq(Origin), NEW n \in 0 .. Len(v)
    PROVE  /\ SubSeq(v, 1, n) \in Seq(Origin) /\ Len(SubSeq(v, 1, n)) = n
           /\ Drop(v, n) \in Seq(Origin) /\ Len(Drop(v, n)) = Len(v) - n
           /\ v = SubSeq(v, 1, n) \o Drop(v, n)
           /\ Padded(v, n) = SubSeq(v, 1, n)
<1>1. Len(v) \in Nat /\ n \in Nat
  OBVIOUS
<1>2. /\ SubSeq(v, 1, n) \in Seq(Origin) /\ Len(SubSeq(v, 1, n)) = n
      /\ \A i \in 1 .. n : SubSeq(v, 1, n)[i] = v[i]
  OBVIOUS
<1>3. Drop(v, n) \in Seq(Origin) /\ Len(Drop(v, n)) = Len(v) - n
  BY DEF Drop
<1>4. SubSeq(v, 1, n) \o SubSeq(v, n + 1, Len(v)) = SubSeq(v, 1, Len(v))
  <2>1. 1 \in 1 .. Len(v) + 1 /\ n \in 1 - 1 .. Len(v) /\ Len(v) \in n .. Len(v)
    BY <1>1
  <2> QED
    BY <2>1, ConcatAdjacentSubSeq
<1>5. SubSeq(v, 1, Len(v)) = v
  BY SubSeqFull
<1>6. \A i \in 1 .. n : Padded(v, n)[i] = SubSeq(v, 1, n)[i]
  <2>1. \A i \in 1 .. n : Padded(v, n)[i] = IF i <= Len(v) THEN v[i] ELSE Zero
    BY <1>1, PaddedIs
  <2>2. \A i \in 1 .. n : i <= Len(v)
    BY <1>1
  <2> QED
    BY <1>2, <2>1, <2>2
<1>7. Padded(v, n) \in Seq(Origin) /\ Len(Padded(v, n)) = n
  BY <1>1, PaddedIs
<1>8. Padded(v, n) = SubSeq(v, 1, n)
  BY <1>2, <1>6, <1>7, SeqEqual
<1> QED
  BY <1>2, <1>3, <1>4, <1>5, <1>8 DEF Drop

LEMMA ElementIs ==
    ASSUME NEW e \in Nat, NEW n \in Nat
    PROVE  Element(e, n) \in Seq(Origin) /\ Len(Element(e, n)) = n /\ \A i \in 1 .. n : Element(e, n)[i] = << e, i >>
<1>1. \A i \in 1 .. n : << e, i >> \in Origin
  BY DEF Origin
<1> QED
  BY <1>1 DEF Element

LEMMA VectorIs ==
    ASSUME NEW len \in Nat, NEW n \in Nat
    PROVE  Uniform(Vector(len, n), n) /\ Len(Vector(len, n)) = len
<1>1. \A e \in 1 .. len : Element(e, n) \in Seq(Origin) /\ Len(Element(e, n)) = n
  BY ElementIs
<1>2. Vector(len, n) \in Pieces /\ Len(Vector(len, n)) = len
  BY <1>1 DEF Vector, Pieces
<1>3. \A e \in 1 .. len : Vector(len, n)[e] = Element(e, n)
  BY DEF Vector
<1> QED
  BY <1>1, <1>2, <1>3 DEF Uniform

-----------------------------------------------------------------------------
(* Transcoding *)

TranscoderType ==
    [job : {"transcode"}, a : Pieces, inBits : 1 .. WordBits, outBits : 1 .. WordBits,
     back : 0 .. WordBits, index : Nat, pool : Seq(Origin), out : Pieces, done : BOOLEAN]

(* The words read so far are those written and the pool.                   *)
InOrder(s) == Flat(SubSeq(s.a, 1, s.index)) = Flat(s.out) \o s.pool

Transcoded(s) ==
    /\ Len(s.out) = CeilDiv(Len(Flat(s.a)), s.outBits)
    /\ Flat(s.out) = Padded(Flat(s.a), Len(Flat(s.out)))

Transcodes(s) ==
    /\ s \in TranscoderType /\ Uniform(s.a, s.inBits) /\ Uniform(s.out, s.outBits) /\ s.index <= Len(s.a)
    /\ s.back # 0 => s.outBits = ByteBits
    /\ ~s.done => InOrder(s)
    /\ s.done => Transcoded(s)

LEMMA TranscodingStarts ==
    ASSUME NEW i \in 1 .. WordBits, NEW o \in 1 .. WordBits, NEW b \in 0 .. WordBits, NEW a, Uniform(a, i),
           b # 0 => o = ByteBits
    PROVE  Transcodes(Transcoding(a, i, o, b))
<1> DEFINE s == Transcoding(a, i, o, b)
<1>1. << >> \in Pieces /\ Uniform(<< >>, o)
  BY DEF Uniform, Pieces
<1>2. a \in Pieces /\ Len(a) \in Nat
  BY DEF Uniform, Pieces
<1>3. /\ s.a = a /\ s.inBits = i /\ s.outBits = o /\ s.back = b /\ s.index = 0 /\ s.pool = << >>
      /\ s.out = << >> /\ s.done = FALSE
  BY DEF Transcoding
<1>4. s \in TranscoderType
  BY <1>1, <1>2 DEF Transcoding, TranscoderType
<1> HIDE DEF s
<1>5. InOrder(s)
  <2>1. SubSeq(a, 1, 0) = << >>
    OBVIOUS
  <2>2. Flat(<< >>) \o << >> = << >>
    BY FlatEmpty
  <2> QED
    BY <1>3, <2>1, <2>2, FlatEmpty DEF InOrder
<1> QED
  BY <1>1, <1>2, <1>3, <1>4, <1>5 DEF Transcodes, s

LEMMA TranscoderTakes ==
    ASSUME NEW s, Transcodes(s), ~s.done, Len(s.pool) < s.outBits, s.index < Len(s.a),
           NEW z, z = [s EXCEPT !.pool = Pooled(s.pool, s.a[s.index + 1]), !.index = s.index + 1]
    PROVE  Transcodes(z)
<1> DEFINE x == s.a[s.index + 1]
           p == s.pool \o x
           i == s.index
<1>1. /\ s \in TranscoderType /\ Uniform(s.a, s.inBits) /\ Uniform(s.out, s.outBits) /\ InOrder(s)
      /\ s.back # 0 => s.outBits = ByteBits
  BY DEF Transcodes
<1>2. /\ s.a \in Pieces /\ i \in Nat /\ s.pool \in Seq(Origin) /\ Len(s.a) \in Nat /\ s.out \in Pieces
      /\ s.inBits \in 1 .. WordBits /\ s.outBits \in 1 .. WordBits
  BY <1>1 DEF TranscoderType, Pieces
<1>3. i + 1 \in 1 .. Len(s.a) /\ i \in 0 .. Len(s.a) - 1
  BY <1>2
<1>4. x \in Seq(Origin) /\ Len(x) = s.inBits
  BY <1>1, <1>2, <1>3 DEF Uniform, Pieces
<1>5. Pooled(s.pool, x) = p
  <2>1. Len(s.pool) + Len(x) <= Capacity
    <3>1. Capacity = 2 * WordBits /\ WordBits \in Nat
      BY StreamsAssumption DEF Capacity
    <3>2. Len(s.pool) \in Nat
      BY <1>2
    <3> QED
      BY <1>2, <1>4, <3>1, <3>2
  <2> HIDE DEF x
  <2> QED
    BY <1>2, <1>4, <2>1, PooledIs
<1>6. p \in Seq(Origin)
  BY <1>2, <1>4, ConcatProperties
<1>7. z = [s EXCEPT !.pool = p, !.index = i + 1]
  BY <1>5
<1> HIDE DEF p
<1>8. /\ z \in TranscoderType /\ z.a = s.a /\ z.inBits = s.inBits /\ z.outBits = s.outBits /\ z.back = s.back
      /\ z.index = i + 1 /\ z.pool = p /\ z.out = s.out /\ z.done = s.done
  <2> DEFINE j == i + 1
  <2>1. j \in Nat /\ z = [s EXCEPT !.pool = p, !.index = j]
    BY <1>2, <1>7
  <2> HIDE DEF i, j
  <2>2. /\ z \in TranscoderType /\ z.a = s.a /\ z.inBits = s.inBits /\ z.outBits = s.outBits
        /\ z.back = s.back /\ z.index = j /\ z.pool = p /\ z.out = s.out /\ z.done = s.done
    BY ONLY <1>1, <1>6, <2>1 DEF TranscoderType
  <2> QED
    BY <2>2 DEF j
<1>9. InOrder(z)
  <2>1. Flat(SubSeq(s.a, 1, i + 1)) = Flat(SubSeq(s.a, 1, i)) \o x
    BY <1>2, <1>3, FlatNext
  <2>2. Flat(SubSeq(s.a, 1, i)) = Flat(s.out) \o s.pool
    BY <1>1 DEF InOrder
  <2>3. Flat(s.out) \in Seq(Origin)
    BY <1>1, <1>2, FlatLength, SMTT(60)
  <2> DEFINE u == Flat(s.out)
             v == s.pool
  <2>5. u \in Seq(Origin) /\ v \in Seq(Origin) /\ x \in Seq(Origin)
    BY <1>2, <1>4, <2>3
  <2> HIDE DEF u, v, x
  <2>4. (u \o v) \o x = u \o (v \o x)
    BY ONLY <2>5, ConcatAssociative
  <2> QED
    BY <1>8, <2>1, <2>2, <2>4 DEF InOrder, p, u, v
<1> QED
  BY <1>1, <1>3, <1>8, <1>9 DEF Transcodes

LEMMA TranscoderEmits ==
    ASSUME NEW s, Transcodes(s), ~s.done, Len(s.pool) >= s.outBits,
           NEW z, z = [s EXCEPT !.pool = Drop(s.pool, s.outBits),
                                !.out = Append(s.out, SubSeq(s.pool, 1, s.outBits))]
    PROVE  Transcodes(z)
<1> DEFINE n == s.outBits
           x == SubSeq(s.pool, 1, n)
           p == Drop(s.pool, n)
           o == Append(s.out, x)
<1>1. /\ s \in TranscoderType /\ Uniform(s.a, s.inBits) /\ Uniform(s.out, s.outBits) /\ InOrder(s)
      /\ s.back # 0 => s.outBits = ByteBits /\ s.index <= Len(s.a)
  BY DEF Transcodes
<1>2. /\ s.a \in Pieces /\ s.pool \in Seq(Origin) /\ s.out \in Pieces /\ n \in Nat /\ n \in 0 .. Len(s.pool)
  BY <1>1, StreamsAssumption DEF TranscoderType
<1>3. /\ x \in Seq(Origin) /\ Len(x) = n /\ p \in Seq(Origin) /\ s.pool = x \o p
  BY <1>2, DropIs
<1> HIDE DEF x, p
<1>4. Uniform(o, n) /\ Flat(o) = Flat(s.out) \o x
  BY <1>1, <1>2, <1>3, UniformAppend
<1>5. o \in Pieces
  BY <1>4 DEF Uniform
<1>6. z = [s EXCEPT !.pool = p, !.out = o]
  BY DEF x, p
<1> HIDE DEF o
<1>7. /\ z \in TranscoderType /\ z.a = s.a /\ z.inBits = s.inBits /\ z.outBits = s.outBits /\ z.back = s.back
      /\ z.index = s.index /\ z.pool = p /\ z.out = o /\ z.done = s.done
  BY <1>1, <1>3, <1>5, <1>6 DEF TranscoderType
<1>8. InOrder(z)
  <2>1. Flat(SubSeq(s.a, 1, s.index)) = Flat(s.out) \o s.pool
    BY <1>1 DEF InOrder
  <2>2. Flat(s.out) \in Seq(Origin)
    BY <1>1, <1>2, FlatLength
  <2> DEFINE u == Flat(s.out)
  <2>4. u \in Seq(Origin) /\ x \in Seq(Origin) /\ p \in Seq(Origin)
    BY <1>3, <2>2
  <2> HIDE DEF u
  <2>3. (u \o x) \o p = u \o (x \o p)
    BY ONLY <2>4, ConcatAssociative
  <2> QED
    BY <1>3, <1>4, <1>7, <2>1, <2>3 DEF InOrder, u
<1>9. Uniform(z.out, z.outBits)
  BY <1>4, <1>7
<1>10. s.index <= Len(s.a) /\ (s.back # 0 => s.outBits = ByteBits)
  BY DEF Transcodes
<1> QED
  BY <1>1, <1>7, <1>8, <1>9, <1>10 DEF Transcodes

(* The number of words of n bits that c of them and less than another are. *)
LEMMA CeilOf ==
    ASSUME NEW n \in Nat \ {0}, NEW c \in Nat, NEW r \in 0 .. n - 1
    PROVE  CeilDiv(n * c + r, n) = IF r = 0 THEN c ELSE c + 1
<1> DEFINE m == n * c
<1>1. m \in Nat
  OBVIOUS
<1>2. CASE r = 0
  <2>1. CeilDiv(m + r, n) = (m + (n - 1)) \div n
    BY <1>1, <1>2 DEF CeilDiv
  <2>2. (n * c + (n - 1)) \div n = c
    OBVIOUS
  <2> QED
    BY <1>2, <2>1, <2>2
<1>3. CASE r # 0
  <2>1. n * (c + 1) = m + n
    OBVIOUS
  <2>2. CeilDiv(m + r, n) = (n * (c + 1) + (r - 1)) \div n
    BY <1>1, <2>1 DEF CeilDiv
  <2>3. (n * (c + 1) + (r - 1)) \div n = c + 1
    BY <1>3
  <2> QED
    BY <1>3, <2>2, <2>3
<1> QED
  BY <1>2, <1>3

LEMMA TranscoderFinishes ==
    ASSUME NEW s, Transcodes(s), ~s.done, Len(s.pool) < s.outBits, s.index = Len(s.a),
           NEW z, z = [s EXCEPT !.done = TRUE, !.pool = << >>,
                                !.out = IF s.pool = << >> THEN s.out
                                        ELSE Append(s.out, Padded(s.pool, s.outBits))]
    PROVE  Transcodes(z)
<1> DEFINE n == s.outBits
           v == s.pool
           x == Padded(v, n)
           o == IF v = << >> THEN s.out ELSE Append(s.out, x)
           F == Flat(s.a)
           u == Flat(s.out)
           c == Len(s.out)
           r == Len(v)
<1>1. /\ s \in TranscoderType /\ Uniform(s.a, s.inBits) /\ Uniform(s.out, n) /\ InOrder(s)
      /\ (s.back # 0 => s.outBits = ByteBits) /\ s.index <= Len(s.a)
  BY DEF Transcodes
<1>2. /\ s.a \in Pieces /\ v \in Seq(Origin) /\ s.out \in Pieces /\ n \in Nat \ {0} /\ n \in Nat
      /\ r \in 0 .. n - 1
  BY <1>1, StreamsAssumption DEF TranscoderType
<1>3. F = u \o v
  <2>1. SubSeq(s.a, 1, Len(s.a)) = s.a
    BY <1>2, SubSeqFull DEF Pieces
  <2> QED
    BY <1>1, <2>1 DEF InOrder
<1>4. u \in Seq(Origin) /\ Len(u) = n * c /\ c \in Nat
  BY <1>1, <1>2, FlatLength
<1> HIDE DEF u
<1>5. F \in Seq(Origin) /\ Len(F) = n * c + r
  <2>2. u \in Seq(Origin) /\ v \in Seq(Origin) /\ F = u \o v
    BY <1>2, <1>3, <1>4
  <2>3. Len(u) = n * c /\ r = Len(v) /\ c \in Nat /\ n \in Nat
    BY <1>2, <1>4
  <2> HIDE DEF F, v, r, c, n
  <2>1. F \in Seq(Origin) /\ Len(F) = Len(u) + Len(v)
    BY ONLY <2>2, ConcatProperties
  <2> QED
    BY ONLY <2>1, <2>3
<1> HIDE DEF F, v, r, c
<1>6. CeilDiv(Len(F), n) = IF r = 0 THEN c ELSE c + 1
  <2>1. n \in Nat \ {0} /\ c \in Nat /\ r \in 0 .. n - 1 /\ Len(F) = n * c + r
    BY <1>2, <1>4, <1>5
  <2> HIDE DEF n
  <2>2. CeilDiv(n * c + r, n) = IF r = 0 THEN c ELSE c + 1
    BY ONLY <2>1, CeilOf
  <2> QED
    BY ONLY <2>1, <2>2
<1>7. Uniform(o, n) /\ Len(o) = CeilDiv(Len(F), n) /\ Flat(o) = Padded(F, Len(Flat(o)))
  <2>1. CASE v = << >>
    <3>1. o = s.out /\ r = 0 /\ F = u
      <4>1. u \o << >> = u
        BY <1>4, ConcatEmptySeq
      <4> QED
        BY <1>3, <2>1, <4>1 DEF r
    <3>2. Padded(u, Len(u)) = u
      BY <1>4, PaddedWhole
    <3> QED
      BY <1>1, <1>6, <3>1, <3>2 DEF u, c
  <2>2. CASE v # << >>
    <3>1. r # 0
      BY <1>2, <2>2 DEF r
    <3>2. x \in Seq(Origin) /\ Len(x) = n
      BY <1>2, PaddedIs
    <3>3. o = Append(s.out, x)
      BY <2>2
    <3> HIDE DEF x, o
    <3>4. Uniform(o, n) /\ Len(o) = c + 1 /\ Flat(o) = u \o x
      BY <1>1, <1>2, <3>2, <3>3, UniformAppend DEF u, c
    <3>5. u \o x = Padded(u \o v, Len(u) + n)
      <4>1. Len(v) <= n
        BY <1>2 DEF r
      <4> QED
        BY <1>2, <1>4, <4>1, PaddedLast DEF x
    <3>6. Len(Flat(o)) = Len(u) + n
      BY <1>4, <3>2, <3>4, ConcatProperties
    <3> QED
      BY <1>3, <1>6, <3>1, <3>4, <3>5, <3>6
  <2> QED
    BY <2>1, <2>2
<1>8. o \in Pieces /\ << >> \in Seq(Origin)
  BY <1>7 DEF Uniform
<1>9. z = [s EXCEPT !.done = TRUE, !.pool = << >>, !.out = o]
  BY DEF v
<1> HIDE DEF o
<1>10. /\ z \in TranscoderType /\ z.a = s.a /\ z.inBits = s.inBits /\ z.outBits = n /\ z.back = s.back
       /\ z.index = s.index /\ z.out = o /\ z.done = TRUE
  BY <1>1, <1>8, <1>9 DEF TranscoderType
<1>11. Transcoded(z)
  BY <1>7, <1>10 DEF Transcoded, F
<1> QED
  BY <1>1, <1>7, <1>10, <1>11 DEF Transcodes

-----------------------------------------------------------------------------
(* Sampling *)

SamplerType ==
    [job : {"sample"}, v : 1 .. 16, draws : Nat, pool : Seq(Origin),
     out : Seq([plus : Seq(Origin), minus : Seq(Origin)])]

(* The bits of every sample. *)
Taken(s) == [k \in 1 .. Len(s.out) |-> s.out[k].plus \o s.out[k].minus]

(* Bits of the first n draws, each at most once. *)
Drawn(bits, n) ==
    /\ \A i \in 1 .. Len(bits) : bits[i] \in (1 .. n) \X (1 .. WordBits)
    /\ \A i, j \in 1 .. Len(bits) : i # j => bits[i] # bits[j]

Samples(s) ==
    /\ s \in SamplerType /\ Uniform(Taken(s), 4 * s.v)
    /\ Drawn(Flat(Taken(s)) \o s.pool, s.draws) /\ Len(s.pool) <= Capacity

LEMMA DrawnMore ==
    ASSUME NEW n \in Nat, NEW u \in Seq(Origin), Drawn(u, n)
    PROVE  Drawn(u \o Element(n + 1, WordBits), n + 1)
<1> DEFINE e == Element(n + 1, WordBits)
           b == u \o e
           l == Len(u)
<1>1. WordBits \in Nat /\ n + 1 \in Nat /\ l \in Nat
  BY StreamsAssumption
<1>2. e \in Seq(Origin) /\ Len(e) = WordBits /\ \A i \in 1 .. WordBits : e[i] = << n + 1, i >>
  BY <1>1, ElementIs
<1>3. /\ \A i \in 1 .. l : u[i] \in (1 .. n) \X (1 .. WordBits)
      /\ \A i, j \in 1 .. l : i # j => u[i] # u[j]
  BY DEF Drawn
<1> HIDE DEF e
<1>4. Len(b) = l + WordBits /\ \A i \in 1 .. l + WordBits : b[i] = IF i <= l THEN u[i] ELSE e[i - l]
  BY <1>2, ConcatProperties
<1> HIDE DEF b, l
<1>5. ASSUME NEW i \in 1 .. l + WordBits
      PROVE  \/ i \in 1 .. l /\ b[i] = u[i] /\ b[i] \in (1 .. n) \X (1 .. WordBits)
             \/ i - l \in 1 .. WordBits /\ b[i] = << n + 1, i - l >>
  <2>1. CASE i <= l
    <3>1. i \in 1 .. l
      BY <2>1
    <3> QED
      BY <1>3, <1>4, <2>1, <3>1
  <2>2. CASE ~(i <= l)
    <3>1. i - l \in 1 .. WordBits
      BY <1>1, <2>2
    <3> QED
      BY <1>2, <1>4, <2>2, <3>1
  <2> QED
    BY <2>1, <2>2
<1>6. \A i \in 1 .. l + WordBits : b[i] \in (1 .. n + 1) \X (1 .. WordBits)
  <2> TAKE i \in 1 .. l + WordBits
  <2>1. 1 .. n \subseteq 1 .. n + 1 /\ n + 1 \in 1 .. n + 1
    BY <1>1
  <2>2. CASE b[i] \in (1 .. n) \X (1 .. WordBits)
    BY <2>1, <2>2
  <2>3. CASE i - l \in 1 .. WordBits /\ b[i] = << n + 1, i - l >>
    BY <2>1, <2>3
  <2> QED
    BY <1>5, <2>2, <2>3
<1>7. ASSUME NEW i \in 1 .. l + WordBits, NEW j \in 1 .. l + WordBits, i # j PROVE b[i] # b[j]
  <2>1. \A k \in 1 .. l : u[k][1] # n + 1
    <3> TAKE k \in 1 .. l
    <3>1. u[k][1] \in 1 .. n
      BY <1>3
    <3> QED
      BY <1>1, <3>1
  <2>2. CASE i \in 1 .. l /\ j \in 1 .. l /\ b[i] = u[i] /\ b[j] = u[j]
    BY <1>3, <1>7, <2>2
  <2>3. CASE i \in 1 .. l /\ b[i] = u[i] /\ b[j] = << n + 1, j - l >>
    <3>1. b[i][1] # n + 1 /\ b[j][1] = n + 1
      BY <2>1, <2>3
    <3> QED
      BY <3>1
  <2>4. CASE j \in 1 .. l /\ b[j] = u[j] /\ b[i] = << n + 1, i - l >>
    <3>1. b[j][1] # n + 1 /\ b[i][1] = n + 1
      BY <2>1, <2>4
    <3> QED
      BY <3>1
  <2>5. CASE b[i] = << n + 1, i - l >> /\ b[j] = << n + 1, j - l >>
    <3>1. i - l # j - l
      BY <1>1, <1>7
    <3> QED
      BY <2>5, <3>1
  <2> QED
    BY <1>5, <2>2, <2>3, <2>4, <2>5
<1> QED
  BY <1>4, <1>6, <1>7 DEF Drawn, b, e

LEMMA DrawnFirst ==
    ASSUME NEW n, NEW u \in Seq(Origin), NEW v \in Seq(Origin), Drawn(u \o v, n)
    PROVE  Drawn(u, n)
<1> DEFINE b == u \o v
<1>1. Len(b) = Len(u) + Len(v) /\ \A i \in 1 .. Len(u) + Len(v) : b[i] = IF i <= Len(u) THEN u[i] ELSE v[i - Len(u)]
  BY ConcatProperties
<1>2. Len(u) \in Nat /\ Len(v) \in Nat
  OBVIOUS
<1>3. \A i \in 1 .. Len(b) : b[i] \in (1 .. n) \X (1 .. WordBits)
  BY DEF Drawn
<1>4. \A i, j \in 1 .. Len(b) : i # j => b[i] # b[j]
  BY DEF Drawn
<1> HIDE DEF b
<1>5. \A i \in 1 .. Len(u) : i \in 1 .. Len(b) /\ b[i] = u[i]
  BY <1>1, <1>2
<1> QED
  BY <1>3, <1>4, <1>5 DEF Drawn

(* A pool that is short is refilled in time, and has room. *)
LEMMA RefilledIs ==
    ASSUME NEW s, Samples(s), NEW pool, pool = Refilled(s),
           NEW d, d = IF pool = s.pool THEN s.draws ELSE s.draws + 1
    PROVE  /\ pool \in Seq(Origin) /\ Len(pool) >= 4 * s.v /\ Len(pool) <= Capacity /\ d \in Nat
           /\ Drawn(Flat(Taken(s)) \o pool, d)
<1> DEFINE n == s.draws
           e == Element(n + 1, WordBits)
           u == Flat(Taken(s))
<1>1. s.v \in 1 .. 16 /\ n \in Nat /\ s.pool \in Seq(Origin) /\ Len(s.pool) <= Capacity /\ Len(s.pool) \in Nat
      /\ Drawn(u \o s.pool, n)
  BY DEF Samples, SamplerType
<1>2. u \in Seq(Origin)
  <2>1. 4 * s.v \in Nat
    BY <1>1, SMTT(60)
  <2> QED
    BY <2>1, FlatLength DEF Samples
<1>3. WordBits \in Nat /\ WordBits >= 64 /\ Capacity = 2 * WordBits
  BY StreamsAssumption DEF Capacity
<1>4. CASE Len(s.pool) < 4 * s.v
  <2>1. e \in Seq(Origin) /\ Len(e) = WordBits
    <3> DEFINE m == n + 1
    <3>1. m \in Nat /\ WordBits \in Nat
      BY <1>1, <1>3
    <3> HIDE DEF m
    <3>2. Element(m, WordBits) \in Seq(Origin) /\ Len(Element(m, WordBits)) = WordBits
      BY <3>1, ElementIs
    <3> QED
      BY <3>2 DEF m
  <2>2. pool = Pooled(s.pool, e)
    BY <1>4 DEF Refilled
  <2> HIDE DEF e
  <2>3. pool = s.pool \o e
    <3> DEFINE l == Len(s.pool)
               v == s.v
    <3>1. l \in Nat /\ v \in 1 .. 16 /\ l < 4 * v
      BY <1>1, <1>4
    <3> HIDE DEF l, v
    <3>2. l + WordBits <= 2 * WordBits
      BY ONLY <3>1, <1>3
    <3>3. Len(s.pool) + Len(e) <= Capacity
      BY <1>3, <2>1, <3>2 DEF l
    <3> QED
      BY <1>1, <2>1, <2>2, <3>3, PooledIs
  <2>4. pool \in Seq(Origin) /\ Len(pool) = Len(s.pool) + WordBits
    BY <1>1, <2>1, <2>3, ConcatProperties
  <2>5. pool # s.pool
    <3> DEFINE l == Len(s.pool)
    <3>1. l \in Nat
      BY <1>1
    <3> HIDE DEF l
    <3>2. l + WordBits # l
      BY ONLY <3>1, <1>3
    <3> QED
      BY <2>4, <3>2 DEF l
  <2>6. d = n + 1
    BY <2>5
  <2> HIDE DEF u, n
  <2>7. Drawn((u \o s.pool) \o e, n + 1)
    <3>1. u \o s.pool \in Seq(Origin)
      BY <1>1, <1>2, ConcatProperties
    <3> QED
      BY <1>1, <3>1, DrawnMore DEF e
  <2>8. (u \o s.pool) \o e = u \o (s.pool \o e)
    <3> DEFINE p == s.pool
    <3>1. p \in Seq(Origin)
      BY <1>1
    <3> HIDE DEF p
    <3>2. (u \o p) \o e = u \o (p \o e)
      BY ONLY <1>2, <2>1, <3>1, ConcatAssociative
    <3> QED
      BY <3>2 DEF p
  <2>9. Drawn(u \o pool, d)
    BY <2>3, <2>6, <2>7, <2>8
  <2>10. Len(pool) >= 4 * s.v /\ Len(pool) <= Capacity /\ d \in Nat
    <3> DEFINE l == Len(s.pool)
               v == s.v
               c == Len(pool)
    <3>1. l \in Nat /\ v \in 1 .. 16 /\ l < 4 * v /\ c = l + WordBits
      BY <1>1, <1>4, <2>4
    <3> HIDE DEF l, v, c
    <3>2. c >= 4 * v /\ c <= 2 * WordBits
      BY ONLY <3>1, <1>3
    <3> QED
      BY <1>1, <1>3, <2>6, <3>2 DEF n, c, v
  <2> QED
    BY <2>4, <2>9, <2>10 DEF u
<1>5. CASE ~(Len(s.pool) < 4 * s.v)
  <2>1. pool = s.pool /\ d = n
    BY <1>5 DEF Refilled
  <2>2. Len(s.pool) >= 4 * s.v
    <3> DEFINE l == Len(s.pool)
               v == s.v
    <3>1. l \in Nat /\ v \in 1 .. 16 /\ ~(l < 4 * v)
      BY <1>1, <1>5
    <3> HIDE DEF l, v
    <3>2. l >= 4 * v
      BY ONLY <3>1
    <3> QED
      BY <3>2 DEF l, v
  <2> HIDE DEF u, n
  <2>3. Drawn(u \o pool, d)
    BY <1>1, <2>1
  <2>4. pool \in Seq(Origin) /\ Len(pool) >= 4 * s.v /\ Len(pool) <= Capacity /\ d \in Nat
    BY <1>1, <2>1, <2>2
  <2> QED
    BY <2>3, <2>4 DEF u
<1> QED
  BY <1>4, <1>5

(* A sample takes the first bits of the pool, in two halves. *)
LEMMA HalvesIs ==
    ASSUME NEW p \in Seq(Origin), NEW h \in Nat, 2 * h <= Len(p)
    PROVE  LET plus == Padded(p, h)
               minus == Padded(Drop(p, h), h)
               rest == Drop(p, 2 * h)
           IN  /\ plus \in Seq(Origin) /\ minus \in Seq(Origin) /\ rest \in Seq(Origin)
               /\ plus \o minus \in Seq(Origin) /\ Len(plus \o minus) = 2 * h
               /\ Len(rest) = Len(p) - 2 * h /\ p = (plus \o minus) \o rest
<1> DEFINE plus == Padded(p, h)
           minus == Padded(Drop(p, h), h)
           rest == Drop(p, 2 * h)
           n == Len(p)
           both == SubSeq(p, 1, 2 * h)
<1>1. n \in Nat /\ h \in 0 .. n /\ 2 * h \in 0 .. n /\ h \in 0 .. n - h
  OBVIOUS
<1>2. /\ plus = SubSeq(p, 1, h) /\ Drop(p, h) \in Seq(Origin) /\ Len(Drop(p, h)) = n - h
      /\ plus \in Seq(Origin)
  BY <1>1, DropIs
<1>3. /\ rest \in Seq(Origin) /\ Len(rest) = n - 2 * h /\ p = both \o rest
      /\ both \in Seq(Origin) /\ Len(both) = 2 * h
  BY <1>1, DropIs
<1>4. minus = SubSeq(Drop(p, h), 1, h) /\ minus \in Seq(Origin)
  <2> DEFINE v == Drop(p, h)
  <2>1. v \in Seq(Origin) /\ h \in 0 .. Len(v)
    BY <1>1, <1>2
  <2> HIDE DEF v
  <2>2. Padded(v, h) = SubSeq(v, 1, h) /\ SubSeq(v, 1, h) \in Seq(Origin)
    BY <2>1, DropIs
  <2> QED
    BY <2>2 DEF v
<1>5. minus = SubSeq(p, h + 1, 2 * h)
  <2>1. CASE h = 0
    BY <1>4, <2>1, SubSeqEmpty
  <2>2. CASE h # 0
    <3>1. h + 1 \in 1 .. n /\ n \in 1 .. n /\ 1 \in 1 .. n - (h + 1) + 1 /\ h \in 1 .. n - (h + 1) + 1
      BY <1>1, <2>2
    <3>2. SubSeq(SubSeq(p, h + 1, n), 1, h) = SubSeq(p, (h + 1) + 1 - 1, (h + 1) + h - 1)
      BY <3>1, SubSeqOfSubSeq
    <3>3. (h + 1) + 1 - 1 = h + 1 /\ (h + 1) + h - 1 = 2 * h
      OBVIOUS
    <3> QED
      BY <1>4, <3>2, <3>3 DEF Drop
  <2> QED
    BY <2>1, <2>2
<1>6. plus \o minus = both
  <2>1. 1 \in 1 .. n + 1 /\ h \in 1 - 1 .. n /\ 2 * h \in h .. n
    BY <1>1
  <2>2. SubSeq(p, 1, h) \o SubSeq(p, h + 1, 2 * h) = SubSeq(p, 1, 2 * h)
    BY <2>1, ConcatAdjacentSubSeq
  <2> QED
    BY <1>2, <1>5, <2>2
<1> QED
  BY <1>2, <1>3, <1>4, <1>6

LEMMA SamplerSamples ==
    ASSUME NEW s, Samples(s), NEW z,
           z = LET pool == Refilled(s)
                   half == 2 * s.v
               IN  [s EXCEPT
                       !.draws = IF pool = s.pool THEN s.draws ELSE s.draws + 1,
                       !.out = Append(s.out, [plus |-> Padded(pool, half),
                                              minus |-> Padded(Drop(pool, half), half)]),
                       !.pool = Drop(pool, 2 * half)]
    PROVE  Samples(z)
<1> DEFINE pool == Refilled(s)
           h == 2 * s.v
           plus == Padded(pool, h)
           minus == Padded(Drop(pool, h), h)
           rest == Drop(pool, 2 * h)
           d == IF pool = s.pool THEN s.draws ELSE s.draws + 1
           r == [plus |-> plus, minus |-> minus]
           o == Append(s.out, r)
           T == Taken(s)
           x == plus \o minus
<1>1. s \in SamplerType /\ Uniform(T, 4 * s.v) /\ s.v \in 1 .. 16
      /\ s.out \in Seq([plus : Seq(Origin), minus : Seq(Origin)])
  BY DEF Samples, SamplerType
<1>2. pool \in Seq(Origin) /\ Len(pool) >= 4 * s.v /\ Len(pool) <= Capacity /\ d \in Nat
      /\ Drawn(Flat(T) \o pool, d)
  BY RefilledIs
<1>3. z = [s EXCEPT !.draws = d, !.out = o, !.pool = rest]
  OBVIOUS
<1> HIDE DEF pool, d, T
<1>4. h \in Nat /\ 2 * h = 4 * s.v /\ 2 * h <= Len(pool) /\ 2 * h \in Nat
  <2> DEFINE v == s.v
             l == Len(pool)
  <2>1. v \in 1 .. 16 /\ l \in Nat /\ l >= 4 * v
    BY <1>1, <1>2
  <2> HIDE DEF v, l
  <2>2. 2 * v \in Nat /\ 2 * (2 * v) = 4 * v /\ 2 * (2 * v) <= l /\ 2 * (2 * v) \in Nat
    BY ONLY <2>1
  <2> QED
    BY <2>2 DEF v, l
<1> HIDE DEF h
<1>5. /\ plus \in Seq(Origin) /\ minus \in Seq(Origin) /\ rest \in Seq(Origin)
      /\ x \in Seq(Origin) /\ Len(x) = 2 * h
      /\ Len(rest) = Len(pool) - 2 * h /\ pool = x \o rest
  BY <1>2, <1>4, HalvesIs
<1> HIDE DEF plus, minus, rest
<1>6. /\ o \in Seq([plus : Seq(Origin), minus : Seq(Origin)]) /\ Len(o) = Len(s.out) + 1
      /\ o[Len(s.out) + 1] = r /\ \A k \in 1 .. Len(s.out) : o[k] = s.out[k]
  <2> DEFINE R == [plus : Seq(Origin), minus : Seq(Origin)]
             q == s.out
  <2>1. q \in Seq(R) /\ r \in R
    BY <1>1, <1>5
  <2> HIDE DEF R, q, r
  <2>2. /\ Append(q, r) \in Seq(R) /\ Len(Append(q, r)) = Len(q) + 1
        /\ Append(q, r)[Len(q) + 1] = r /\ \A k \in 1 .. Len(q) : Append(q, r)[k] = q[k]
    BY <2>1, AppendProperties
  <2> QED
    BY <2>2 DEF R, q
<1>7. r.plus = plus /\ r.minus = minus
  OBVIOUS
<1> HIDE DEF o, r
<1>8. /\ z \in SamplerType /\ z.v = s.v /\ z.draws = d /\ z.out = o /\ z.pool = rest
  BY <1>1, <1>2, <1>3, <1>5, <1>6 DEF SamplerType
<1>9. Taken(z) = Append(T, x)
  <2> DEFINE n == Len(s.out)
             a == Append(T, x)
  <2>1. n \in Nat /\ Len(o) = n + 1
    BY <1>1, <1>6
  <2>2. T \in Seq(Seq(Origin)) /\ x \in Seq(Origin)
    BY <1>1, <1>5 DEF Uniform, Pieces
  <2>3. T = [k \in 1 .. n |-> s.out[k].plus \o s.out[k].minus]
    BY DEF T, Taken
  <2>4. Len(T) = n /\ \A k \in 1 .. n : T[k] = s.out[k].plus \o s.out[k].minus
    <3> DEFINE F(k) == s.out[k].plus \o s.out[k].minus
    <3>1. T = [k \in 1 .. n |-> F(k)]
      BY <2>3
    <3> HIDE DEF F, n
    <3>2. DOMAIN T = 1 .. n /\ \A k \in 1 .. n : T[k] = F(k)
      BY ONLY <3>1
    <3>3. Len(T) = n
      BY ONLY <3>2, <2>1, <2>2, LenProperties
    <3> QED
      BY <3>2, <3>3 DEF F
  <2>5. Taken(z) = [k \in 1 .. n + 1 |-> o[k].plus \o o[k].minus]
    <3>1. Taken(z) = [k \in 1 .. Len(z.out) |-> z.out[k].plus \o z.out[k].minus]
      BY DEF Taken
    <3> QED
      BY ONLY <3>1, <2>1, <1>8
  <2>6. o[n + 1].plus \o o[n + 1].minus = x /\ \A k \in 1 .. n : o[k] = s.out[k]
    BY <1>6, <1>7
  <2> HIDE DEF x, n
  <2>7. a \in Seq(Seq(Origin)) /\ Len(a) = n + 1 /\ a[n + 1] = x /\ \A k \in 1 .. n : a[k] = T[k]
    <3>1. /\ Append(T, x) \in Seq(Seq(Origin)) /\ Len(Append(T, x)) = Len(T) + 1
          /\ Append(T, x)[Len(T) + 1] = x /\ \A k \in 1 .. Len(T) : Append(T, x)[k] = T[k]
      BY <2>2, AppendProperties
    <3> QED
      BY <2>4, <3>1
  <2> HIDE DEF a
  <2>8. a = [k \in 1 .. n + 1 |-> a[k]]
    BY <2>1, <2>7
  <2>9. \A k \in 1 .. n + 1 : o[k].plus \o o[k].minus = a[k]
    <3> TAKE k \in 1 .. n + 1
    <3>1. CASE k = n + 1
      BY <2>6, <2>7, <3>1
    <3>2. CASE k # n + 1
      <4>1. k \in 1 .. n
        BY <2>1, <3>2
      <4> QED
        BY <2>4, <2>6, <2>7, <4>1
    <3> QED
      BY <3>1, <3>2
  <2> QED
    BY <2>5, <2>8, <2>9 DEF a
<1>10. Uniform(Taken(z), 2 * h) /\ Flat(Taken(z)) = Flat(T) \o x
  <2> DEFINE m == 2 * h
  <2>1. Uniform(T, m) /\ m \in Nat /\ x \in Seq(Origin) /\ Len(x) = m
    BY <1>1, <1>4, <1>5
  <2> HIDE DEF x, m
  <2>2. Uniform(Append(T, x), m) /\ Flat(Append(T, x)) = Flat(T) \o x
    BY ONLY <2>1, UniformAppend
  <2> QED
    BY <1>9, <2>2 DEF m
<1>11. Flat(T) \o pool = Flat(Taken(z)) \o rest
  <2> DEFINE u == Flat(T)
  <2>1. u \in Seq(Origin) /\ x \in Seq(Origin) /\ rest \in Seq(Origin)
    <3>1. Uniform(T, 2 * h)
      BY <1>1, <1>4
    <3> QED
      BY <1>4, <1>5, <3>1, FlatLength
  <2> HIDE DEF u, x
  <2>2. (u \o x) \o rest = u \o (x \o rest)
    BY ONLY <2>1, ConcatAssociative
  <2> QED
    BY <1>5, <1>10, <2>2 DEF u, x
<1>12. Len(rest) <= Capacity
  <2>1. Capacity \in Int /\ Len(pool) \in Nat
    BY <1>2, StreamsAssumption DEF Capacity
  <2> QED
    BY <1>2, <1>4, <1>5, <2>1
<1> QED
  BY <1>2, <1>4, <1>8, <1>10, <1>11, <1>12 DEF Samples

LEMMA SamplingStarts ==
    ASSUME NEW v \in 1 .. 16
    PROVE  Samples([job |-> "sample", v |-> v, draws |-> 0, pool |-> << >>, out |-> << >>])
<1> DEFINE s == [job |-> "sample", v |-> v, draws |-> 0, pool |-> << >>, out |-> << >>]
<1>1. s \in SamplerType /\ s.v = v /\ s.draws = 0 /\ s.pool = << >> /\ s.out = << >>
  BY DEF SamplerType
<1> HIDE DEF s
<1>2. Taken(s) = << >>
  BY <1>1 DEF Taken
<1>3. Uniform(<< >>, 4 * v)
  BY DEF Uniform, Pieces
<1>4. Flat(<< >>) \o << >> = << >>
  BY FlatEmpty
<1>5. Drawn(<< >>, 0)
  BY DEF Drawn
<1>6. Len(<< >>) <= Capacity
  BY StreamsAssumption DEF Capacity
<1> QED
  BY <1>1, <1>2, <1>3, <1>4, <1>5, <1>6 DEF Samples, s

-----------------------------------------------------------------------------
(* Either call, at every step *)

StreamInv == stream # NoStream => Transcodes(stream) \/ Samples(stream)

LEMMA StreamStep == ASSUME StreamInv, [StreamNext]_stream PROVE StreamInv'
<1>1. CASE UNCHANGED stream
  BY <1>1 DEF StreamInv
<1>2. ASSUME stream # NoStream, stream.job = "transcode" PROVE Transcodes(stream)
  BY <1>2 DEF StreamInv, Samples, SamplerType
<1>3. ASSUME stream # NoStream, stream.job = "sample" PROVE Samples(stream)
  BY <1>3 DEF StreamInv, Transcodes, TranscoderType
<1>4. ASSUME NEW n \in Widths, NEW len \in Lengths, SerializeVec(n, len) PROVE StreamInv'
  <2>1. n \in 1 .. WordBits /\ n \in 0 .. WordBits /\ n \in Nat /\ len \in Nat /\ ByteBits \in 1 .. WordBits
    BY StreamsAssumption
  <2>2. Uniform(Vector(len, n), n)
    BY <2>1, VectorIs
  <2>3. Transcodes(Transcoding(Vector(len, n), n, ByteBits, n))
    BY <2>1, <2>2, TranscodingStarts
  <2> QED
    BY <1>4, <2>3 DEF SerializeVec, StreamInv
<1>5. ASSUME NEW n \in Widths, NEW m \in Widths, NEW len \in Lengths, Bidirectional(n, m, len) PROVE StreamInv'
  <2>1. n \in 1 .. WordBits /\ n \in Nat /\ m \in 1 .. WordBits /\ len \in Nat /\ 0 \in 0 .. WordBits
    BY StreamsAssumption
  <2>2. Uniform(Vector(len, n), n)
    BY <2>1, VectorIs
  <2>3. Transcodes(Transcoding(Vector(len, n), n, m, 0))
    BY <2>1, <2>2, TranscodingStarts
  <2> QED
    BY <1>5, <2>3 DEF Bidirectional, StreamInv
<1>6. CASE TakeWord
  <2>1. Transcodes(stream)
    BY <1>2, <1>6 DEF TakeWord, IsTranscoding
  <2>2. Transcodes(stream')
    BY <1>6, <2>1, TranscoderTakes DEF TakeWord, IsTranscoding
  <2> QED
    BY <2>2 DEF StreamInv
<1>7. CASE EmitWord
  <2>1. Transcodes(stream)
    BY <1>2, <1>7 DEF EmitWord, IsTranscoding
  <2>2. Transcodes(stream')
    BY <1>7, <2>1, TranscoderEmits DEF EmitWord, IsTranscoding
  <2> QED
    BY <2>2 DEF StreamInv
<1>8. CASE Finish
  <2>1. Transcodes(stream)
    BY <1>2, <1>8 DEF Finish, IsTranscoding
  <2>2. Transcodes(stream')
    BY <1>8, <2>1, TranscoderFinishes DEF Finish, IsTranscoding
  <2> QED
    BY <2>2 DEF StreamInv
<1>9. CASE DeserializeVec
  <2>1. Transcodes(stream) /\ stream.back # 0
    BY <1>2, <1>9 DEF DeserializeVec
  <2>2. Uniform(stream.out, ByteBits) /\ stream.back \in 1 .. WordBits /\ 0 \in 0 .. WordBits
    BY <2>1, StreamsAssumption DEF Transcodes, TranscoderType
  <2>3. Transcodes(Transcoding(stream.out, ByteBits, stream.back, 0))
    BY <2>2, StreamsAssumption, TranscodingStarts
  <2> QED
    BY <1>9, <2>3 DEF DeserializeVec, StreamInv
<1>10. ASSUME NEW v \in Variances, StartSampling(v) PROVE StreamInv'
  <2>1. v \in 1 .. 16
    BY <1>10 DEF StartSampling
  <2>2. Samples(stream')
    BY <1>10, <2>1, SamplingStarts DEF StartSampling
  <2> QED
    BY <2>2 DEF StreamInv
<1>11. CASE Sample
  <2>1. Samples(stream)
    BY <1>3, <1>11 DEF Sample
  <2>2. Samples(stream')
    BY <1>11, <2>1, SamplerSamples DEF Sample
  <2> QED
    BY <2>2 DEF StreamInv
<1> QED
  BY <1>1, <1>4, <1>5, <1>6, <1>7, <1>8, <1>9, <1>10, <1>11 DEF StreamNext

LEMMA StreamAlways == StreamSpec => []StreamInv
<1>1. StreamInit => StreamInv
  BY DEF StreamInit, StreamInv
<1>2. StreamInv /\ [StreamNext]_stream => StreamInv'
  BY StreamStep
<1> QED
  BY <1>1, <1>2, PTL DEF StreamSpec

(* Transcoding loses no bit and invents none but the zeros of the last     *)
(* word (transcode_to_bytes, transcode_from_bytes and                      *)
(* transcode_bidirectional), for words of all widths and vectors of all    *)
(* lengths.                                                                *)
THEOREM TranscodingIsExact == StreamSpec => []TranscodesExactly
<1>1. StreamInv => TranscodesExactly
  <2> SUFFICES ASSUME StreamInv, stream # NoStream, stream.job = "transcode", stream.done
               PROVE  Transcoded(stream)
    BY DEF TranscodesExactly, Transcoded
  <2> QED
    BY DEF StreamInv, Transcodes, Samples, SamplerType
<1> QED
  BY <1>1, StreamAlways, PTL

(* No random bit is used twice and the pool does not overflow              *)
(* (sample_vec_cbd), for every variance allowed.                           *)
THEOREM SamplingIsIndependent == StreamSpec => []SamplesIndependent
<1>1. StreamInv => SamplesIndependent
  <2> SUFFICES ASSUME StreamInv, stream # NoStream, stream.job = "sample"
               PROVE  SamplesIndependent
    BY DEF SamplesIndependent
  <2>1. Samples(stream)
    BY DEF StreamInv, Transcodes, TranscoderType
  <2> DEFINE u == Flat(Taken(stream))
             n == 4 * stream.v
  <2>2. n \in Nat /\ stream.pool \in Seq(Origin)
    BY <2>1 DEF Samples, SamplerType
  <2>3. u \in Seq(Origin) /\ Len(u) = n * Len(stream.out)
    <3>1. Len(Taken(stream)) = Len(stream.out)
      BY <2>1 DEF Taken, Samples, SamplerType
    <3>2. Uniform(Taken(stream), n)
      BY <2>1 DEF Samples
    <3> QED
      BY <2>2, <3>1, <3>2, FlatLength
  <2>4. Drawn(u, stream.draws) /\ stream.draws \in Nat
    BY <2>1, <2>2, <2>3, DrawnFirst DEF Samples, SamplerType
  <2>5. u = Flat([k \in 1 .. Len(stream.out) |-> stream.out[k].plus \o stream.out[k].minus])
    BY DEF Taken
  <2>6. Len(stream.pool) <= Capacity
    BY <2>1 DEF Samples
  <2> HIDE DEF u
  <2>7. DOMAIN u = 1 .. Len(u)
    BY <2>3
  <2>8. \A i \in DOMAIN u : u[i] # Zero
    <3> TAKE i \in DOMAIN u
    <3>1. u[i] \in (1 .. stream.draws) \X (1 .. WordBits)
      BY <2>4, <2>7 DEF Drawn
    <3>2. u[i][1] \in 1 .. stream.draws
      BY <3>1
    <3>3. u[i][1] # 0
      BY <2>4, <3>2
    <3> QED
      BY <3>3 DEF Zero
  <2>9. \A i, j \in DOMAIN u : i # j => u[i] # u[j]
    BY <2>4, <2>7 DEF Drawn
  <2> QED
    BY <2>3, <2>5, <2>6, <2>8, <2>9 DEF SamplesIndependent
<1> QED
  BY <1>1, StreamAlways, PTL

-----------------------------------------------------------------------------
(* Polynomials over a chain of contexts *)

LEMMA ChainIs ==
    /\ Len(Chain) \in Nat \ {0} /\ DOMAIN Chain = 1 .. Len(Chain) /\ IsContext(Chain)
    /\ \A i \in 1 .. Len(Chain) :
          /\ Chain[i] \in Nat \ {0} /\ Chain[i] >= 2 /\ 4 * Chain[i] < B /\ NewModulusOk(Chain[i])
          /\ IsPrime(Chain[i]) /\ Chain[i] \in Word
          /\ ModulusOf[i] = NewModulus(Chain[i]) /\ ModulusOf[i].p = Chain[i]
          /\ \A j \in 1 .. Len(Chain) : i # j => Chain[j] % Chain[i] # 0
<1>1. IsContext(Chain)
  BY PolyAssumption DEF IsContext
<1>2. /\ Chain \in Seq(Nat \ {0}) /\ Len(Chain) \in Nat \ {0} /\ DOMAIN Chain = 1 .. Len(Chain)
      /\ \A i \in 1 .. Len(Chain) : Chain[i] \in Nat \ {0} /\ Chain[i] >= 2 /\ NewModulusOk(Chain[i])
  BY <1>1, ContextTypes
<1>3. ASSUME NEW i \in 1 .. Len(Chain)
      PROVE  /\ 4 * Chain[i] < B /\ IsPrime(Chain[i]) /\ Chain[i] \in Word
             /\ ModulusOf[i] = NewModulus(Chain[i]) /\ ModulusOf[i].p = Chain[i]
  <2>1. 4 * Chain[i] < B /\ Chain[i] \in Word
    BY <1>2, ModulusSize
  <2>2. ModulusOf[i] = NewModulus(Chain[i])
    BY <1>2 DEF ModulusOf
  <2>3. NewModulus(Chain[i]).p = Chain[i]
    BY DEF NewModulus
  <2> QED
    BY <1>2, <2>1, <2>2, <2>3, PolyAssumption
<1>4. ASSUME NEW i \in 1 .. Len(Chain), NEW j \in 1 .. Len(Chain), i # j
      PROVE  Chain[j] % Chain[i] # 0
  <2> DEFINE a == Chain[i]
             b == Chain[j]
  <2>1. a \in Nat /\ a >= 2 /\ a % a = 0
    BY <1>2
  <2>2. {d \in 2 .. a : a % d = 0 /\ b % d = 0} = {}
    BY <1>2, <1>4, PolyAssumption DEF RnsContextOk, Coprime
  <2> HIDE DEF a, b
  <2>3. b % a # 0
    BY <2>1, <2>2
  <2> QED
    BY <2>3 DEF a, b
<1> QED
  BY <1>1, <1>2, <1>3, <1>4

LEMMA ContextOf ==
    ASSUME NEW n \in 1 .. Len(Chain)
    PROVE  /\ ProductAt[n] \in Nat \ {0} /\ DOMAIN ChainOf[n] = 1 .. n
           /\ \A i \in 1 .. n : /\ i \in 1 .. Len(Chain) /\ ChainOf[n][i] = Chain[i]
                                /\ \E k \in Nat : ProductAt[n] = Chain[i] * k
<1> DEFINE c == ChainOf[n]
<1>1. Chain \in Seq(Nat) /\ Len(Chain) \in Nat \ {0} /\ DOMAIN Chain = 1 .. Len(Chain)
  BY ChainIs, PolyAssumption
<1>2. c = SubSeq(Chain, 1, n) /\ ProductAt[n] = ProductOf(c)
  BY <1>1 DEF ChainOf, ProductAt
<1>3. c \in Seq(Nat) /\ Len(c) = n /\ \A i \in 1 .. n : c[i] = Chain[i]
  BY <1>1, <1>2
<1> HIDE DEF c
<1>4. DOMAIN c = 1 .. n /\ c # << >>
  BY <1>3
<1>5. \A i \in 1 .. n : i \in 1 .. Len(Chain)
  BY <1>1
<1>6. RnsContextOk(c)
  BY <1>1, <1>3, <1>4, <1>5, PolyAssumption DEF RnsContextOk
<1>7. IsContext(c)
  BY <1>3, <1>6 DEF IsContext
<1>8. ProductOf(c) \in Nat \ {0}
  BY <1>7, ContextTypes
<1>9. ASSUME NEW i \in 1 .. n PROVE \E k \in Nat : ProductOf(c) = c[i] * k
  <2>1. QStar(c, i) \in Nat /\ ProductOf(c) = c[i] * QStar(c, i)
    BY <1>3, <1>7, StarUnit
  <2> QED
    BY <2>1
<1> QED
  BY <1>2, <1>3, <1>4, <1>5, <1>8, <1>9 DEF c

(* n rows hold the residues of a, below f times the moduli.                *)
Holding(rows, n, a, f) ==
    /\ rows \in Seq(Nat) /\ Len(rows) = n /\ a \in Int
    /\ \A i \in 1 .. n : rows[i] \in 0 .. f * Chain[i] - 1 /\ Same(rows[i], a, Chain[i])

LEMMA Rests ==
    ASSUME NEW n \in 1 .. Len(Chain), NEW a \in Int, NEW v,
           NEW rows, rows = [i \in 1 .. n |-> v[i]],
           \A i \in 1 .. n : v[i] \in Int /\ v[i] = v[i] % Chain[i] /\ Same(v[i], a, Chain[i])
    PROVE  Holding(rows, n, a, 1)
<1>1. n \in Nat /\ \A i \in 1 .. n : i \in 1 .. Len(Chain) /\ Chain[i] \in Nat \ {0}
  BY ChainIs
<1>2. ASSUME NEW i \in 1 .. n PROVE v[i] \in 0 .. 1 * Chain[i] - 1 /\ v[i] \in Nat
  <2> DEFINE p == Chain[i]
             x == v[i]
  <2>1. p \in Nat \ {0} /\ x \in Int /\ x = x % p
    BY <1>1
  <2> HIDE DEF p, x
  <2>2. 0 <= x /\ x < p
    BY ONLY <2>1, Remainder
  <2> QED
    BY <2>1, <2>2 DEF p, x
<1>3. rows \in Seq(Nat) /\ Len(rows) = n /\ \A i \in 1 .. n : rows[i] = v[i]
  BY <1>1, <1>2
<1> QED
  BY <1>2, <1>3 DEF Holding

(* What is true of a number is true of it modulo the product. *)
LEMMA ModuloProduct ==
    ASSUME NEW n \in 1 .. Len(Chain), NEW a, NEW rows, NEW f, Holding(rows, n, a, f)
    PROVE  Holding(rows, n, a % ProductAt[n], f)
<1> DEFINE q == ProductAt[n]
           b == a % q
<1>1. q \in Nat \ {0} /\ a \in Int
  BY ContextOf DEF Holding
<1> HIDE DEF q
<1>2. b \in Int /\ Same(b, a, q)
  BY <1>1, Remainder, SameMod
<1> HIDE DEF b
<1>3. ASSUME NEW i \in 1 .. n PROVE Same(rows[i], b, Chain[i])
  <2>1. PICK k \in Nat : q = Chain[i] * k
    BY ContextOf DEF q
  <2>2. PICK l \in Int : b = a + l * q
    BY <1>2 DEF Same
  <2> DEFINE p == Chain[i]
  <2>3. p \in Int
    BY ChainIs, ContextOf
  <2>4. Same(rows[i], a, p)
    BY DEF Holding
  <2> HIDE DEF p
  <2>5. a = b + (-(l * k)) * p /\ -(l * k) \in Int
    <3>1. q = p * k
      BY <2>1 DEF p
    <3> QED
      BY ONLY <1>1, <1>2, <2>2, <2>3, <3>1, k \in Nat, l \in Int
  <2>6. Same(a, b, p)
    BY <1>1, <1>2, <2>3, <2>5, IsSame
  <2> QED
    BY <2>3, <2>4, <2>6, SameTransitive DEF p
<1> QED
  BY <1>2, <1>3 DEF Holding, b, q

PolyHolds(u) ==
    /\ u.len \in 1 .. Len(Chain) /\ u.rep \in Representations /\ u.lazy \in BOOLEAN
    /\ Holding(u.rows, u.len, u.want, IF u.lazy THEN 4 ELSE 1)
    /\ u.lazy => u.rep = "Ntt"
    /\ u.rep = "NttShoup" => u.shoup = ShoupOf(u.rows)

PolyInv == poly # NoPoly => PolyHolds(poly)

LEMMA ReducedPolynomial ==
    ASSUME NEW n \in 1 .. Len(Chain), NEW rows, NEW a, Holding(rows, n, a, 1),
           NEW rep \in Representations, NEW vt
    PROVE  PolyHolds(Polynomial(rep, vt, rows, a))
<1> DEFINE u == Polynomial(rep, vt, rows, a)
<1>1. /\ u.len = Len(rows) /\ u.rep = rep /\ u.lazy = FALSE /\ u.rows = rows /\ u.want = a
      /\ u.shoup = IF rep = "NttShoup" THEN ShoupOf(rows) ELSE << >>
  BY DEF Polynomial
<1>2. Len(rows) = n
  BY DEF Holding
<1> HIDE DEF u
<1> QED
  BY <1>1, <1>2 DEF PolyHolds, u

LEMMA BecomesReduced ==
    ASSUME NEW n \in 1 .. Len(Chain), NEW rows, NEW a, Holding(rows, n, a, 1),
           NEW rep \in Representations, NEW vt, Become1(rep, vt, rows, a)
    PROVE  PolyInv'
<1>1. Len(rows) = n
  BY DEF Holding
<1>2. Holding(rows, n, a % ProductAt[n], 1)
  BY ModuloProduct
<1>3. poly' = Polynomial(rep, vt, rows, a % ProductAt[n])
  BY <1>1 DEF Become1
<1>4. PolyHolds(Polynomial(rep, vt, rows, a % ProductAt[n]))
  BY <1>2, ReducedPolynomial
<1> QED
  BY <1>3, <1>4 DEF PolyInv

(* The residues of a number. *)
LEMMA Residues1 ==
    ASSUME NEW n \in 1 .. Len(Chain), NEW a \in Int,
           NEW rows, rows = [i \in 1 .. n |-> a % Chain[i]]
    PROVE  Holding(rows, n, a, 1)
<1> DEFINE v == [i \in 1 .. n |-> a % Chain[i]]
<1>1. ASSUME NEW i \in 1 .. n PROVE v[i] \in Int /\ v[i] = v[i] % Chain[i] /\ Same(v[i], a, Chain[i])
  <2> DEFINE p == Chain[i]
             x == a % p
  <2>1. p \in Nat \ {0}
    BY ChainIs, ContextOf
  <2> HIDE DEF p
  <2>2. x \in Int /\ 0 <= x /\ x < p /\ Same(x, a, p)
    BY <2>1, Remainder, SameMod
  <2> HIDE DEF x
  <2>3. x % p = x
    BY <2>1, <2>2, OwnRemainder
  <2> QED
    BY <2>2, <2>3 DEF x, p
<1>2. rows = [i \in 1 .. n |-> v[i]]
  OBVIOUS
<1> HIDE DEF v
<1> QED
  BY <1>1, <1>2, Rests

LEMMA FromNumberKeeps ==
    ASSUME NEW level \in 0 .. Len(Chain), ContextAtLevelOk(level), NEW x \in 0 .. ProductAt[ContextAtLevel(level)] - 1,
           NEW rep \in Representations, NEW vt, FromNumber(level, x, rep, vt)
    PROVE  PolyInv'
<1> DEFINE n == ContextAtLevel(level)
           rows == Project(ChainOf[n], x)
<1>1. n \in 1 .. Len(Chain)
  BY ChainIs DEF ContextAtLevelOk, ContextAtLevel
<1> HIDE DEF n
<1>2. x \in Int /\ rows = [i \in 1 .. n |-> x % Chain[i]]
  <2>1. /\ ProductAt[n] \in Nat \ {0} /\ DOMAIN ChainOf[n] = 1 .. n
        /\ \A i \in 1 .. n : ChainOf[n][i] = Chain[i]
    BY <1>1, ContextOf
  <2>2. x \in 0 .. ProductAt[n] - 1
    BY DEF n
  <2>3. rows = [i \in DOMAIN ChainOf[n] |-> x % ChainOf[n][i]]
    BY DEF Project
  <2>4. x \in Int
    BY <2>1, <2>2
  <2> QED
    BY <2>1, <2>3, <2>4
<1>3. Holding(rows, n, x, 1)
  BY <1>1, <1>2, Residues1
<1>4. poly' = Polynomial(rep, vt, rows, x)
  BY DEF FromNumber, n
<1> HIDE DEF rows
<1>5. PolyHolds(Polynomial(rep, vt, rows, x))
  BY <1>1, <1>3, ReducedPolynomial
<1> QED
  BY <1>4, <1>5 DEF PolyInv

LEMMA FromWordKeeps ==
    ASSUME NEW a \in Int, NEW rows, rows = [i \in DOMAIN Chain |-> a % Chain[i]],
           NEW rep \in Representations, NEW vt,
           poly' = Polynomial(rep, vt, rows, a % ProductAt[Len(Chain)])
    PROVE  PolyInv'
<1> DEFINE n == Len(Chain)
<1>1. n \in 1 .. Len(Chain) /\ DOMAIN Chain = 1 .. n
  BY ChainIs
<1>2. Holding(rows, n, a, 1)
  BY <1>1, Residues1
<1>3. Holding(rows, n, a % ProductAt[n], 1)
  BY <1>1, <1>2, ModuloProduct
<1>4. PolyHolds(Polynomial(rep, vt, rows, a % ProductAt[n]))
  BY <1>1, <1>3, ReducedPolynomial
<1> QED
  BY <1>4 DEF PolyInv

LEMMA FromWordsKeep ==
    ASSUME NEW rep \in Representations, NEW vt,
           \/ \E a \in Word : FromWord(a, rep, vt)
           \/ \E a \in Integers64 : FromI64(a, rep, vt)
    PROVE  PolyInv'
<1>1. ASSUME NEW a \in Word, FromWord(a, rep, vt) PROVE PolyInv'
  <2>1. a \in Int
    BY WordTypes DEF Word
  <2>2. \A i \in DOMAIN Chain : Reduce(ModulusOf[i], a) = a % Chain[i]
    <3> TAKE i \in DOMAIN Chain
    <3>1. /\ Chain[i] \in Nat /\ NewModulusOk(Chain[i]) /\ ModulusOf[i] = NewModulus(Chain[i])
      BY ChainIs
    <3> QED
      BY <3>1, ReductionsExact
  <2> DEFINE rows == [i \in DOMAIN Chain |-> Reduce(ModulusOf[i], a)]
  <2>3. rows = [i \in DOMAIN Chain |-> a % Chain[i]]
    BY <2>2
  <2>4. poly' = Polynomial(rep, vt, rows, a % ProductAt[Len(Chain)])
    BY <1>1 DEF FromWord
  <2> HIDE DEF rows
  <2> QED
    BY <2>1, <2>3, <2>4, FromWordKeeps
<1>2. ASSUME NEW a \in Integers64, FromI64(a, rep, vt) PROVE PolyInv'
  <2>1. a \in Int /\ -B <= a /\ a < B
    BY WordTypes, PolyAssumption
  <2>2. \A i \in DOMAIN Chain : ReduceI64(ModulusOf[i], a) = a % Chain[i]
    <3> TAKE i \in DOMAIN Chain
    <3>1. /\ Chain[i] \in Nat /\ NewModulusOk(Chain[i]) /\ ModulusOf[i] = NewModulus(Chain[i])
      BY ChainIs
    <3> QED
      BY <2>1, <3>1, ReduceI64Exact
  <2> DEFINE rows == [i \in DOMAIN Chain |-> ReduceI64(ModulusOf[i], a)]
  <2>3. rows = [i \in DOMAIN Chain |-> a % Chain[i]]
    BY <2>2
  <2>4. poly' = Polynomial(rep, vt, rows, a % ProductAt[Len(Chain)])
    BY <1>2 DEF FromI64
  <2> HIDE DEF rows
  <2> QED
    BY <2>1, <2>3, <2>4, FromWordKeeps
<1> QED
  BY <1>1, <1>2

(* A lazy constant has entries below four moduli. *)
LEMMA ConstantKeeps ==
    ASSUME NEW a \in Word, CreateConstant(a)
    PROVE  PolyInv'
<1> DEFINE n == Len(Chain)
<1>1. n \in 1 .. Len(Chain) /\ n \in Nat /\ DOMAIN Chain = 1 .. n /\ a \in Int
  BY ChainIs, WordTypes DEF Word
<1>2. PICK over \in [DOMAIN Chain -> 0 .. 3] :
        poly' = [Polynomial("Ntt", TRUE, [i \in DOMAIN Chain |-> (a % Chain[i]) + over[i] * Chain[i]],
                            a % ProductAt[Len(Chain)]) EXCEPT !.lazy = TRUE]
  BY DEF CreateConstant
<1> DEFINE v == [i \in DOMAIN Chain |-> (a % Chain[i]) + over[i] * Chain[i]]
           u == poly'
<1>3. u = [Polynomial("Ntt", TRUE, v, a % ProductAt[n]) EXCEPT !.lazy = TRUE]
  BY <1>2
<1>4. ASSUME NEW i \in 1 .. n PROVE v[i] \in 0 .. 4 * Chain[i] - 1 /\ Same(v[i], a, Chain[i])
  <2> DEFINE p == Chain[i]
             x == a % p
             o == over[i]
             k == o
  <2>1. p \in Nat \ {0} /\ o \in 0 .. 3 /\ v[i] = x + o * p
    BY <1>1, ChainIs
  <2> HIDE DEF p
  <2>2. x \in Int /\ 0 <= x /\ x < p /\ Same(x, a, p)
    BY <1>1, <2>1, Remainder, SameMod
  <2> HIDE DEF x, o
  <2>3. x + o * p \in 0 .. 4 * p - 1 /\ x + o * p \in Int /\ o \in Int
    <3>1. o = 0 \/ o = 1 \/ o = 2 \/ o = 3
      BY <2>1
    <3> QED
      BY ONLY <2>1, <2>2, <3>1
  <2>4. Same(x + o * p, x, p)
    <3> DEFINE y == x + o * p
    <3>1. y \in Int /\ x \in Int /\ o \in Int /\ p \in Int /\ y = x + o * p
      BY <2>1, <2>2, <2>3
    <3> HIDE DEF y
    <3>2. Same(y, x, p)
      BY ONLY <3>1, IsSame
    <3> QED
      BY <3>2 DEF y
  <2>5. Same(x + o * p, a, p)
    BY <2>1, <2>2, <2>4, SameTransitive
  <2> QED
    BY <2>1, <2>3, <2>5 DEF p
<1>5. v \in Seq(Nat) /\ Len(v) = n
  <2>1. v = [i \in 1 .. n |-> v[i]]
    BY <1>1
  <2> HIDE DEF v
  <2>2. \A i \in 1 .. n : v[i] \in Nat
    BY <1>1, <1>4, ChainIs
  <2> QED
    BY <1>1, <2>1, <2>2
<1> HIDE DEF v
<1>6. Holding(v, n, a, 4)
  BY <1>1, <1>4, <1>5 DEF Holding
<1>7. Holding(v, n, a % ProductAt[n], 4)
  BY <1>1, <1>6, ModuloProduct
<1>8. u.len = n /\ u.rep = "Ntt" /\ u.lazy = TRUE /\ u.rows = v /\ u.want = a % ProductAt[n]
  BY <1>3, <1>5 DEF Polynomial
<1> HIDE DEF u
<1>9. PolyHolds(u)
  BY <1>1, <1>7, <1>8 DEF PolyHolds, Representations
<1> QED
  BY <1>9 DEF PolyInv, u

(* What a reduced polynomial is. *)
LEMMA ExactIs ==
    ASSUME PolyInv, Exact
    PROVE  /\ poly.len \in 1 .. Len(Chain) /\ poly.rep \in Representations
           /\ Holding(poly.rows, poly.len, poly.want, 1)
BY DEF PolyInv, PolyHolds, Exact, HasPoly

(* Any operation that takes each row to the residue of a number. *)
LEMMA RowsKeep ==
    ASSUME NEW n \in 1 .. Len(Chain), NEW a \in Int, NEW e, NEW rows, rows = [i \in 1 .. n |-> e[i]],
           \A i \in 1 .. n : e[i] = a % Chain[i],
           NEW rep \in Representations, NEW vt, Become1(rep, vt, rows, a)
    PROVE  PolyInv'
<1>1. rows = [i \in 1 .. n |-> a % Chain[i]]
  OBVIOUS
<1>2. Holding(rows, n, a, 1)
  BY <1>1, Residues1
<1> QED
  BY <1>2, BecomesReduced

(* The row of an operation of two polynomials. *)
LEMMA OperandRests ==
    ASSUME NEW n \in 1 .. Len(Chain), NEW b \in Int, NEW i \in 1 .. n
    PROVE  /\ Project(ChainOf[n], b)[i] = b % Chain[i]
           /\ b % Chain[i] \in 0 .. Chain[i] - 1 /\ Same(b % Chain[i], b, Chain[i])
<1> DEFINE p == Chain[i]
           x == b % p
<1>1. p \in Nat \ {0} /\ Project(ChainOf[n], b)[i] = x
  BY ChainIs, ContextOf DEF Project
<1> HIDE DEF p
<1>2. x \in Int /\ 0 <= x /\ x < p /\ Same(x, b, p)
  BY <1>1, Remainder, SameMod
<1>3. x \in 0 .. p - 1
  BY <1>1, <1>2
<1> QED
  BY <1>1, <1>2, <1>3 DEF p

RowAt(n, a, b, i, p, m, x, y) ==
    /\ p = Chain[i] /\ p \in Nat \ {0} /\ NewModulusOk(p) /\ m = NewModulus(p) /\ m.p = p
    /\ x \in 0 .. p - 1 /\ y \in 0 .. p - 1 /\ a \in Int /\ b \in Int
    /\ Same(x, a, p) /\ Same(y, b, p) /\ x \in Word

LEMMA RowAtIs ==
    ASSUME PolyInv, Exact, NEW b \in Int, NEW i \in 1 .. poly.len
    PROVE  RowAt(poly.len, poly.want, b, i, Chain[i], ModulusOf[i], poly.rows[i], Operand(b)[i])
<1> DEFINE n == poly.len
           a == poly.want
           p == Chain[i]
           x == poly.rows[i]
           y == Operand(b)[i]
<1>1. n \in 1 .. Len(Chain) /\ a \in Int /\ x \in 0 .. 1 * p - 1 /\ Same(x, a, p) /\ i \in 1 .. n
  BY ExactIs DEF Holding
<1> HIDE DEF n
<1>2. /\ p \in Nat \ {0} /\ NewModulusOk(p) /\ ModulusOf[i] = NewModulus(p) /\ ModulusOf[i].p = p
      /\ 4 * p < B
  BY <1>1, ChainIs, ContextOf
<1>3. y \in 0 .. p - 1 /\ Same(y, b, p)
  <2>1. Operand(b) = Project(ChainOf[n], b)
    BY DEF Operand, n
  <2> QED
    BY <1>1, <2>1, OperandRests
<1> HIDE DEF p, x, y, a
<1>4. x \in 0 .. p - 1 /\ x \in Word
  BY <1>1, <1>2, WordTypes DEF Word
<1> QED
  BY <1>1, <1>2, <1>3, <1>4 DEF RowAt, p, x, y, a, n

LEMMA RowSums ==
    ASSUME NEW n, NEW a, NEW b, NEW i, NEW p, NEW m, NEW x, NEW y, RowAt(n, a, b, i, p, m, x, y)
    PROVE  /\ Add(m, x, y) = (a + b) % p /\ Sub(m, x, y) = (a - b) % p /\ Neg(m, x) = (-a) % p
           /\ a + b \in Int /\ a - b \in Int /\ -a \in Int
<1>1. p \in Nat \ {0} /\ m.p = p /\ x \in 0 .. p - 1 /\ y \in 0 .. p - 1 /\ Same(x, a, p) /\ Same(y, b, p)
      /\ a \in Int /\ b \in Int /\ x \in Int /\ y \in Int /\ p \in Int
  BY DEF RowAt
<1>2. Add(m, x, y) = (x + y) % p /\ Sub(m, x, y) = (x - y) % p /\ Neg(m, x) = (-x) % p
  BY <1>1, SumsExact
<1>3. Same(x + y, a + b, p)
  BY <1>1, SameAdd
<1>4. Same(-x, -a, p)
  BY <1>1, SameNegated
<1>5. Same(-y, -b, p)
  BY <1>1, SameNegated
<1>6. Same(x + (-y), a + (-b), p)
  BY <1>1, <1>5, SameAdd
<1>7. Same(x - y, a - b, p)
  <2>1. x - y = x + (-y) /\ a - b = a + (-b)
    BY <1>1
  <2> QED
    BY <1>6, <2>1
<1>8. (x + y) % p = (a + b) % p
  BY <1>1, <1>3, SameEqual
<1>9. (x - y) % p = (a - b) % p
  BY <1>1, <1>7, SameEqual
<1>10. (-x) % p = (-a) % p
  BY <1>1, <1>4, SameEqual
<1> QED
  BY <1>1, <1>2, <1>8, <1>9, <1>10

LEMMA RowProducts ==
    ASSUME NEW a \in Int, NEW b \in Int, NEW p \in Nat \ {0}, NewModulusOk(p), NEW m, m = NewModulus(p),
           NEW x \in Word, NEW y \in 0 .. p - 1, Same(x, a, p), Same(y, b, p)
    PROVE  /\ MulShoup(m, x, y, Shoup(m, y)) = (a * b) % p
           /\ x \in 0 .. p - 1 => MulEntry(m, x, y) = (a * b) % p
<1>1. MulShoup(m, x, y, Shoup(m, y)) = (x * y) % p
  BY MulShoupExact
<1>2. x \in 0 .. p - 1 => MulEntry(m, x, y) = (x * y) % p
  BY ProductExact
<1>3. Same(x * y, a * b, p)
  BY SameTimes
<1>4. (x * y) % p = (a * b) % p
  BY <1>3, SameEqual
<1> QED
  BY <1>1, <1>2, <1>4

LEMMA SumsKeep ==
    ASSUME PolyInv, NEW b \in Nat, NEW vt, AddAssign(b, vt) \/ SubAssign(b, vt) \/ Negate
    PROVE  PolyInv'
<1>1. Exact
  BY DEF AddAssign, SubAssign, Negate
<1> DEFINE n == poly.len
           a == poly.want
<1>2. n \in 1 .. Len(Chain) /\ poly.rep \in Representations /\ a \in Int /\ b \in Int
  BY <1>1, ExactIs DEF Holding
<1>3. ASSUME NEW i \in 1 .. n
      PROVE  /\ Add(ModulusOf[i], poly.rows[i], Operand(b)[i]) = (a + b) % Chain[i]
             /\ Sub(ModulusOf[i], poly.rows[i], Operand(b)[i]) = (a - b) % Chain[i]
             /\ Neg(ModulusOf[i], poly.rows[i]) = (-a) % Chain[i]
  <2>1. RowAt(n, a, b, i, Chain[i], ModulusOf[i], poly.rows[i], Operand(b)[i])
    BY <1>1, <1>2, RowAtIs
  <2> QED
    BY <2>1, RowSums
<1>4. a + b \in Int /\ a - b \in Int /\ -a \in Int
  BY <1>2
<1>5. CASE AddAssign(b, vt)
  <2> DEFINE e == [i \in 1 .. n |-> Add(ModulusOf[i], poly.rows[i], Operand(b)[i])]
  <2>1. Become1(poly.rep, poly.vt \/ vt, e, a + b)
    BY <1>5 DEF AddAssign, Rows2
  <2>2. e = [i \in 1 .. n |-> e[i]] /\ \A i \in 1 .. n : e[i] = (a + b) % Chain[i]
    BY <1>3
  <2> HIDE DEF e
  <2> QED
    BY <1>2, <1>4, <2>1, <2>2, RowsKeep
<1>6. CASE SubAssign(b, vt)
  <2> DEFINE e == [i \in 1 .. n |-> Sub(ModulusOf[i], poly.rows[i], Operand(b)[i])]
  <2>1. Become1(poly.rep, poly.vt \/ vt, e, a - b)
    BY <1>6 DEF SubAssign, Rows2
  <2>2. e = [i \in 1 .. n |-> e[i]] /\ \A i \in 1 .. n : e[i] = (a - b) % Chain[i]
    BY <1>3
  <2> HIDE DEF e
  <2> QED
    BY <1>2, <1>4, <2>1, <2>2, RowsKeep
<1>7. CASE Negate
  <2> DEFINE e == [i \in 1 .. n |-> Neg(ModulusOf[i], poly.rows[i])]
  <2>1. Become1(poly.rep, poly.vt, e, -a)
    BY <1>7 DEF Negate
  <2>2. e = [i \in 1 .. n |-> e[i]] /\ \A i \in 1 .. n : e[i] = (-a) % Chain[i]
    BY <1>3
  <2> HIDE DEF e
  <2> QED
    BY <1>2, <1>4, <2>1, <2>2, RowsKeep
<1> QED
  BY <1>5, <1>6, <1>7

LEMMA ProductsKeep ==
    ASSUME PolyInv, NEW b \in Nat, NEW vt,
           MulAssign(b, vt) \/ MulAssignShoup(b, vt) \/ MulAssignNumber(b)
    PROVE  PolyInv'
<1>1. HasPoly /\ PolyHolds(poly)
  BY DEF MulAssign, MulAssignShoup, MulAssignNumber, Exact, HasPoly, PolyInv
<1> DEFINE n == poly.len
           a == poly.want
<1>2. n \in 1 .. Len(Chain) /\ poly.rep \in Representations /\ a \in Int /\ b \in Int
  BY <1>1 DEF PolyHolds, Holding
<1>3. a * b \in Int
  BY <1>2
<1>4. ASSUME NEW i \in 1 .. n
      PROVE  /\ MulShoup(ModulusOf[i], poly.rows[i], Operand(b)[i], Shoup(ModulusOf[i], Operand(b)[i]))
                    = (a * b) % Chain[i]
             /\ Exact => MulEntry(ModulusOf[i], poly.rows[i], Operand(b)[i]) = (a * b) % Chain[i]
  <2> DEFINE p == Chain[i]
             x == poly.rows[i]
             y == Operand(b)[i]
             f == IF poly.lazy THEN 4 ELSE 1
  <2>1. x \in 0 .. f * p - 1 /\ Same(x, a, p) /\ poly.lazy \in BOOLEAN
    BY <1>1 DEF PolyHolds, Holding
  <2>2. p \in Nat \ {0} /\ NewModulusOk(p) /\ ModulusOf[i] = NewModulus(p) /\ 4 * p < B
    BY <1>2, ChainIs, ContextOf
  <2>3. y \in 0 .. p - 1 /\ Same(y, b, p)
    BY <1>2, OperandRests DEF Operand
  <2> HIDE DEF p, x, y
  <2>4. x \in Word /\ (Exact => x \in 0 .. p - 1)
    <3>1. CASE poly.lazy
      BY <2>1, <2>2, <3>1, WordTypes DEF Word, Exact
    <3>2. CASE ~poly.lazy
      BY <2>1, <2>2, <3>2, WordTypes DEF Word, Exact
    <3> QED
      BY <3>1, <3>2
  <2>5. MulShoup(ModulusOf[i], x, y, Shoup(ModulusOf[i], y)) = (a * b) % p
    BY <1>2, <2>1, <2>2, <2>3, <2>4, RowProducts
  <2>6. Exact => MulEntry(ModulusOf[i], x, y) = (a * b) % p
    BY <1>2, <2>1, <2>2, <2>3, <2>4, RowProducts
  <2> QED
    BY <2>5, <2>6 DEF p, x, y
<1> DEFINE e == [i \in 1 .. n |-> MulShoup(ModulusOf[i], poly.rows[i], Operand(b)[i],
                                           Shoup(ModulusOf[i], Operand(b)[i]))]
           h == [i \in 1 .. n |-> MulEntry(ModulusOf[i], poly.rows[i], Operand(b)[i])]
<1>5. e = [i \in 1 .. n |-> e[i]] /\ \A i \in 1 .. n : e[i] = (a * b) % Chain[i]
  BY <1>4
<1>6. h = [i \in 1 .. n |-> h[i]] /\ (Exact => \A i \in 1 .. n : h[i] = (a * b) % Chain[i])
  BY <1>4
<1>7. CASE MulAssign(b, vt)
  <2>1. Become1("Ntt", poly.vt \/ vt, h, a * b) /\ Exact /\ "Ntt" \in Representations
    BY <1>7 DEF MulAssign, Rows2, Representations
  <2> HIDE DEF h, e
  <2> QED
    BY <1>2, <1>3, <1>6, <2>1, RowsKeep
<1>8. CASE MulAssignShoup(b, vt)
  <2>1. Become1("Ntt", poly.vt \/ vt, e, a * b) /\ "Ntt" \in Representations
    BY <1>8 DEF MulAssignShoup, Rows2, Representations
  <2> HIDE DEF h, e
  <2> QED
    BY <1>2, <1>3, <1>5, <2>1, RowsKeep
<1>9. CASE MulAssignNumber(b)
  <2>1. Become1(poly.rep, poly.vt, e, a * b)
    BY <1>9 DEF MulAssignNumber, Rows2
  <2> HIDE DEF h, e
  <2> QED
    BY <1>2, <1>3, <1>5, <2>1, RowsKeep
<1> QED
  BY <1>7, <1>8, <1>9

LEMMA SameRowsKeep ==
    ASSUME PolyInv, Exact, NEW rep \in Representations, NEW vt,
           Become1(rep, vt, poly.rows, poly.want)
    PROVE  PolyInv'
BY ExactIs, BecomesReduced

(* One row switched down: the last modulus is q, half of it h. *)
LEMMA SwitchedRow ==
    ASSUME NEW p \in Nat \ {0}, NewModulusOk(p), 4 * p < B, IsPrime(p), NEW m, m = NewModulus(p), m.p = p,
           NEW q \in Nat \ {0}, q \in Word, q % p # 0, NEW h \in Word, NEW a \in Int,
           NEW last \in Word, last = (a + h) % q,
           NEW x \in 0 .. p - 1, Same(x, a, p),
           NEW v, v = InverseOf(m, Reduce(m, q)),
           NEW c, c = (x + 3 * p - (LazyReduce(m, last) + (p - Reduce(m, h)))) % B
    PROVE  MulShoup(m, c, v, Shoup(m, v)) = ((a + h) \div q) % p
<1> DEFINE d == (a + h) \div q
           l == LazyReduce(m, last)
           g == Reduce(m, h)
           y == x + 3 * p - (l + (p - g))
<1>1. B \in Nat \ {0} /\ h \in Int /\ last \in Int /\ x \in Int /\ p \in Int /\ q \in Int
  BY WordTypes DEF Word
<1>2. d \in Int /\ a + h = d * q + last
  BY <1>1, Remainder
<1> HIDE DEF d
<1>3. l \in 0 .. 2 * p - 1 /\ Same(l, last, p)
  <2>1. LazyOf(l, last, p)
    BY LazyReduceExact
  <2>2. l \in 0 .. 2 * p - 1 /\ l % p = last % p
    BY <2>1 DEF LazyOf
  <2> HIDE DEF l
  <2>3. l \in Int /\ Same(l % p, l, p) /\ Same(last % p, last, p)
    <3>1. l \in Int
      BY <1>1, <2>2
    <3> QED
      BY <1>1, <3>1, SameMod
  <2>4. Same(l, l % p, p)
    BY <1>1, <2>3, SameSymmetric
  <2> QED
    BY <1>1, <2>2, <2>3, <2>4, SameTransitive
<1>4. g \in 0 .. p - 1 /\ Same(g, h, p)
  <2>1. g = h % p
    BY ReductionsExact
  <2> HIDE DEF g
  <2>2. h % p \in Int /\ 0 <= h % p /\ h % p < p /\ Same(h % p, h, p)
    BY <1>1, Remainder, SameMod
  <2> QED
    BY <2>1, <2>2
<1> HIDE DEF l, g
<1>5. y \in 0 .. 4 * p - 1 /\ y \in Int
  BY <1>1, <1>3, <1>4
<1>6. c = y /\ c \in Word
  <2>1. 0 <= y /\ y < B /\ c = y % B
    BY <1>1, <1>5 DEF l, g
  <2> HIDE DEF y
  <2>2. y % B = y
    BY <1>1, <1>5, <2>1, OwnRemainder
  <2> QED
    BY <1>1, <1>5, <2>1, <2>2 DEF Word
<1>7. Same(y, d * q, p)
  <2>1. PICK i \in Int : l = last + i * p
    BY <1>3 DEF Same
  <2>2. PICK j \in Int : g = h + j * p
    BY <1>4 DEF Same
  <2>3. PICK k \in Int : x = a + k * p
    BY DEF Same
  <2> DEFINE z == d * q
             u == 3 - 1 + k + j - i
             ip == i * p
             jp == j * p
             kp == k * p
             up == u * p
  <2>4. z \in Int /\ u \in Int /\ a + h = z + last /\ ip \in Int /\ jp \in Int /\ kp \in Int
    BY <1>1, <1>2
  <2>5. up = 2 * p + kp + jp - ip
    BY <1>1
  <2>6. l = last + ip /\ g = h + jp /\ x = a + kp /\ l \in Int /\ g \in Int
    BY <1>3, <1>4, <2>1, <2>2, <2>3
  <2> HIDE DEF z, u, ip, jp, kp, up
  <2>7. x + 3 * p - (l + (p - g)) = z + up
    BY ONLY <1>1, <2>4, <2>5, <2>6, a \in Int
  <2>8. y = z + u * p
    BY <2>7 DEF y, up
  <2> HIDE DEF y
  <2>9. Same(y, z, p)
    BY <1>1, <1>5, <2>4, <2>8, IsSame
  <2> QED
    BY <2>9 DEF z
<1>8. v \in 0 .. p - 1 /\ Same(q * v, 1, p)
  <2> DEFINE r == q % p
  <2>1. Reduce(m, q) = r
    BY ReductionsExact
  <2>2. r \in Int /\ 0 <= r /\ r < p /\ Same(r, q, p) /\ r # 0
    BY <1>1, Remainder, SameMod
  <2> HIDE DEF r
  <2>3. r \in 0 .. p - 1 /\ InverseOk(m, r)
    BY <1>1, <2>2 DEF InverseOk
  <2>4. v \in 0 .. p - 1 /\ (v * r) % p = 1
    BY <2>1, <2>3, InverseExact
  <2>5. Same(v * r, 1, p)
    <3> DEFINE w == v * r
    <3>1. w \in Int /\ w % p = 1
      BY <2>2, <2>4
    <3> HIDE DEF w
    <3>2. Same(w % p, w, p)
      BY <3>1, SameMod
    <3> QED
      BY <1>1, <3>1, <3>2, SameSymmetric DEF w
  <2>6. Same(v * r, v * q, p)
    BY <1>1, <2>2, <2>4, SameScaled
  <2>7. Same(v * q, v * r, p)
    BY <1>1, <2>6, SameSymmetric
  <2>8. Same(v * q, 1, p) /\ v * q = q * v
    BY <1>1, <2>4, <2>5, <2>7, SameTransitive
  <2> QED
    BY <2>4, <2>8
<1> HIDE DEF y
<1>9. Same(y * v, d, p)
  <2>1. Same(v * y, v * (d * q), p)
    BY <1>1, <1>7, <1>8, SameScaled
  <2>2. Same(d * (q * v), d * 1, p)
    BY <1>1, <1>2, <1>8, SameScaled
  <2>3. v * (d * q) = d * (q * v) /\ v * y = y * v /\ d * 1 = d
    BY <1>1, <1>2, <1>5, <1>8
  <2> QED
    BY <1>1, <2>1, <2>2, <2>3, SameTransitive
<1>10. MulShoup(m, c, v, Shoup(m, v)) = (c * v) % p
  BY <1>6, <1>8, MulShoupExact
<1>11. (y * v) % p = d % p
  BY <1>9, SameEqual
<1> QED
  BY <1>6, <1>10, <1>11 DEF d

(* Poly::switch_down divides by the last modulus and rounds. *)
LEMMA SwitchedHolds ==
    ASSUME NEW n \in 1 .. Len(Chain), n + 1 \in 1 .. Len(Chain), NEW rows, NEW a, Holding(rows, n + 1, a, 1)
    PROVE  Holding(SwitchedRows(rows), n, Nearest(a, Chain[n + 1]) % ProductAt[n], 1)
<1> DEFINE q == Chain[n + 1]
           h == q \div 2
           last == Add(ModulusOf[n + 1], rows[n + 1], h)
           d == (a + h) \div q
           e == [i \in 1 .. n |->
                   LET m == ModulusOf[i]
                       tmp == LazyReduce(m, last) + (m.p - Reduce(m, h))
                       c == (rows[i] + 3 * m.p - tmp) % B
                   IN  MulShoup(m, c, InvLast[n + 1][i], Shoup(m, InvLast[n + 1][i]))]
<1>1. Len(rows) = n + 1 /\ a \in Int /\ n \in Nat /\ n + 1 \in Nat /\ (n + 1) - 1 = n
  BY DEF Holding
<1>2. SwitchedRows(rows) = e
  BY <1>1 DEF SwitchedRows
<1>3. /\ q \in Nat \ {0} /\ q >= 2 /\ q \in Word /\ ModulusOf[n + 1].p = q /\ 4 * q < B
      /\ \A i \in 1 .. n : q % Chain[i] # 0
  <2>1. \A i \in 1 .. n : i \in 1 .. Len(Chain) /\ i # n + 1
    BY <1>1, ContextOf
  <2> QED
    BY <2>1, ChainIs
<1>4. h \in 0 .. q - 1 /\ h \in Word /\ h \in Int
  <2>1. h \in Int /\ 0 <= h /\ h <= q - 1
    BY <1>3
  <2> HIDE DEF h, q
  <2> QED
    BY <1>3, <2>1, WordTypes DEF Word
<1>5. n + 1 \in 1 .. n + 1 /\ rows[n + 1] \in 0 .. q - 1 /\ Same(rows[n + 1], a, q)
  <2>1. n + 1 \in 1 .. n + 1
    BY <1>1
  <2>2. rows[n + 1] \in 0 .. 1 * q - 1 /\ Same(rows[n + 1], a, q)
    BY <2>1 DEF Holding
  <2> HIDE DEF q
  <2> QED
    BY <1>3, <2>1, <2>2
<1>6. last = (a + h) % q /\ last \in Word
  <2> DEFINE x == rows[n + 1]
             m == ModulusOf[n + 1]
  <2>1. x \in 0 .. q - 1 /\ Same(x, a, q) /\ m.p = q /\ x \in Int
    BY <1>3, <1>5
  <2> HIDE DEF q, h, x, m
  <2>2. Add(m, x, h) = (x + h) % q
    BY <1>3, <1>4, <2>1, SumsExact
  <2>3. Same(x + h, a + h, q)
    BY <1>3, <1>4, <2>1, SameReflexive, SameAdd
  <2>4. (x + h) % q = (a + h) % q
    BY <1>3, <2>3, SameEqual
  <2>5. a + h \in Int
    BY <1>1, <1>4
  <2>6. (a + h) % q \in Int /\ 0 <= (a + h) % q /\ (a + h) % q < q
    BY <1>3, <2>5, Remainder
  <2>7. (a + h) % q \in Word
    BY <1>3, <2>6, WordTypes DEF Word
  <2> QED
    BY <2>2, <2>4, <2>7 DEF x, m
<1>7. d \in Int
  <2> DEFINE z == a + h
  <2>1. z \in Int
    BY <1>1, <1>4
  <2> HIDE DEF z, q
  <2>2. z \div q \in Int
    BY <1>3, <2>1, Remainder
  <2> QED
    BY <2>2 DEF z
<1> HIDE DEF last, h, d
<1>8. ASSUME NEW i \in 1 .. n PROVE e[i] = d % Chain[i]
  <2> DEFINE p == Chain[i]
             m == ModulusOf[i]
             x == rows[i]
             v == InvLast[n + 1][i]
             c == (x + 3 * p - (LazyReduce(m, last) + (p - Reduce(m, h)))) % B
  <2>1. i \in 1 .. n + 1 /\ i \in 1 .. Len(Chain) /\ DOMAIN Chain = 1 .. Len(Chain)
    BY <1>1, ContextOf, ChainIs
  <2>2. /\ p \in Nat \ {0} /\ NewModulusOk(p) /\ 4 * p < B /\ IsPrime(p)
        /\ m = NewModulus(p) /\ m.p = p /\ q % p # 0
    BY <1>3, <2>1, ChainIs
  <2>3. x \in 0 .. 1 * p - 1 /\ Same(x, a, p)
    BY <2>1 DEF Holding
  <2>4. v = InverseOf(m, Reduce(m, q))
    BY <1>1, <2>1 DEF InvLast
  <2>5. e[i] = MulShoup(m, c, v, Shoup(m, v))
    BY <2>2
  <2> HIDE DEF e, p, m, x, v, q
  <2>6. x \in 0 .. p - 1
    BY <2>2, <2>3
  <2> HIDE DEF c
  <2>7. c = (x + 3 * p - (LazyReduce(m, last) + (p - Reduce(m, h)))) % B
    BY DEF c
  <2>8. MulShoup(m, c, v, Shoup(m, v)) = ((a + h) \div q) % p
    BY <1>1, <1>3, <1>4, <1>6, <2>2, <2>3, <2>4, <2>6, <2>7, SwitchedRow
  <2> QED
    BY <2>5, <2>8 DEF d, p
<1>9. e = [i \in 1 .. n |-> e[i]]
  OBVIOUS
<1> HIDE DEF e
<1>10. e = [i \in 1 .. n |-> d % Chain[i]]
  BY <1>8, <1>9
<1>11. Holding(e, n, d, 1)
  BY <1>7, <1>10, Residues1
<1>12. Holding(e, n, d % ProductAt[n], 1)
  BY <1>11, ModuloProduct
<1> QED
  BY <1>2, <1>12 DEF Nearest, d, h, q

(* A number and its rows in a context of the chain. *)
State(r) == \E n \in 1 .. Len(Chain) : Holding(r.rows, n, r.want, 1)

Downward(f, rows, a, n, to) ==
    f = [k \in to .. n |->
            IF k = n THEN [rows |-> rows, want |-> a]
            ELSE [rows |-> SwitchedRows(f[k + 1].rows),
                  want |-> Nearest(f[k + 1].want, Chain[k + 1]) % ProductAt[k]]]

LEMMA DownwardExists ==
    ASSUME NEW n \in 1 .. Len(Chain), NEW to \in 1 .. n, NEW rows, NEW a, Holding(rows, n, a, 1)
    PROVE  \E f : Downward(f, rows, a, n, to)
<1> DEFINE R == [rows : Seq(Nat), want : Int]
           S == {r \in R : State(r)}
           first == [rows |-> rows, want |-> a]
           Down(r) == [rows |-> SwitchedRows(r.rows),
                       want |-> Nearest(r.want, Chain[Len(r.rows)]) % ProductAt[Len(r.rows) - 1]]
           Next1(r) == IF Len(r.rows) = 1 THEN r ELSE Down(r)
           M == n - to
           step == [z \in (1 .. M) \X S |-> Next1(z[2])]
<1>1. M \in Nat /\ n \in Nat /\ to \in Nat /\ to >= 1 /\ n = M + to /\ n <= Len(Chain) /\ Len(Chain) \in Nat
  BY ChainIs
<1>2. first \in S
  <2>1. rows \in Seq(Nat) /\ a \in Int /\ first.rows = rows /\ first.want = a
    BY DEF Holding
  <2> QED
    BY <2>1 DEF State
<1>3. ASSUME NEW r \in S, NEW k \in 1 .. Len(Chain), k # 1, Len(r.rows) = k
      PROVE  /\ k - 1 \in 1 .. Len(Chain) /\ Down(r) \in R /\ Len(Down(r).rows) = k - 1
             /\ Holding(Down(r).rows, k - 1, Down(r).want, 1)
  <2>1. PICK m \in 1 .. Len(Chain) : Holding(r.rows, m, r.want, 1)
    BY DEF State
  <2>2. m = k
    BY <1>3, <2>1 DEF Holding
  <2> DEFINE l == k - 1
             u == SwitchedRows(r.rows)
             b == Nearest(r.want, Chain[k]) % ProductAt[l]
  <2>3. l \in 1 .. Len(Chain) /\ l + 1 = k /\ l + 1 \in 1 .. Len(Chain)
    BY <1>1, <1>3
  <2> HIDE DEF l
  <2>4. Holding(u, l, b, 1)
    BY <2>1, <2>2, <2>3, SwitchedHolds
  <2>5. Down(r) = [rows |-> u, want |-> b]
    BY <1>3 DEF l
  <2> HIDE DEF u, b, Down
  <2>6. u \in Seq(Nat) /\ b \in Int /\ Len(u) = l
    BY <2>4 DEF Holding
  <2> QED
    BY <2>3, <2>4, <2>5, <2>6 DEF l
<1> HIDE DEF Down
<1>4. ASSUME NEW r \in S PROVE Next1(r) \in S
  <2>1. PICK m \in 1 .. Len(Chain) : Holding(r.rows, m, r.want, 1)
    BY DEF State
  <2>2. Len(r.rows) = m
    BY <2>1 DEF Holding
  <2>3. CASE m = 1
    BY <2>2, <2>3
  <2>4. CASE m # 1
    <3>1. Down(r) \in R /\ State(Down(r))
      BY <1>3, <2>2, <2>4 DEF State
    <3> QED
      BY <2>2, <2>4, <3>1
  <2> QED
    BY <2>3, <2>4
<1>5. step \in [(1 .. M) \X S -> S]
  BY <1>4
<1>6. \A k \in 1 .. M, r \in S : step[<< k, r >>] = Next1(r)
  OBVIOUS
<1> HIDE DEF step, S, Next1, first
<1>7. PICK g \in [0 .. M -> S] : Steps(g, M, first, step)
  BY <1>1, <1>2, <1>5, RecursionExists
<1>8. g[0] = first /\ \A k \in 1 .. M : k - 1 \in 0 .. M /\ g[k - 1] \in S /\ g[k] = Next1(g[k - 1])
  <2>1. \A k \in 1 .. M : k - 1 \in 0 .. M
    BY <1>1
  <2> QED
    BY <1>6, <1>7, <2>1 DEF Steps
<1>9. \A k \in 0 .. M : g[k] \in S /\ Len(g[k].rows) = n - k
  <2> DEFINE U == {k \in 0 .. M : Len(g[k].rows) = n - k}
  <2>1. 0 \in U
    <3>1. Len(rows) = n /\ n - 0 = n /\ 0 \in 0 .. M
      BY <1>1 DEF Holding
    <3> QED
      BY <1>8, <3>1 DEF first
  <2>2. ASSUME NEW k \in 0 .. M - 1, k \in U PROVE k + 1 \in U
    <3>1. k + 1 \in 1 .. M /\ k + 1 \in 0 .. M /\ (k + 1) - 1 = k /\ n - k \in 1 .. Len(Chain) /\ n - k # 1
          /\ (n - k) - 1 = n - (k + 1)
      BY <1>1
    <3>2. g[k + 1] = Next1(g[k]) /\ g[k] \in S /\ Len(g[k].rows) = n - k
      BY <1>8, <2>2, <3>1
    <3>3. Next1(g[k]) = Down(g[k])
      BY <3>1, <3>2 DEF Next1
    <3>4. Len(Down(g[k]).rows) = (n - k) - 1
      BY <1>3, <3>1, <3>2
    <3> QED
      BY <3>1, <3>2, <3>3, <3>4
  <2> HIDE DEF U
  <2>3. \A k \in 0 .. M : k \in U
    BY <1>1, <2>1, <2>2, InductionUpTo
  <2> QED
    BY <1>7, <2>3 DEF U
<1> DEFINE f == [k \in to .. n |-> g[n - k]]
<1>10. ASSUME NEW k \in to .. n
       PROVE  f[k] = IF k = n THEN first ELSE [rows |-> SwitchedRows(f[k + 1].rows),
                  want |-> Nearest(f[k + 1].want, Chain[k + 1]) % ProductAt[k]]
  <2>1. CASE k = n
    <3>1. n - k = 0
      BY <1>1, <2>1
    <3> QED
      BY <1>8, <2>1, <3>1
  <2>2. CASE k # n
    <3> DEFINE j == n - (k + 1)
    <3>1. k + 1 \in to .. n /\ n - k \in 1 .. M /\ (n - k) - 1 = j /\ j \in 0 .. M /\ n - j = k + 1 /\ k + 1 # 1
          /\ (k + 1) - 1 = k /\ n - k = j + 1
      BY <1>1, <2>2
    <3>2. f[k] = g[n - k] /\ f[k + 1] = g[j]
      BY <3>1
    <3> HIDE DEF f, j
    <3>3. g[n - k] = Next1(g[j]) /\ Len(g[j].rows) = k + 1
      BY <1>8, <1>9, <3>1
    <3>4. Next1(g[j]) = Down(g[j])
      BY <3>1, <3>3 DEF Next1
    <3>5. Down(g[j]) = [rows |-> SwitchedRows(g[j].rows),
                        want |-> Nearest(g[j].want, Chain[k + 1]) % ProductAt[k]]
      BY <3>1, <3>3 DEF Down
    <3> QED
      BY <2>2, <3>2, <3>3, <3>4, <3>5
  <2> QED
    BY <2>1, <2>2
<1>11. f = [k \in to .. n |-> f[k]]
  OBVIOUS
<1> HIDE DEF f
<1>12. Downward(f, rows, a, n, to)
  BY <1>10, <1>11 DEF Downward, first
<1> QED
  BY <1>12

LEMMA SwitchDownKeeps ==
    ASSUME PolyInv, NEW to \in DOMAIN Chain, SwitchDownTo(to)
    PROVE  PolyInv'
<1> DEFINE n == poly.len
           E(f) == Downward(f, poly.rows, poly.want, n, to)
           w == CHOOSE f : E(f)
<1>1. /\ Exact /\ to < n /\ n \in 1 .. Len(Chain) /\ Holding(poly.rows, n, poly.want, 1)
      /\ DOMAIN Chain = 1 .. Len(Chain) /\ Len(Chain) \in Nat
  BY ExactIs, ChainIs, ZenonT(60) DEF SwitchDownTo
<1>2. Become1("PowerBasis", poly.vt, w[to].rows, w[to].want)
  BY DEF SwitchDownTo, Downward
<1>3. to \in 1 .. n /\ n \in Nat /\ to \in Nat /\ n - to \in Nat
  BY <1>1
<1> HIDE DEF n
<1>4. \E f : E(f)
  BY <1>1, <1>3, DownwardExists
<1> HIDE DEF E
<1>5. E(w)
  BY <1>4
<1> HIDE DEF w
<1>6. \A k \in 0 .. n - to : Holding(w[n - k].rows, n - k, w[n - k].want, 1)
  <2> DEFINE U == {k \in 0 .. n - to : Holding(w[n - k].rows, n - k, w[n - k].want, 1)}
  <2>0. /\ w[n] = [rows |-> poly.rows, want |-> poly.want]
        /\ \A k \in to .. n : k # n =>
              w[k] = [rows |-> SwitchedRows(w[k + 1].rows),
                      want |-> Nearest(w[k + 1].want, Chain[k + 1]) % ProductAt[k]]
    <3>1. w = [k \in to .. n |->
                  IF k = n THEN [rows |-> poly.rows, want |-> poly.want]
                  ELSE [rows |-> SwitchedRows(w[k + 1].rows),
                        want |-> Nearest(w[k + 1].want, Chain[k + 1]) % ProductAt[k]]]
      BY <1>5 DEF E, Downward
    <3>2. n \in to .. n
      BY <1>3
    <3> HIDE DEF U
    <3> QED
      BY ONLY <3>1, <3>2
  <2>1. 0 \in U
    <3>1. n - 0 = n /\ 0 \in 0 .. n - to
      BY <1>3
    <3> QED
      BY <1>1, <2>0, <3>1
  <2>2. ASSUME NEW k \in 0 .. (n - to) - 1, k \in U PROVE k + 1 \in U
    <3> DEFINE j == n - (k + 1)
    <3>1. /\ k + 1 \in 0 .. n - to /\ j \in 1 .. Len(Chain) /\ j + 1 \in 1 .. Len(Chain) /\ j + 1 = n - k
          /\ j \in to .. n /\ j # n
      BY <1>1, <1>3
    <3>2. Holding(w[j + 1].rows, j + 1, w[j + 1].want, 1)
      BY <2>2, <3>1
    <3>3. w[j] = [rows |-> SwitchedRows(w[j + 1].rows),
                  want |-> Nearest(w[j + 1].want, Chain[j + 1]) % ProductAt[j]]
      BY <2>0, <3>1
    <3> HIDE DEF j
    <3>4. Holding(w[j].rows, j, w[j].want, 1)
      BY <3>1, <3>2, <3>3, SwitchedHolds
    <3> QED
      BY <3>1, <3>4 DEF j
  <2> HIDE DEF U
  <2>3. \A k \in 0 .. n - to : k \in U
    BY <1>3, <2>1, <2>2, InductionUpTo
  <2> QED
    BY <2>3 DEF U
<1>7. Holding(w[to].rows, to, w[to].want, 1)
  <2>1. n - to \in 0 .. n - to /\ n - (n - to) = to
    BY <1>3
  <2> QED
    BY <1>6, <2>1
<1>8. "PowerBasis" \in Representations /\ to \in 1 .. Len(Chain)
  BY <1>1 DEF Representations
<1> QED
  BY <1>2, <1>7, <1>8, BecomesReduced, SMTT(60)

LEMMA PolyStep == ASSUME PolyInv, [PolyNext]_poly PROVE PolyInv'
<1>1. CASE UNCHANGED poly
  BY <1>1 DEF PolyInv
<1>2. ASSUME NEW rep \in Representations, NEW vt \in BOOLEAN, NEW level \in 0 .. Len(Chain),
             ContextAtLevelOk(level), NEW x \in 0 .. ProductAt[ContextAtLevel(level)] - 1,
             FromNumber(level, x, rep, vt)
      PROVE  PolyInv'
  BY <1>2, FromNumberKeeps
<1>3. ASSUME NEW rep \in Representations, NEW vt \in BOOLEAN,
             (\E a \in Word : FromWord(a, rep, vt)) \/ (\E a \in Integers64 : FromI64(a, rep, vt))
      PROVE  PolyInv'
  BY <1>3, FromWordsKeep
<1>4. ASSUME NEW a \in Word, CreateConstant(a) PROVE PolyInv'
  BY <1>4, ConstantKeeps
<1>5. ASSUME NEW rep \in Representations, NEW vt \in BOOLEAN, NEW len \in DOMAIN Chain,
             WriteAndRead(len, rep, vt)
      PROVE  PolyInv'
  BY <1>5, SameRowsKeep DEF WriteAndRead
<1>6. ASSUME NEW rep \in Representations, Into(rep) PROVE PolyInv'
  BY <1>6, SameRowsKeep DEF Into
<1>7. ASSUME NEW b \in Numbers, NEW vt \in BOOLEAN,
             \/ AddAssign(b, vt) \/ SubAssign(b, vt) \/ MulAssign(b, vt) \/ MulAssignShoup(b, vt)
             \/ MulAssignNumber(b)
      PROVE  PolyInv'
  <2>1. b \in Nat
    BY PolyAssumption
  <2> QED
    BY <1>7, <2>1, SumsKeep, ProductsKeep
<1>8. CASE Negate
  BY <1>8, SumsKeep
<1>9. ASSUME NEW to \in DOMAIN Chain, SwitchDownTo(to) PROVE PolyInv'
  BY <1>9, SwitchDownKeeps
<1>10. CASE PolyNext
  <2>1. TRUE \in BOOLEAN
    OBVIOUS
  <2> QED
    BY <1>2, <1>3, <1>4, <1>5, <1>6, <1>7, <1>8, <1>9, <1>10, <2>1 DEF PolyNext
<1> QED
  BY <1>1, <1>10

LEMMA PolyAlways == PolySpec => []PolyInv
<1>1. PolyInit => PolyInv
  BY DEF PolyInit, PolyInv
<1>2. PolyInv /\ [PolyNext]_poly => PolyInv'
  BY PolyStep
<1> QED
  BY <1>1, <1>2, PTL DEF PolySpec

(* Operations on polynomials are those on numbers modulo the product of    *)
(* the moduli, row by row, and switching down rounds to the nearest at     *)
(* every modulus (Poly, switch_down), for every chain of primes, operands  *)
(* and sequence of operations; only lazy constants are not reduced.        *)
THEOREM PolynomialsAreExact == PolySpec => []PolyExact
<1>1. PolyInv => PolyExact
  <2> SUFFICES ASSUME PolyInv, poly # NoPoly PROVE PolyExact
    BY DEF PolyExact
  <2>1. PolyHolds(poly)
    BY DEF PolyInv
  <2>2. ASSUME NEW i \in 1 .. poly.len
        PROVE  /\ poly.rows[i] % Chain[i] = poly.want % Chain[i]
               /\ poly.rows[i] < (IF poly.lazy THEN 4 ELSE 1) * Chain[i]
    <3> DEFINE x == poly.rows[i]
               p == Chain[i]
               f == IF poly.lazy THEN 4 ELSE 1
    <3>1. x \in 0 .. f * p - 1 /\ Same(x, poly.want, p) /\ poly.len \in 1 .. Len(Chain) /\ f \in Nat
      BY <2>1 DEF PolyHolds, Holding
    <3>2. p \in Nat \ {0}
      BY <3>1, ContextOf, ChainIs
    <3> HIDE DEF x, p, f
    <3>3. x % p = poly.want % p
      BY <3>1, <3>2, SameEqual
    <3>4. x < f * p
      BY <3>1, <3>2
    <3> QED
      BY <3>3, <3>4 DEF x, p, f
  <2> QED
    BY <2>1, <2>2 DEF PolyExact, PolyHolds
<1> QED
  BY <1>1, PolyAlways, PTL

-----------------------------------------------------------------------------
(* The routines side by side *)

LEMMA EachByItself ==
    Spec => EntrySpec /\ RowSpec /\ SlotsSpec /\ StreamSpec /\ PolySpec /\ DotSpec /\ SwitchingSpec
<1>1. Init => EntryInit /\ RowInit /\ SlotsInit /\ StreamInit /\ PolyInit /\ DotInit /\ SwitchingInit
  BY DEF Init
<1>2. [Next]_vars => [EntryNext]_entry
  BY DEF Next, vars
<1>3. [Next]_vars => [RowNext]_row
  BY DEF Next, vars
<1>4. [Next]_vars => [SlotsNext]_slots
  BY DEF Next, vars
<1>5. [Next]_vars => [StreamNext]_stream
  BY DEF Next, vars
<1>6. [Next]_vars => [DotNext]_dot
  BY DEF Next, vars
<1>7. [Next]_vars => [PolyNext]_poly
  BY DEF Next, vars
<1>8. [Next]_vars => [SwitchingNext]_switching
  BY DEF Next, vars
<1>9. Spec => Init /\ [][Next]_vars
  BY PTL DEF Spec
<1> QED
  BY <1>1, <1>2, <1>3, <1>4, <1>5, <1>6, <1>7, <1>8, <1>9, PTL
     DEF EntrySpec, RowSpec, SlotsSpec, StreamSpec, PolySpec, DotSpec, SwitchingSpec

(* What holds of each routine by itself holds of them side by side, as the *)
(* run of them all has them.                                               *)
THEOREM AllAreExact ==
    Spec => []( /\ EntryExact /\ CenteredExact /\ DotExact /\ TransformExact /\ EntriesBounded
                /\ SlotsExact /\ TranscodesExactly /\ SamplesIndependent /\ PolyExact
                /\ SwitchExact /\ ExternalProductExact)
BY EachByItself, EntriesAreExact, EntriesAreCentered, DotIsExact, TransformsAreExact,
   EntriesStayBounded, SlotsAreExact, TranscodingIsExact, SamplingIsIndependent, PolynomialsAreExact,
   SwitchingIsExact, ExternalProductIsExact, PTL
=============================================================================
