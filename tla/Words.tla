------------------------------- MODULE Words --------------------------------
(***************************************************************************)
(* Arithmetic modulo p on machine words: Modulus of fhe-math.  A word has  *)
(* W bits (64 in the program) and a double word 2 W; what does not fit is  *)
(* lost.  The functions with names in vt compute the same values in        *)
(* variable time and have no definition of their own.                      *)
(***************************************************************************)
EXTENDS Integers

CONSTANT W              \* the bits of a word

ASSUME WordsAssumption == W \in Nat /\ W >= 4

Pow2[k \in 0 .. 4 * W] == IF k = 0 THEN 1 ELSE 2 * Pow2[k - 1]

B == Pow2[W]

Word == 0 .. B - 1

DoubleWord == 0 .. B * B - 1

LeadingZeros ==
    [x \in Word |-> W - (CHOOSE k \in 0 .. W : x < Pow2[k] /\ (k = 0 \/ Pow2[k - 1] <= x))]

PrimeTable ==
    [x \in Word |-> x >= 2 /\ \A d \in 2 .. x - 1 : d * d > x \/ x % d # 0]

IsPrime(x) == PrimeTable[x]

(* zq::primes::supports_opt *)
SupportsOpt(p) ==
    LET s == LeadingZeros[p]
    IN  s >= 1 /\ (Pow2[3 * s] + 1) * B < Pow2[3 * s] * (Pow2[s] + 1) * p

(* Modulus::new: two bits are left for sums of up to four residues.        *)
NewModulusOk(p) == p >= 2 /\ p < B \div 4

NewModulus(p) ==
    LET barrett == (B * B) \div p
    IN  [p |-> p, hi |-> barrett \div B, lo |-> barrett % B,
         lz |-> LeadingZeros[p], opt |-> SupportsOpt(p)]

(* One conditional subtraction: x must be below 2 p. *)
Reduce1(x, p) == IF x < p THEN x ELSE x - p

(* Mutant: the upper word of the product of the low words forgotten.       *)
LazyReduceU128NoCarry(m, a) ==
    LET aLo == a % B
        aHi == a \div B
        mid == (aLo * m.hi + aHi * m.lo) % (B * B)
        q == mid \div B + aHi * m.hi
    IN  (a - q * m.p) % B

LazyReduceU128(m, a) ==
    LET aLo == a % B
        aHi == a \div B
        mid == (aLo * m.hi + aHi * m.lo + (aLo * m.lo) \div B) % (B * B)
        q == mid \div B + aHi * m.hi
    IN  (a - q * m.p) % B

LazyReduce(m, a) ==
    LET q == (a * m.hi + (a * m.lo) \div B) \div B
    IN  (a - q * m.p) % B

(* Only for the moduli of SupportsOpt, and a below the square of p.        *)
LazyReduceOptU128(m, a) ==
    LET q == ((m.lo * (a \div B) + a * Pow2[m.lz]) % (B * B)) \div B
    IN  (a - q * m.p) % B

LazyReduceOpt(m, a) ==
    LET q == a \div Pow2[W - m.lz]
    IN  (a - q * m.p) % B

ReduceU128(m, a) == Reduce1(LazyReduceU128(m, a), m.p)

Reduce(m, a) == Reduce1(LazyReduce(m, a), m.p)

ReduceOptU128(m, a) == Reduce1(LazyReduceOptU128(m, a), m.p)

ReduceOpt(m, a) == Reduce1(LazyReduceOpt(m, a), m.p)

(* The lazy reduction that lazy_reduce_vec takes. *)
LazyReduceEntry(m, a) == IF m.opt THEN LazyReduceOpt(m, a) ELSE LazyReduce(m, a)

(* p * 2^W is added to a signed word to make it positive. *)
ReduceI64(m, a) == ReduceU128(m, m.p * B + a)

Add(m, a, b) == Reduce1(a + b, m.p)

Sub(m, a, b) == Reduce1(a + m.p - b, m.p)

Neg(m, a) == Reduce1(m.p - a, m.p)

Mul(m, a, b) == ReduceU128(m, a * b)

MulOpt(m, a, b) == ReduceOptU128(m, a * b)

(* The product that mul_vec takes. *)
MulEntry(m, a, b) == IF m.opt THEN MulOpt(m, a, b) ELSE Mul(m, a, b)

Shoup(m, b) == ((b * B) \div m.p) % B

(* Any word a, and b below p with its Shoup quotient. *)
LazyMulShoup(m, a, b, bShoup) ==
    LET q == (a * bShoup) \div B
    IN  (a * b - q * m.p) % B

MulShoup(m, a, b, bShoup) == Reduce1(LazyMulShoup(m, a, b, bShoup), m.p)

(* Modulus::pow: square and multiply, from the bit below the highest one.  *)
Power(m, a, n) ==
    LET top == W - 1 - LeadingZeros[n]
        r[i \in 0 .. W] ==
            IF i >= top THEN a
            ELSE LET s == Mul(m, r[i + 1], r[i + 1])
                 IN  IF (n \div Pow2[i]) % 2 = 1 THEN Mul(m, s, a) ELSE s
    IN  IF n = 0 THEN 1 ELSE r[0]

(* Modulus::inv, for prime moduli. *)
InverseOk(m, a) == IsPrime(m.p) /\ a # 0

InverseOf(m, a) == Power(m, a, m.p - 2)

(* Mutant: subtracted the wrong way round.                                 *)
CenterReversed(m, a) == IF a >= m.p \div 2 THEN m.p - a ELSE a

Center(m, a) == IF a >= m.p \div 2 THEN a - m.p ELSE a
=============================================================================
