----------------------------- MODULE RnsNumbers -----------------------------
(***************************************************************************)
(* Numbers modulo a product of pairwise coprime words, held as residues    *)
(* (RnsContext), and their multiplication by a fraction with rounding, in  *)
(* fixed-point words of four times the size (RnsScaler).  A context is the *)
(* sequence of its moduli.                                                 *)
(***************************************************************************)
EXTENDS Words, Sequences

(* Whether the library's extended_gcd of two moduli is one. *)
Coprime(a, b) == {d \in 2 .. a : a % d = 0 /\ b % d = 0} = {}

(* RnsContext::new *)
RnsContextOk(q) ==
    /\ q # << >>
    /\ \A i, j \in DOMAIN q : i # j => Coprime(q[i], q[j])
    /\ \A i \in DOMAIN q : NewModulusOk(q[i])

ProductOf(q) ==
    LET f[k \in 0 .. Len(q)] == IF k = 0 THEN 1 ELSE q[k] * f[k - 1] IN f[Len(q)]

SumOf(f, n) == LET s[k \in 0 .. n] == IF k = 0 THEN 0 ELSE s[k - 1] + f[k] IN s[n]

(* q_star, q_tilde and garner of the i-th modulus. *)
QStar(q, i) == ProductOf(q) \div q[i]

QTilde(q, i) == CHOOSE w \in 0 .. q[i] - 1 : (w * QStar(q, i)) % q[i] = 1 % q[i]

GarnerOf(q, i) == QStar(q, i) * QTilde(q, i)

Project(q, a) == [i \in DOMAIN q |-> a % q[i]]

Lift(q, rests) == SumOf([i \in DOMAIN q |-> rests[i] * GarnerOf(q, i)], Len(q)) % ProductOf(q)

-----------------------------------------------------------------------------
(* RnsScaler::new *)

B4 == B * B * B * B         \* sums wrap around modulo 2^(4 W)

ThetaBits == 2 * W - 1

(* Rounding of numerator * input / denominator, and what is lost, scaled   *)
(* by 2^ThetaBits: extract_projection_and_theta.                           *)
Gamma(input, num, den) == (num * input + den \div 2) \div den

Theta(input, num, den, roundUp) ==
    LET rest == (num * input) % den
        flip == den > 1 /\ (IF den % 2 = 1 THEN rest > den \div 2 ELSE rest >= den \div 2)
        t == IF flip THEN den - rest ELSE rest
        up == roundUp # flip
    IN  [sign |-> flip,
         value |-> (t * Pow2[ThetaBits] + (IF up THEN den - 1 ELSE 0)) \div den]

NextPowerOfTwoLog(x) == CHOOSE k \in 0 .. 4 * W : Pow2[k] >= x /\ (k = 0 \/ Pow2[k - 1] < x)

Least(S) == CHOOSE x \in S : \A y \in S : x <= y

(* The shift that lets a sum of residues times thetas fit three words.     *)
GarnerShift(q) ==
    Least({ThetaBits} \cup
        {3 * W - 1 - NextPowerOfTwoLog(q[i] * Len(q)) : i \in DOMAIN q})

ThetaGarner(q, i) ==
    (GarnerOf(q, i) * Pow2[GarnerShift(q)] + ProductOf(q) \div 2) \div ProductOf(q)

(* Everything a scaler computes in advance. *)
NewScaler(from, to, num, den) ==
    LET gamma == Gamma(ProductOf(from), num, den)
        omega == [i \in DOMAIN from |-> Gamma(GarnerOf(from, i), num, den)]
    IN  [from |-> from, to |-> to, num |-> num, den |-> den, isOne |-> num = den,
         gamma |-> Project(to, gamma),
         thetaGamma |-> Theta(ProductOf(from), num, den, FALSE),
         omega |-> [j \in DOMAIN to |-> [i \in DOMAIN from |-> omega[i] % to[j]]],
         thetaOmega |-> [i \in DOMAIN from |-> Theta(GarnerOf(from, i), num, den, TRUE)],
         thetaGarner |-> [i \in DOMAIN from |-> ThetaGarner(from, i)],
         shift |-> GarnerShift(from)]

CeilHalf(x) == (x + 1) \div 2

(* How often the product of the moduli is contained in the sum. *)
Quotient(s, rests) ==
    LET sum == SumOf([i \in DOMAIN s.from |-> rests[i] * s.thetaGarner[i]], Len(s.from)) % B4
    IN  CeilHalf(sum \div Pow2[s.shift - 1])

(* Mutant: the correction for the fraction lost in gamma forgotten.        *)
CorrectionWithoutGamma(s, rests) ==
    LET omega == SumOf([i \in DOMAIN s.from |-> (IF s.thetaOmega[i].sign THEN -1 ELSE 1)
                                    * rests[i] * s.thetaOmega[i].value], Len(s.from))
        sum == omega % B4
        negative == sum \div Pow2[3 * W - 1] > 0
    IN  [negative |-> negative,
         value |-> IF negative THEN (((B4 - 1 - sum) \div Pow2[2 * W - 2]) + 1) \div 2
                   ELSE CeilHalf(sum \div Pow2[2 * W - 2])]

(* The sum of what the roundings lost, rounded, with its sign. *)
Correction(s, rests) ==
    LET omega == SumOf([i \in DOMAIN s.from |-> (IF s.thetaOmega[i].sign THEN -1 ELSE 1)
                                    * rests[i] * s.thetaOmega[i].value], Len(s.from))
        gamma == (IF s.thetaGamma.sign THEN -1 ELSE 1)
                    * Quotient(s, rests) * s.thetaGamma.value
        sum == (omega - gamma) % B4
        negative == sum \div Pow2[3 * W - 1] > 0
    IN  [negative |-> negative,
         value |-> IF negative THEN (((B4 - 1 - sum) \div Pow2[2 * W - 2]) + 1) \div 2
                   ELSE CeilHalf(sum \div Pow2[2 * W - 2])]

(* RnsScaler::scale, for the residue modulo to[j]. *)
ScaleResidue(s, rests, j) ==
    LET m == NewModulus(s.to[j])
        w == Correction(s, rests)
        lazyW == LazyReduceU128(m, w.value)
        quotient == LazyMulShoup(m, ReduceU128(m, Quotient(s, rests)), s.gamma[j],
                                 Shoup(m, s.gamma[j]))
        y == 2 * m.p - quotient
             + (IF s.isOne THEN 0 ELSE IF w.negative THEN 2 * m.p - lazyW ELSE lazyW)
             + SumOf([i \in DOMAIN s.from |->
                        LazyMulShoup(m, rests[i], s.omega[j][i], Shoup(m, s.omega[j][i]))],
                     Len(s.from))
    IN  ReduceU128(m, y)

(* Scaler::new: the moduli at the front that need no conversion. *)
CommonModuli(s) ==
    IF ~s.isOne THEN 0
    ELSE LET both == Least({Len(s.from), Len(s.to)})
         IN  CHOOSE k \in 0 .. both :
                /\ \A i \in 1 .. k : s.from[i] = s.to[i]
                /\ k < both => s.from[k + 1] # s.to[k + 1]

(* Scaler::scale *)
ScaleRests(s, rests) ==
    [j \in DOMAIN s.to |->
        IF j <= CommonModuli(s) THEN rests[j] ELSE ScaleResidue(s, rests, j)]
=============================================================================
