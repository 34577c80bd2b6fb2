------------------------------- MODULE Scheme -------------------------------
(***************************************************************************)
(* Encryption, arithmetic, modulus switching and decryption with real      *)
(* numbers, in the ring of degree one: what the noise does to a message.   *)
(* A ciphertext is [c, level] with, for the properties, the message wanted *)
(* and a bound on the noise.                                               *)
(***************************************************************************)
EXTENDS Parameters

CONSTANTS
    MaxVariance,        \* of the small coefficients that can be sampled: 16
    MaxCalls,           \* bounds the number of operations
    MaxMultiplied       \* largest ciphertext modulus of a product computed here

VARIABLES
    sk,         \* the secret key, or NoParameters
    pk,         \* the public key, or NoParameters
    cts,        \* the ciphertexts
    calls

schemeVars == << sk, pk, cts, calls >>

Abs(x) == IF x < 0 THEN -x ELSE x

ModuliAt(k) == FirstModuli(par.moduli, k)

Q(k) == ProductOf(ModuliAt(k))

Centered(x, q) == IF 2 * x > q THEN x - q ELSE x

(* x * num / den to the nearest integer; scalers do so (ScalesToNearest).  *)
Rounded(x, num, den) == (2 * num * x + den) \div (2 * den)

(* Small coefficients: the extremes of 2v bits minus 2v bits. *)
Smalls == {-(2 * par.variance), 2 * par.variance}

CanSample == par.variance \in 1 .. MaxVariance

(* Values of uniform polynomials, and messages *)
Masks(q) == {q \div 3}

Messages == {1, par.t - 1}

(* Mutant: the product by delta alone, without Q mod t.                    *)
ToPolyPlain(m, k) == (par.level[k].delta * m) % Q(k)

(* Plaintext::to_poly: Q m / t rounded down, from -1/t modulo Q. *)
ToPoly(m, k) == (par.level[k].delta * ((m * par.level[k].qModT) % par.t)) % Q(k)

(* x to the power n: one more product with the key for every part. *)
Powered(x, n) == LET p[k \in 0 .. n] == IF k = 0 THEN 1 ELSE p[k - 1] * x IN p[n]

(* c[1] + c[2] s + c[3] s^2 *)
Phase(ct) ==
    SumOf([i \in DOMAIN ct.c |-> (ct.c[i] * Powered(sk, i - 1)) % Q(ct.level)], Len(ct.c))
        % Q(ct.level)

-----------------------------------------------------------------------------
(* Decryption *)

(* The rows read: that of the first modulus, or all when t is large. *)
ReadModulus == IF IsSmall(par.t) THEN par.moduli[1] ELSE ProductOf(par.plaintext)

Scaled(ct) == Rounded(Centered(Phase(ct), Q(ct.level)), par.t, Q(ct.level))

(* Mutant: a negative value is not lifted before it is reduced modulo t.   *)
DecryptedUnshifted(ct) == (Scaled(ct) % ReadModulus) % par.t

(* try_decrypt: t is added, so that negative values wrap around. *)
Decrypted(ct) == (((Scaled(ct) % ReadModulus) + par.t) % ReadModulus) % par.t

(* Mutant: the size of a negative coefficient is that of its residue.      *)
MeasuredUncentered(ct) == BitsOf((Phase(ct) - ToPoly(Decrypted(ct), ct.level)) % Q(ct.level))

(* measure_noise, in bits: the distance to the message decrypted. *)
Measured(ct) ==
    LET q == Q(ct.level)
        c == (Phase(ct) - ToPoly(Decrypted(ct), ct.level)) % q
    IN  Least({BitsOf(c), BitsOf(q - c)})

-----------------------------------------------------------------------------
(* What the operations compute *)

(* A bound of Q says nothing. *)
Ciphertext(c, level, want, bound) ==
    [c |-> c, level |-> level, want |-> want, bound |-> Least({bound, Q(level)})]

(* encrypt_poly *)
SecretEncrypted(m, k, a, e) == << (e - a * sk + ToPoly(m, k)) % Q(k), a >>

(* switch_down of a part: division by the last modulus, to the nearest.    *)
SwitchedPart(x, q) == (x + q \div 2) \div q

(* 1 + |s| + ... *)
Weight(n) == SumOf([i \in 1 .. n |-> Powered(Abs(sk), i - 1)], n)

SwitchedDown(ct) ==
    LET q == par.moduli[Len(par.moduli) - ct.level]
    IN  Ciphertext([i \in DOMAIN ct.c |-> SwitchedPart(ct.c[i], q) % Q(ct.level + 1)],
                   ct.level + 1, ct.want, ct.bound \div q + Weight(Len(ct.c)) + 2)

(* The public key at a level, as try_encrypt switches it down. *)
KeyAt(k) ==
    LET f[j \in 0 .. k] == IF j = 0 THEN pk ELSE SwitchedDown(f[j - 1]) IN f[k]

Added(x, y) ==
    Ciphertext([i \in 1 .. Len(x.c) |-> (x.c[i] + y.c[i]) % Q(x.level)], x.level,
               (x.want + y.want) % par.t, x.bound + y.bound + 1)

Subtracted(x, y) ==
    Ciphertext([i \in 1 .. Len(x.c) |-> (x.c[i] - y.c[i]) % Q(x.level)], x.level,
               (x.want - y.want) % par.t, x.bound + y.bound + 1)

Negated(x) ==
    Ciphertext([i \in DOMAIN x.c |-> (0 - x.c[i]) % Q(x.level)], x.level,
               (0 - x.want) % par.t, x.bound + 1)

PlainAdded(x, m) ==
    Ciphertext([x.c EXCEPT ![1] = (@ + ToPoly(m, x.level)) % Q(x.level)], x.level,
               (x.want + m) % par.t, x.bound + 1)

PlainMultiplied(x, m) ==
    Ciphertext([i \in DOMAIN x.c |-> (x.c[i] * m) % Q(x.level)], x.level,
               (x.want * m) % par.t, m * (x.bound + 1) + 1)

(* The extender of MultiplicationParameters: the centred number.           *)
Extended(x, q, to) == Centered(x, q) % to

(* Mul<&Ciphertext>: products over the extended basis, scaled by t / Q. *)
Multiplied(x, y) ==
    LET q == Q(x.level)
        big == ProductOf(par.mul[x.level])
        n == Len(x.c) + Len(y.c) - 1
        Ext(p) == [i \in DOMAIN p |-> Extended(p[i], q, big)]
        Term(i, k) == IF k - i + 1 \in DOMAIN y.c
                      THEN (Centered(Ext(x.c)[i], big) * Centered(Ext(y.c)[k - i + 1], big)) % big
                      ELSE 0
        Part(k) == SumOf([i \in DOMAIN x.c |-> Term(i, k)], Len(x.c)) % big
    IN  Ciphertext([k \in 1 .. n |-> Rounded(Centered(Part(k), big), par.t, q) % q], x.level,
            (x.want * y.want) % par.t,
            par.t * ((x.bound + 1) * (1 + Weight(Len(y.c))) + (y.bound + 1) * (1 + Weight(Len(x.c))))
                + (par.t * (x.bound + 1) * (y.bound + 1)) \div q + Weight(n) + 3)

-----------------------------------------------------------------------------

SchemeInit ==
    ParametersInit /\ sk = NoParameters /\ pk = NoParameters /\ cts = << >> /\ calls = 0

(* SecretKey::random panics unless the variance can be sampled. *)
GenerateSecretKey(s) ==
    /\ sk = NoParameters /\ CanSample /\ sk' = s /\ UNCHANGED << pk, cts, calls >>

GeneratePublicKey(a, e) ==
    /\ sk # NoParameters /\ pk = NoParameters /\ cts = << >>
    /\ pk' = Ciphertext(SecretEncrypted(0, 0, a, e), 0, 0, Abs(e))
    /\ UNCHANGED << sk, cts, calls >>

Call == calls < MaxCalls /\ calls' = calls + 1 /\ UNCHANGED << sk, pk >>

Encrypt(ct) == sk # NoParameters /\ Len(cts) < 2 /\ Call /\ cts' = Append(cts, ct)

SecretEncrypt(m, k, a, e) == Encrypt(Ciphertext(SecretEncrypted(m, k, a, e), k, m, Abs(e)))

PublicEncrypt(m, k, u, e1, e2) ==
    LET key == KeyAt(k)
    IN  Encrypt(Ciphertext(<< (u * key.c[1] + e1 + ToPoly(m, k)) % Q(k), (u * key.c[2] + e2) % Q(k) >>,
                           k, m, Abs(u) * (key.bound + 1) + Abs(e1) + Abs(e2 * sk)))

(* The first ciphertext is replaced by a result. *)
Put(ct) == Call /\ cts' = << ct >>

(* Levels must agree (or the program panics), for sums the parts too. *)
TwoOperands == Len(cts) = 2 /\ cts[1].level = cts[2].level

Alike == TwoOperands /\ Len(cts[1].c) = Len(cts[2].c)

SwitchDown == Len(cts) = 1 /\ cts[1].level + 1 < Len(par.moduli) /\ Put(SwitchedDown(cts[1]))

AddCiphertexts == Alike /\ Put(Added(cts[1], cts[2]))

SubtractCiphertexts == Alike /\ Put(Subtracted(cts[1], cts[2]))

Negate == Len(cts) = 1 /\ Put(Negated(cts[1]))

AddPlain(m) == Len(cts) = 1 /\ Put(PlainAdded(cts[1], m))

MultiplyPlain(m) == Len(cts) = 1 /\ Put(PlainMultiplied(cts[1], m))

(* A product with itself takes the path for squares, which computes the same. *)
Multiply ==
    /\ TwoOperands /\ Q(cts[1].level) <= MaxMultiplied
    /\ Put(Multiplied(cts[1], cts[2]))

Compute ==
    \/ \E s \in {1, -(2 * par.variance)} : GenerateSecretKey(s)
    \/ \E a \in Masks(Q(0)), e \in Smalls : GeneratePublicKey(a, e)
    \/ sk # NoParameters /\ Len(cts) < 2 /\
         \E m \in Messages, k \in DOMAIN par.level :
            \/ \E e \in Smalls, a \in Masks(Q(k)) : SecretEncrypt(m, k, a, e)
            \/ pk # NoParameters /\ \E u \in Smalls : PublicEncrypt(m, k, u, 2 * par.variance, u)
    \/ SwitchDown \/ AddCiphertexts \/ SubtractCiphertexts \/ Negate \/ Multiply
    \/ \E m \in Messages : AddPlain(m) \/ MultiplyPlain(m)

(* Parameters are read back before they are used: it reads nothing else.   *)
SchemeNext ==
    \/ sk = NoParameters /\ ParametersNext /\ UNCHANGED schemeVars
    \/ par # NoParameters /\ reloaded = NoParameters /\ Compute
         /\ UNCHANGED << builder, par, reloaded >>

Spec == SchemeInit /\ [][SchemeNext]_<< builder, par, reloaded, sk, pk, cts, calls >>
-----------------------------------------------------------------------------

(* The distance from the message that is wanted. *)
Noise(ct) == Abs(Centered((Phase(ct) - ToPoly(ct.want, ct.level)) % Q(ct.level), Q(ct.level)))

(* t times the noise, and less than t lost by to_poly, stay below Q / 2. *)
WithinBudget(ct) == 2 * par.t * (Noise(ct) + 1) < Q(ct.level)

(* Centred values modulo t, plus t, are below the modulus they are read by.*)
Readable == 3 * par.t < 2 * ReadModulus

(* The noise of a ciphertext is bounded by what it was computed from:      *)
(* every operation adds what the analysis of the scheme says, however its  *)
(* operands were masked and at whatever level.                             *)
NoiseWithinBound == \A i \in DOMAIN cts : cts[i].bound * 2 < Q(cts[i].level) => Noise(cts[i]) <= cts[i].bound

(* While noise is within the budget, decryption returns the message wanted,*)
(* when t is less than two thirds of the moduli read (parameters may       *)
(* violate this: see DecryptsAnyModuli).                                   *)
DecryptsWithinBudget ==
    \A i \in DOMAIN cts :
        Readable /\ WithinBudget(cts[i]) => Decrypted(cts[i]) = cts[i].want

(* The same for all parameters that build accepts and default_parameters   *)
(* returns ("We need product of moduli > plaintext modulus").              *)
DecryptsAnyModuli == \A i \in DOMAIN cts : WithinBudget(cts[i]) => Decrypted(cts[i]) = cts[i].want

(* measure_noise returns the bits of the noise of a ciphertext within the  *)
(* budget, and never more bits than the budget has: it does not tell that  *)
(* a ciphertext is lost.                                                   *)
NoiseMeasured ==
    \A i \in DOMAIN cts :
        Readable =>
            /\ WithinBudget(cts[i]) => Measured(cts[i]) = BitsOf(Noise(cts[i]))
            /\ 2 * par.t * (Powered(2, Measured(cts[i])) \div 2 - 1) < Q(cts[i].level)
=============================================================================
