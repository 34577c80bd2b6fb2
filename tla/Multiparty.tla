----------------------------- MODULE Multiparty -----------------------------
(***************************************************************************)
(* The multiparty protocols: parties that each hold a share of a secret    *)
(* key publish shares, and an aggregator folds the shares it receives into *)
(* a public key, a relinearization key, a switched ciphertext or a         *)
(* plaintext.                                                              *)
(*                                                                         *)
(* The polynomial ring modulo Q is taken at degree one, the integers       *)
(* modulo Q: the protocols only add, subtract and multiply, and the errors *)
(* they add are sampled coefficient by coefficient.  The library checks    *)
(* neither who contributed to an aggregation nor what the shares were made *)
(* against, so shares may be lost, repeated, reordered and mixed here: an  *)
(* aggregator absorbs any shares of one kind, in any order.                *)
(*                                                                         *)
(* Fields marked (history) are no data of the library.  They record what   *)
(* went into an object and never decide a step.                            *)
(***************************************************************************)
EXTENDS Integers, Sequences, FiniteSets

CONSTANTS
    Party,
    Moduli,         \* the ciphertext moduli, in order
    T,              \* the plaintext modulus
    Secret,         \* the secret key shares the parties may hold
    Mask,           \* what Poly::small returns for the masks u
    Noise,          \* what it returns for errors
    NoiseRow,       \* the rows of errors that RelinKeyGen draws
    NoiseBound,     \* the largest absolute value in Noise
    SecretBound,    \* and among the secrets,
    MaskBound,      \* in Mask,
    RecipientBound, \* among the keys of recipients,
    RecipientNoise, \* and of the noise of their public keys
    Crp,            \* common random polynomials: records [level, a]
    CrpVector,      \* vectors of them for RelinKeyGen, sequences of integers
    Recipient,      \* public keys to switch to: records [c, level, key (history)]
    OutSecret,      \* OutSecret[p]: the share of the output key that p holds
    ThirdPart,      \* third parts that a product of ciphertexts may have
    MaxBoard,       \* bound: shares published and not yet cleared away
    MaxAbsorbed,    \* bound: shares of an aggregation
    MaxRounds,      \* bound: aggregates of the first round of RelinKeyGen
    None

Levels == 0 .. Len(Moduli) - 1

Product[n \in 0 .. Len(Moduli)] == IF n = 0 THEN 1 ELSE Moduli[n] * Product[n - 1]

Modulus == [l \in Levels |-> Product[Len(Moduli) - l]]

(* The modulus at a level. *)
Q(l) == Modulus[l]

ASSUME MultipartyAssumption ==
    /\ Moduli \in Seq(Nat) /\ Len(Moduli) >= 1
    /\ \A l \in Levels : Q(l) \in Nat \ {0}
    /\ Secret \subseteq [Party -> Int] /\ Mask \subseteq Int /\ ThirdPart \subseteq Int
    /\ NoiseBound \in Nat /\ Noise \subseteq -NoiseBound .. NoiseBound
    /\ OutSecret \in [Party -> Int]
    /\ Crp \subseteq [level : Levels, a : Int]
    /\ \A v \in CrpVector : v \in Seq(Int)
    /\ MaxBoard \in Nat /\ MaxAbsorbed \in Nat \ {0} /\ MaxRounds \in Nat
    /\ T \in Nat /\ T >= 2

Row == 1 .. Len(Moduli)

ASSUME NoiseRowAssumption == NoiseRow \subseteq [Row -> Noise]

(* RnsContext::get_garner: 1 modulo the i-th modulus, 0 modulo the others. *)
Garner ==
    [i \in Row |-> CHOOSE w \in 0 .. Q(0) - 1 :
        \A j \in Row : w % Moduli[j] = IF j = i THEN 1 ELSE 0]

(* There is such a number when the moduli are coprime. *)
ASSUME GarnerAssumption == \A i \in Row : Garner[i] \in Int

VARIABLES
    task,     \* the protocols of this behaviour: "relin" or "cipher"
    sk,       \* sk[p]: the secret key share of p
    gen,      \* gen[p]: p's RelinKeyGenerator, its mask u and CRP vector
    board,    \* the shares published so far
    acc,      \* the aggregation in progress, or None
    pk,       \* the collective public key, or None
    r1,       \* the aggregates of the first round of RelinKeyGen
    rlk,      \* the collective relinearization key, or None
    ct,       \* the ciphertext under the collective key, or None
    loop,     \* the public key being switched down for its use, or None
    out       \* what the last aggregation made of a ciphertext, or None

vars == << task, sk, gen, board, acc, pk, r1, rlk, ct, loop, out >>

-----------------------------------------------------------------------------
(* The shares.  h0 and h1 are the polynomials that an aggregation adds up, *)
(* one for each row of a key; on is what the share was made against; key,  *)
(* mask and noise (history) the secret, the mask and the error used.       *)

Share(kind, p, on, h0, h1, mask, noise) ==
    [kind |-> kind, of |-> p, on |-> on, h0 |-> h0, h1 |-> h1,
     key |-> sk[p], mask |-> mask, noise |-> noise]

(* Mutant: the share of the public key with the sign of the CRP lost.      *)
PublicKeyShareUnsigned(p, c, e) ==
    Share("pk", p, c, << (c.a * sk[p] + e) % Q(c.level) >>, << >>, 0, e)

(* PublicKeyShare::new.  The key and the error are taken at level 0, and   *)
(* the product has the rows of the CRP.                                    *)
PublicKeyShare(p, c, e) ==
    Share("pk", p, c, << (-c.a * sk[p] + e) % Q(c.level) >>, << >>, 0, e)

(* RelinKeyGenerator::new refuses parameters with a single modulus and     *)
(* vectors of another length.                                              *)
RelinKeyGeneratorOk(v) == Len(Moduli) # 1 /\ Len(v) = Len(Moduli)

RelinRound1(p, e0, e1) ==
    LET a == gen[p].crp
        u == gen[p].u
    IN  Share("r1", p, a,
              [i \in Row |-> (-a[i] * u + Garner[i] * sk[p] + e0[i]) % Q(0)],
              [i \in Row |-> (a[i] * sk[p] + e1[i]) % Q(0)],
              u, 0)

(* Mutant: the second round with u instead of u - s.                       *)
RelinRound2KeepsKey(p, r, e0, e1) ==
    Share("r2", p, r,
          [i \in Row |-> (r.h0[i] * sk[p] + e0[i]) % Q(0)],
          [i \in Row |-> (gen[p].u * r.h1[i] + e1[i]) % Q(0)],
          gen[p].u, 0)

RelinRound2(p, r, e0, e1) ==
    Share("r2", p, r,
          [i \in Row |-> (r.h0[i] * sk[p] + e0[i]) % Q(0)],
          [i \in Row |-> ((gen[p].u - sk[p]) * r.h1[i] + e1[i]) % Q(0)],
          gen[p].u, 0)

(* SecretKeySwitchShare::new: only ciphertexts of two parts. *)
KeySwitchOk(c) == Len(c.c) = 2

(* Mutant: a share of the key switch with the two keys exchanged.          *)
SecretKeySwitchShareReversed(p, x, sOut, e, kind) ==
    Share(kind, p, x, << ((sOut - sk[p]) * x.c[2] + e) % Q(x.level) >>, << >>, 0, e)

SecretKeySwitchShare(p, x, sOut, e, kind) ==
    Share(kind, p, x, << ((sk[p] - sOut) * x.c[2] + e) % Q(x.level) >>, << >>, 0, e)

(* DecryptionShare::new is a key switch to the zero key. *)
DecryptionShare(p, x, e) == SecretKeySwitchShare(p, x, 0, e, "dec")

(* Mutant: one factor u for the two parts of the public key, and no other. *)
PublicKeySwitchShareHalf(p, x, k, u, e0, e1) ==
    Share("pks", p, [level |-> x.level, ct |-> x, to |-> k],
          << (k.c[1] * u + sk[p] * x.c[2] + e0) % Q(x.level) >>,
          << (k.c[2] + e1) % Q(x.level) >>, u, e0)

(* PublicKeySwitchShare::new, once the public key k is at the level of x.  *)
(* The number of parts of x is not looked at.                              *)
PublicKeySwitchShare(p, x, k, u, e0, e1) ==
    Share("pks", p, [level |-> x.level, ct |-> x, to |-> k],
          << (k.c[1] * u + sk[p] * x.c[2] + e0) % Q(x.level) >>,
          << (k.c[2] * u + e1) % Q(x.level) >>, u, e0)

-----------------------------------------------------------------------------
(* Aggregation: from_shares takes the first share and adds the others.     *)

(* Mutant: the sums left as they are.                                      *)
AddRowsUnreduced(x, y, l) == [i \in DOMAIN x |-> x[i] + y[i]]

AddRows(x, y, l) == [i \in DOMAIN x |-> (x[i] + y[i]) % Q(l)]

LevelOf(s) == IF s.kind \in {"r1", "r2"} THEN 0 ELSE s.on.level

First(s) ==
    [first |-> s, h0 |-> s.h0, h1 |-> s.h1,
     same |-> TRUE, count |-> 1, key |-> s.key, mask |-> s.mask, noise |-> s.noise,
     outKey |-> OutSecret[s.of]]

Folded(x, s) ==
    [first |-> x.first,
     h0 |-> AddRows(x.h0, s.h0, LevelOf(x.first)),
     h1 |-> AddRows(x.h1, s.h1, LevelOf(x.first)),
     same |-> x.same /\ s.on = x.first.on,
     count |-> x.count + 1,
     key |-> x.key + s.key, mask |-> x.mask + s.mask, noise |-> x.noise + s.noise,
     outKey |-> x.outKey + OutSecret[s.of]]

(* What the history of an aggregation says of the object made of it.       *)
History(x) == [same |-> x.same, count |-> x.count, key |-> x.key,
               mask |-> x.mask, noise |-> x.noise]

(* Aggregate<PublicKeyShare> for PublicKey: the CRP is the first share's.  *)
MadePublicKey(x) ==
    [c |-> << x.h0[1], x.first.on.a >>, level |-> x.first.on.level, of |-> History(x)]

MadeRound1(x) == [h0 |-> x.h0, h1 |-> x.h1, of |-> History(x)]

(* Aggregate<RelinKeyShare<R2>>: the first round is the first share's.     *)
MadeRelinKey(x) ==
    [c0 |-> AddRows(x.h0, x.h1, 0), c1 |-> x.first.on.h1,
     r1 |-> x.first.on.of, of |-> History(x)]

(* Aggregate<SecretKeySwitchShare> for Ciphertext. *)
MadeSwitched(x) ==
    LET c == x.first.on
    IN  [kind |-> "sks", c |-> << (c.c[1] + x.h0[1]) % Q(c.level), c.c[2] >>,
         level |-> c.level, m |-> c.m, from |-> c.key, parts |-> Len(c.c),
         key |-> x.outKey, of |-> History(x)]

(* Aggregate<PublicKeySwitchShare> for Ciphertext: c0 is the first share's.*)
MadePublicSwitched(x) ==
    LET c == x.first.on.ct
    IN  [kind |-> "pks", c |-> << (c.c[1] + x.h0[1]) % Q(c.level), x.h1[1] >>,
         level |-> c.level, m |-> c.m, from |-> c.key, parts |-> Len(c.c),
         key |-> x.first.on.to.key, of |-> History(x)]

(* Scaling by T/Q of the representative in [-Q/2, Q/2), to the nearest     *)
(* integer.                                                                *)
Centered(x, q) == IF 2 * (x % q) >= q THEN (x % q) - q ELSE x % q

Scaled(x, q) == (2 * T * Centered(x, q) + q) \div (2 * q)

(* The sum is scaled into the plaintext context, of modulus Moduli[1] here,*)
(* T is added, and the value is reduced modulo that modulus and modulo T.  *)
Decoded(x, l) == (((Scaled(x, Q(l)) % Moduli[1]) + T) % Moduli[1]) % T

(* Mutant: the first part alone, without the sum of the shares.            *)
MadePlaintextUnshared(x) ==
    LET c == x.first.on
    IN  [kind |-> "dec", value |-> Decoded(c.c[1], c.level),
         m |-> c.m, from |-> c.key, parts |-> Len(c.c), of |-> History(x)]

(* Aggregate<DecryptionShare> for Plaintext: the switched c0 is scaled.    *)
MadePlaintext(x) ==
    LET c == x.first.on
    IN  [kind |-> "dec", value |-> Decoded(c.c[1] + x.h0[1], c.level),
         m |-> c.m, from |-> c.key, parts |-> Len(c.c), of |-> History(x)]

-----------------------------------------------------------------------------
(* The parties and the aggregator. *)

Init ==
    /\ task \in {"relin", "cipher"}
    /\ sk \in Secret
    /\ gen = [p \in Party |-> None]
    /\ board = {}
    /\ acc = None
    /\ pk = None
    /\ r1 = {}
    /\ rlk = None
    /\ ct = None
    /\ loop = None
    /\ out = None

(* Shares of different kinds have different types and no iterator mixes    *)
(* them: a board holds one kind at a time.                                 *)
Publish(s) ==
    /\ Cardinality(board) < MaxBoard
    /\ \A s2 \in board : s2.kind = s.kind
    /\ board' = board \cup {s}
    /\ UNCHANGED << task, sk, acc, pk, r1, rlk, ct, out >>

(* RelinKeyGenerator::new.  A party that starts again draws another mask.  *)
NewGenerator(p, v, u) ==
    /\ task = "relin" /\ rlk = None
    /\ RelinKeyGeneratorOk(v)
    /\ gen' = [gen EXCEPT ![p] = [u |-> u, crp |-> v]]
    /\ UNCHANGED << task, sk, board, acc, pk, r1, rlk, ct, loop, out >>

(* RelinKeyGenerator::round_1 *)
Round1(p, e0, e1) ==
    /\ gen[p] # None /\ rlk = None
    /\ Publish(RelinRound1(p, e0, e1))
    /\ UNCHANGED << gen, loop >>

(* RelinKeyGenerator::round_2, against any aggregate of the first round.   *)
Round2(p, r, e0, e1) ==
    /\ gen[p] # None /\ r \in r1 /\ rlk = None
    /\ Publish(RelinRound2(p, r, e0, e1))
    /\ UNCHANGED << gen, loop >>

PublishPublicKeyShare(p, c, e) ==
    /\ task = "cipher" /\ pk = None
    /\ Publish(PublicKeyShare(p, c, e))
    /\ UNCHANGED << gen, loop >>

PublishSecretKeySwitchShare(p, e) ==
    /\ ct # None /\ out = None
    /\ KeySwitchOk(ct)
    /\ Publish(SecretKeySwitchShare(p, ct, OutSecret[p], e, "sks"))
    /\ UNCHANGED << gen, loop >>

PublishDecryptionShare(p, e) ==
    /\ ct # None /\ out = None
    /\ KeySwitchOk(ct)
    /\ Publish(DecryptionShare(p, ct, e))
    /\ UNCHANGED << gen, loop >>

(* The aggregator takes the first share of an iterator ...                 *)
Begin(s) ==
    /\ acc = None /\ out = None
    /\ acc' = First(s)
    /\ UNCHANGED << task, sk, gen, board, pk, r1, rlk, ct, loop, out >>

(* ... and the others, which may be repeated and may have been made        *)
(* against something else.  Shares of contexts of different levels fail an *)
(* assertion.                                                              *)
Absorb(s) ==
    /\ acc # None /\ acc.count < MaxAbsorbed
    /\ s.kind = acc.first.kind /\ LevelOf(s) = LevelOf(acc.first)
    /\ Len(s.h0) = Len(acc.h0)
    /\ acc' = Folded(acc, s)
    /\ UNCHANGED << task, sk, gen, board, pk, r1, rlk, ct, loop, out >>

(* Aggregate<Result<S>>: an Err among the shares fails the aggregation.    *)
AbsorbErr ==
    /\ acc # None
    /\ acc' = None
    /\ UNCHANGED << task, sk, gen, board, pk, r1, rlk, ct, loop, out >>

Ended(kind) == acc # None /\ acc.first.kind = kind /\ acc' = None

FinishPublicKey ==
    /\ Ended("pk")
    /\ pk' = MadePublicKey(acc)
    /\ board' = {}
    /\ UNCHANGED << task, sk, gen, r1, rlk, ct, loop, out >>

FinishRound1 ==
    /\ Ended("r1") /\ Cardinality(r1) < MaxRounds
    /\ r1' = r1 \cup {MadeRound1(acc)}
    /\ board' = {}
    /\ UNCHANGED << task, sk, gen, pk, rlk, ct, loop, out >>

FinishRelinKey ==
    /\ Ended("r2")
    /\ rlk' = MadeRelinKey(acc)
    /\ board' = {}
    /\ UNCHANGED << task, sk, gen, pk, r1, ct, loop, out >>

FinishOutput(kind, made) ==
    /\ Ended(kind)
    /\ out' = made
    /\ board' = {}
    /\ UNCHANGED << task, sk, gen, pk, r1, rlk, ct, loop >>

FinishSecretKeySwitch == FinishOutput("sks", MadeSwitched(acc))

FinishDecryption == FinishOutput("dec", MadePlaintext(acc))

FinishPublicKeySwitch == FinishOutput("pks", MadePublicSwitched(acc))

-----------------------------------------------------------------------------
(* A public key is switched down to the level of what it is used for: the  *)
(* loops of PublicKey::try_encrypt and of PublicKeySwitchShare::new run    *)
(* `while level != target'.                                                *)

(* Poly::switch_down in a ring of degree one. *)
SwitchDownValue(x, l) == ((x + Moduli[Len(Moduli) - l] \div 2) \div Moduli[Len(Moduli) - l]) % Q(l + 1)

(* Mutant: the deepest level is not switched to.                           *)
SwitchedDownShort(k) ==
    IF k.level + 1 < Len(Moduli) - 1
    THEN [k EXCEPT !.c = [i \in DOMAIN k.c |-> SwitchDownValue(k.c[i], k.level)],
                   !.level = k.level + 1]
    ELSE k

(* Ciphertext::switch_down, which does nothing at the last level.          *)
SwitchedDown(k) ==
    IF k.level < Len(Moduli) - 1
    THEN [k EXCEPT !.c = [i \in DOMAIN k.c |-> SwitchDownValue(k.c[i], k.level)],
                   !.level = k.level + 1]
    ELSE k

StartLoop(k, target, use) ==
    /\ loop = None
    /\ loop' = [k |-> k, target |-> target, use |-> use]
    /\ UNCHANGED << task, sk, gen, board, acc, pk, r1, rlk, ct, out >>

StartEncrypt(l) ==
    /\ pk # None /\ ct = None
    /\ StartLoop([c |-> pk.c, level |-> pk.level, key |-> pk.of.key], l, "encrypt")

StartPublicKeySwitch(k) ==
    /\ ct # None /\ out = None
    /\ StartLoop(k, ct.level, "pks")

LoopStep ==
    /\ loop # None /\ loop.k.level # loop.target
    /\ loop' = [loop EXCEPT !.k = SwitchedDown(loop.k)]
    /\ UNCHANGED << task, sk, gen, board, acc, pk, r1, rlk, ct, out >>

LoopLeft(use) ==
    loop # None /\ loop.use = use /\ loop.k.level = loop.target /\ loop' = None

(* Plaintext::to_poly *)
ToPoly(m, l) == (Q(l) * m) \div T

(* PublicKey::try_encrypt, after the loop. *)
FinishEncrypt(m, u, e1, e2) ==
    LET l == loop.target
    IN  /\ LoopLeft("encrypt")
        /\ ct' = [c |-> << (u * loop.k.c[1] + e1 + ToPoly(m, l)) % Q(l),
                           (u * loop.k.c[2] + e2) % Q(l) >>,
                  level |-> l, m |-> m, key |-> loop.k.key, good |-> pk.of.same]
        /\ UNCHANGED << task, sk, gen, board, acc, pk, r1, rlk, out >>

(* PublicKeySwitchShare::new, after the loop. *)
FinishPublicKeySwitchShare(p, u, e0, e1) ==
    /\ LoopLeft("pks") /\ out = None
    /\ Publish(PublicKeySwitchShare(p, ct, loop.k, u, e0, e1))
    /\ UNCHANGED gen

(* A product of ciphertexts has three parts: c2 = z takes z * key^2 with   *)
(* it, so that the message stays.                                          *)
Multiply(z) ==
    /\ ct # None /\ Len(ct.c) = 2 /\ board = {} /\ loop = None /\ out = None
    /\ ct' = [ct EXCEPT !.c = << (ct.c[1] - z * ct.key * ct.key) % Q(ct.level), ct.c[2], z >>]
    /\ UNCHANGED << task, sk, gen, board, acc, pk, r1, rlk, loop, out >>

Next ==
    \/ \E p \in Party :
        \/ \E v \in CrpVector, u \in Mask : NewGenerator(p, v, u)
        \/ \E e0, e1 \in NoiseRow : Round1(p, e0, e1)
        \/ \E r \in r1, e0, e1 \in NoiseRow : Round2(p, r, e0, e1)
        \/ \E c \in Crp, e \in Noise : PublishPublicKeyShare(p, c, e)
        \/ \E e \in Noise : PublishSecretKeySwitchShare(p, e)
        \/ \E e \in Noise : PublishDecryptionShare(p, e)
        \/ \E u \in Mask, e0, e1 \in Noise : FinishPublicKeySwitchShare(p, u, e0, e1)
    \/ \E s \in board : Begin(s) \/ Absorb(s)
    \/ AbsorbErr
    \/ FinishPublicKey \/ FinishRound1 \/ FinishRelinKey
    \/ FinishSecretKeySwitch \/ FinishDecryption \/ FinishPublicKeySwitch
    \/ \E l \in Levels : StartEncrypt(l)
    \/ \E k \in Recipient : StartPublicKeySwitch(k)
    \/ LoopStep
    \/ \E m \in 0 .. T - 1, u \in Mask, e1, e2 \in Noise : FinishEncrypt(m, u, e1, e2)
    \/ \E z \in ThirdPart : Multiply(z)

Spec == Init /\ [][Next]_vars /\ WF_vars(LoopStep)
-----------------------------------------------------------------------------
(* Properties. *)

Residues(l) == 0 .. Q(l) - 1

(* Every sum that is published or aggregated is reduced modulo the modulus *)
(* of its level, and an aggregation never has fewer than one share.        *)
TypeOK ==
    /\ task \in {"relin", "cipher"}
    /\ sk \in Secret
    /\ \A p \in Party : gen[p] # None => gen[p].u \in Mask /\ gen[p].crp \in CrpVector
    /\ \A s \in board : \A i \in DOMAIN s.h0 : s.h0[i] \in Residues(LevelOf(s))
    /\ acc # None => /\ acc.count \in 1 .. MaxAbsorbed
                     /\ \A i \in DOMAIN acc.h0 : acc.h0[i] \in Residues(LevelOf(acc.first))
    /\ pk # None => pk.level \in Levels /\ pk.c[1] \in Residues(pk.level)
    /\ rlk # None => \A i \in Row : rlk.c0[i] \in Residues(0)
    /\ ct # None => ct.level \in Levels
    /\ loop # None => loop.k.level \in Levels

(* The ciphertexts that ct may be, none of which is None.                  *)
Ciphertext ==
    [c : Seq(Int), level : Levels, m : 0 .. T - 1, key : Int, good : BOOLEAN]

ASSUME NoneAssumption == None \notin Ciphertext

Abs(x) == IF x < 0 THEN -x ELSE x

ASSUME BoundsAssumption ==
    /\ SecretBound \in Nat /\ MaskBound \in Nat
    /\ RecipientBound \in Nat /\ RecipientNoise \in Nat
    /\ \A s \in Secret : \A p \in Party : Abs(s[p]) <= SecretBound
    /\ \A u \in Mask : Abs(u) <= MaskBound
    /\ Recipient \subseteq [c : Int \X Int, level : Levels, key : -RecipientBound .. RecipientBound]
    /\ \A k \in Recipient :
          Abs(Centered(k.c[1] + k.c[2] * k.key, Q(k.level))) <= RecipientNoise

(* The shares of one aggregation under one common random polynomial, in    *)
(* any order and number, make an encryption of zero under the sum of their *)
(* secrets, with no more noise than one error for each (PublicKeyShare::new*)
(* and Aggregate<PublicKeyShare>).                                         *)
CollectiveKey ==
    pk # None /\ pk.of.same =>
        /\ (pk.c[1] + pk.c[2] * pk.of.key - pk.of.noise) % Q(pk.level) = 0
        /\ Abs(pk.of.noise) <= pk.of.count * NoiseBound

(* The largest noise of a relinearization key of n shares in each round.   *)
RelinNoise(of, n) == (Abs(of.key) + Abs(of.mask) + 2) * n * NoiseBound

(* A key whose two rounds were run by the same shares of the secret and of *)
(* the masks, on one CRP vector and one aggregate of the first round, key  *)
(* switches each Garner coefficient times the squared collective secret.   *)
CollectiveRelinKey ==
    /\ rlk # None
    /\ rlk.of.same /\ rlk.r1.same
    /\ rlk.of.key = rlk.r1.key /\ rlk.of.mask = rlk.r1.mask
    /\ rlk.of.count = rlk.r1.count
    =>  LET k == rlk.of.key
        IN  \A i \in Row :
               Abs(Centered(rlk.c0[i] + rlk.c1[i] * k - Garner[i] * k * k, Q(0)))
                   <= RelinNoise(rlk.of, rlk.of.count)

(* An output made of shares of one ciphertext under one correct key, whose *)
(* secrets add up to that key.                                             *)
Complete(kind) ==
    out # None /\ out.kind = kind /\ out.of.same /\ out.of.key = out.from /\ ct.good

(* The noise that the operations leave at most.  Switching a key down      *)
(* divides its noise by at least two, and rounds every part of it.         *)
KeyBound == MaxAbsorbed * SecretBound

AfterSwitching(noise, bound) == IF noise <= 1 + bound THEN 1 + bound ELSE noise

EncryptionNoise(noise, bound) ==
    MaskBound * AfterSwitching(noise, bound) + NoiseBound + NoiseBound * bound

CiphertextNoise == EncryptionNoise(MaxAbsorbed * NoiseBound, KeyBound)

SwitchNoise == EncryptionNoise(RecipientNoise, RecipientBound)

(* The moduli leave room for that noise at every level, and for a value    *)
(* that is negative when the plaintext is decoded.                         *)
WithinBudget ==
    /\ \A l \in Levels : 2 * T * (CiphertextNoise + MaxAbsorbed * SwitchNoise + 1) <= Q(l)
    /\ 3 * T < 2 * Moduli[1]

(* Decryption shares of a complete set of parties give back the message,   *)
(* at every level and however the public key was switched down to it       *)
(* (DecryptionShare and Aggregate<DecryptionShare> for Plaintext).         *)
DecryptsTogether == Complete("dec") => out.value = out.m

(* A complete key switch leaves a ciphertext of the same message under the *)
(* sum of the output secrets (Aggregate<SecretKeySwitchShare>).            *)
SwitchedToOutputKeys ==
    Complete("sks") => Decoded(out.c[1] + out.c[2] * out.key, out.level) = out.m

(* A complete public key switch of a ciphertext of two parts leaves one of *)
(* the same message under the recipient's key (PublicKeySwitchShare).      *)
SwitchedToPublicKey ==
    Complete("pks") /\ out.parts = 2 =>
        Decoded(out.c[1] + out.c[2] * out.key, out.level) = out.m

(* The loops that switch a public key down end when the key is not already *)
(* below the level asked for.  From below they never end: switch_down does *)
(* nothing at the last level and the loops only test for another level.    *)
LoopEnds ==
    (loop # None /\ loop.k.level <= loop.target)
        ~> (loop = None \/ loop.k.level = loop.target)
=============================================================================
