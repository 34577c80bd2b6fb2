---------------------------- MODULE KeySwitching ----------------------------
(***************************************************************************)
(* Key switching with numbers (KeySwitchingKey): a polynomial is taken     *)
(* apart into digits, each of which multiplies one row of the key.         *)
(* Relinearization, Galois keys and the product with an RGSW ciphertext    *)
(* are such calls.  The ring has degree one; a Galois key substitutes the  *)
(* secret key, which stands here beside the key as a second number.        *)
(***************************************************************************)
EXTENDS RnsNumbers

CONSTANTS
    SwitchModuli,   \* the ciphertext moduli, in order
    SwitchSecrets,  \* records [s, sub]: the secret key, and substituted
    SwitchErrors,   \* the errors drawn for the rows, sequences
    MaxError,       \* the largest absolute value of them
    Expand,         \* Expand[seed][level][i]: the i-th polynomial of a seed
    RgswMessages,   \* plaintexts of RGSW ciphertexts
    Inputs,         \* Inputs[level]: ciphertexts, triples of residues
    NoSwitch

VARIABLE switching  \* [kind, s, keys, ct, out] and (history) sub, m

ContextAt(level) == SubSeq(SwitchModuli, 1, Len(SwitchModuli) - level)

SwitchLevels == 0 .. Len(SwitchModuli) - 1

ModulusAt == [level \in SwitchLevels |-> ProductOf(ContextAt(level))]

CenteredAt(x, level) ==
    LET q == ModulusAt[level]
        r == x % q
    IN  IF 2 * r > q THEN r - q ELSE r

(* next_power_of_two().ilog2() of the first modulus, and half of it.       *)
LogModulus == NextPowerOfTwoLog(SwitchModuli[1])

(* Digits are residues, but of a key with a single modulus base 2^log_base.*)
LogBase(kskLevel) == IF Len(ContextAt(kskLevel)) = 1 THEN LogModulus \div 2 ELSE 0

Rows(ctLevel, kskLevel) ==
    LET logBase == LogBase(kskLevel)
    IN  IF logBase # 0 THEN (LogModulus + logBase - 1) \div logBase
        ELSE Len(ContextAt(ctLevel))

(* What the i-th digit counts for. *)
Gadget(ctLevel, kskLevel, i) ==
    IF LogBase(kskLevel) # 0 THEN Pow2[(i - 1) * LogBase(kskLevel)]
    ELSE GarnerOf(ContextAt(ctLevel), i)

(* The moduli make a context; errors and polynomials are drawn for every  *)
(* row, and ciphertexts have residues as coefficients.                     *)
ASSUME SwitchAssumption ==
    /\ SwitchModuli \in Seq(Nat) /\ RnsContextOk(SwitchModuli)
    /\ SwitchSecrets \subseteq [s : Int, sub : Int] /\ RgswMessages \subseteq Int /\ MaxError \in Nat
    /\ \A ctLevel, kskLevel \in SwitchLevels : \A i \in 1 .. Rows(ctLevel, kskLevel) :
          /\ \A e \in SwitchErrors : e[i] \in -MaxError .. MaxError
          /\ \A seed \in DOMAIN Expand : Expand[seed][kskLevel][i] \in Int
    /\ \A level \in SwitchLevels : Inputs[level] \subseteq [1 .. 3 -> 0 .. ModulusAt[level] - 1]

GenerateC1(kskLevel, seed, size) == [i \in 1 .. size |-> Expand[seed][kskLevel][i]]

(* KeySwitchingKey::new: rows e - a s + g from. *)
NewKey(s, from, ctLevel, kskLevel, seed, e) ==
    LET c1 == GenerateC1(kskLevel, seed, Rows(ctLevel, kskLevel))
    IN  [ctLevel |-> ctLevel, kskLevel |-> kskLevel, logBase |-> LogBase(kskLevel),
         seed |-> seed, c1 |-> c1,
         c0 |-> [i \in DOMAIN c1 |->
                   (e[i] - c1[i] * s + Gadget(ctLevel, kskLevel, i) * CenteredAt(from, kskLevel))
                       % ModulusAt[kskLevel]]]

(* Mutant: the secret extended to the moduli of the key, not scaled up.    *)
ExtendedUp(x, ctLevel, kskLevel) == CenteredAt(x, ctLevel) % ModulusAt[kskLevel]

(* Switcher::switch to a context of more moduli: exact on small numbers.   *)
SwitchedUp(x, ctLevel, kskLevel) ==
    (CenteredAt(x, ctLevel) * (ModulusAt[kskLevel] \div ModulusAt[ctLevel])) % ModulusAt[kskLevel]

(* Bytes hold the rows c0 and the seed.                                    *)
KeyToBytes(k) ==
    [ctLevel |-> k.ctLevel, kskLevel |-> k.kskLevel, logBase |-> k.logBase,
     seed |-> k.seed, c0 |-> k.c0]

KeyFromBytesOk(b) ==
    /\ b.logBase # 0 => \A l \in SwitchLevels : l <= b.ctLevel /\ l <= b.kskLevel
    /\ Len(b.c0) = IF b.logBase = 0 THEN Len(ContextAt(b.ctLevel))
                   ELSE (LogModulus + b.logBase - 1) \div b.logBase

KeyFromBytes(b) ==
    [ctLevel |-> b.ctLevel, kskLevel |-> b.kskLevel, logBase |-> b.logBase,
     seed |-> b.seed, c0 |-> b.c0, c1 |-> GenerateC1(b.kskLevel, b.seed, Len(b.c0))]

(* The i-th digit of a residue. *)
Digit(k, p, i) ==
    IF k.logBase = 0 THEN p % SwitchModuli[i]
    ELSE (p \div Pow2[(i - 1) * k.logBase]) % Pow2[k.logBase]

(* key_switch, key_switch_assign and key_switch_decomposition *)
KeySwitch(k, p) ==
    [j \in 1 .. 2 |->
        SumOf([i \in DOMAIN k.c0 |-> Digit(k, p, i) * (IF j = 1 THEN k.c0 ELSE k.c1)[i]], Len(k.c0))
            % ModulusAt[k.kskLevel]]

(* switch_down_to: one modulus after the other, to the nearest.            *)
BroughtDown(x, from, to) ==
    LET f[l \in from .. to] ==
            IF l = from THEN x
            ELSE LET q == SwitchModuli[Len(SwitchModuli) - l + 1]
                 IN  ((f[l - 1] + q \div 2) \div q) % ModulusAt[l]
    IN  f[to]

SwitchedParts(k, p) ==
    [j \in 1 .. 2 |-> BroughtDown(KeySwitch(k, p)[j], k.kskLevel, k.ctLevel)]

PartsSum(x, y, level) == [j \in 1 .. 2 |-> (x[j] + y[j]) % ModulusAt[level]]

-----------------------------------------------------------------------------

SwitchingInit == switching = NoSwitch

Keys(kind, sec, m, keys) ==
    /\ switching = NoSwitch
    /\ switching' = [kind |-> kind, s |-> sec.s, sub |-> sec.sub, m |-> m, keys |-> keys,
                     ct |-> << >>, out |-> << >>]

(* RelinearizationKey::new_leveled.  A key of fewer moduli than ciphertexts*)
(* have can be made, but relinearizes nothing (see RelinearizesOk).        *)
MakeRelinKey(sec, ctLevel, kskLevel, seed, e) ==
    /\ kskLevel <= ctLevel /\ Len(ContextAt(kskLevel)) # 1
    /\ Keys("relin", sec, 0,
            << NewKey(sec.s, SwitchedUp(sec.s * sec.s, ctLevel, kskLevel), ctLevel, kskLevel, seed, e) >>)

(* GaloisKey::new, with the levels that EvaluationKeyBuilder accepts.      *)
MakeGaloisKey(sec, ctLevel, kskLevel, seed, e) ==
    /\ kskLevel <= ctLevel
    /\ Keys("galois", sec, 0,
            << NewKey(sec.s, SwitchedUp(sec.sub, ctLevel, kskLevel), ctLevel, kskLevel, seed, e) >>)

(* Mutant: both keys switch from the message. *)
RgswKeysAlike(sec, m, level, seed, e) ==
    << NewKey(sec.s, m, level, level, seed, e), NewKey(sec.s, m, level, level, seed, e) >>

RgswKeys(sec, m, level, seed, e) ==
    << NewKey(sec.s, m, level, level, seed, e), NewKey(sec.s, m * sec.s, level, level, seed, e) >>

(* SecretKey::try_encrypt to an RGSWCiphertext *)
EncryptRgsw(sec, m, level, seed, e) == Keys("rgsw", sec, m, RgswKeys(sec, m, level, seed, e))

(* to_bytes and from_bytes of a key or an RGSW ciphertext, whose keys must *)
(* have the same level twice.                                              *)
SendKeys ==
    /\ switching # NoSwitch /\ switching.ct = << >>
    /\ switching.kind = "rgsw" =>
          \A k, l \in {switching.keys[1], switching.keys[2]} : k.ctLevel = l.kskLevel
    /\ \A i \in DOMAIN switching.keys : KeyFromBytesOk(KeyToBytes(switching.keys[i]))
    /\ switching' = [switching EXCEPT !.keys =
                        [i \in DOMAIN @ |-> KeyFromBytes(KeyToBytes(@[i]))]]

(* A ciphertext at the level of the keys, with any residues: three parts   *)
(* to relinearize, otherwise two.                                          *)
TakeCiphertext(c) ==
    /\ switching # NoSwitch /\ switching.ct = << >>
    /\ switching' = [switching EXCEPT !.ct = IF switching.kind = "relin" THEN c ELSE SubSeq(c, 2, 3)]

Ready(kind) ==
    /\ switching # NoSwitch /\ switching.kind = kind
    /\ switching.ct # << >> /\ switching.out = << >>

TheKey == switching.keys[1]

Give(parts) == switching' = [switching EXCEPT !.out = parts]

(* RelinearizationKey::relinearizes *)
Relinearize ==
    /\ Ready("relin")
    /\ Give(PartsSum(switching.ct, SwitchedParts(TheKey, switching.ct[3]), TheKey.ctLevel))

(* GaloisKey::relinearize *)
Rotate ==
    /\ Ready("galois")
    /\ Give(PartsSum(<< switching.ct[1], 0 >>, SwitchedParts(TheKey, switching.ct[2]), TheKey.ctLevel))

(* Mul<&RGSWCiphertext> *)
ExternalProduct ==
    /\ Ready("rgsw")
    /\ Give(PartsSum(KeySwitch(switching.keys[1], switching.ct[1]),
                     KeySwitch(switching.keys[2], switching.ct[2]), TheKey.ctLevel))

SwitchingNext ==
    \/ /\ switching = NoSwitch
       /\ \E sec \in SwitchSecrets, ctLevel \in SwitchLevels, seed \in DOMAIN Expand, e \in SwitchErrors :
            \/ \E kskLevel \in SwitchLevels :
                \/ MakeRelinKey(sec, ctLevel, kskLevel, seed, e)
                \/ MakeGaloisKey(sec, ctLevel, kskLevel, seed, e)
            \/ \E m \in RgswMessages : EncryptRgsw(sec, m, ctLevel, seed, e)
    \/ SendKeys
    \/ switching # NoSwitch /\ \E c \in Inputs[TheKey.ctLevel] : TakeCiphertext(c)
    \/ Relinearize \/ Rotate \/ ExternalProduct

SwitchingSpec == SwitchingInit /\ [][SwitchingNext]_switching

-----------------------------------------------------------------------------

SwitchAbs(x) == IF x < 0 THEN -x ELSE x

(* The largest i-th digit, and the noise of a key switch before it is      *)
(* brought down.                                                           *)
LargestDigit(k, i) ==
    IF k.logBase = 0 THEN SwitchModuli[i] - 1
    ELSE Least({Pow2[k.logBase] - 1, (SwitchModuli[1] - 1) \div Pow2[(i - 1) * k.logBase]})

KeyNoise(k) == MaxError * SumOf([i \in DOMAIN k.c0 |-> LargestDigit(k, i)], Len(k.c0))

(* Bringing down divides the noise and rounds each part.                   *)
SwitchNoise(k) ==
    IF k.kskLevel = k.ctLevel THEN KeyNoise(k)
    ELSE (KeyNoise(k) * ModulusAt[k.ctLevel]) \div ModulusAt[k.kskLevel] + 2 + SwitchAbs(switching.s)

Done(kinds) == switching # NoSwitch /\ switching.kind \in kinds /\ switching.out # << >>

(* How far what comes out is from x, under the secret key.                 *)
Distance(x) ==
    SwitchAbs(CenteredAt(switching.out[1] + switching.out[2] * switching.s - x, TheKey.ctLevel))

(* Relinearization and rotation leave what the ciphertext decrypts to, but *)
(* for an error for every digit, at every pair of levels, with residues as *)
(* digits or bits, and with keys read back from bytes (the bound of the    *)
(* tests key_switch and key_switch_decomposition).                         *)
SwitchExact ==
    Done({"relin", "galois"}) =>
        LET c == switching.ct
            s == switching.s
        IN  Distance(IF switching.kind = "relin" THEN c[1] + c[2] * s + c[3] * s * s
                     ELSE c[1] + c[2] * switching.sub) <= SwitchNoise(TheKey)

(* The product with an RGSW ciphertext of m is m times the ciphertext, but *)
(* for the errors of two key switches (the test external_product).         *)
ExternalProductExact ==
    Done({"rgsw"}) =>
        Distance(switching.m * (switching.ct[1] + switching.ct[2] * switching.s)) <= 2 * KeyNoise(TheKey)
=============================================================================
