------------------------------ MODULE Parameters ----------------------------
(***************************************************************************)
(* The parameters of the scheme: BfvParametersBuilder, the generation of   *)
(* primes, the tables that build precomputes for every level, the default  *)
(* sets, and serialization.  Numbers keep the proportions they have in the *)
(* program to the W bits of a word.                                        *)
(***************************************************************************)
EXTENDS RnsNumbers, FiniteSets

CONSTANTS
    MinBits,            \* the fewest and most bits of a modulus: 10 and 62
    MaxBits,
    Headroom,           \* bits reserved above a product: 60
    Degrees,            \* arguments of the setters
    PlaintextModuli,
    SizeLists,
    ModuliLists,
    VarianceChoices,
    DefaultSets,        \* the sets of default_parameters_128: [degree, moduli]
    DefaultBits,        \* the sizes of plaintext moduli asked of it
    NoParameters

(* The arguments of setters are words and numbers, the default sets words; *)
(* a modulus leaves two bits of a word free, as 62 of 64, and no more bits *)
(* are reserved than it has.                                               *)
ASSUME ParametersAssumption ==
    /\ MinBits \in Nat \ {0} /\ MaxBits \in Nat /\ MaxBits = W - 2
    /\ Headroom \in Nat /\ Headroom <= MaxBits
    /\ Degrees \subseteq Word /\ PlaintextModuli \subseteq Nat /\ VarianceChoices \subseteq Nat
    /\ SizeLists \subseteq Seq(Nat) /\ ModuliLists \subseteq Seq(Word)
    /\ \A s \in DefaultSets : s.degree \in Word /\ s.moduli \in Seq(Word)

VARIABLES
    builder,    \* [degree, t, variance, moduli, sizes], and what build refused
    par,        \* the parameters built
    reloaded    \* a copy of them that was serialized and deserialized

Bits(x) == W - LeadingZeros[x]

Largest(S) == CHOOSE x \in S : \A y \in S : y <= x

-----------------------------------------------------------------------------

(* Mutant: any number of bits will do.                                     *)
GeneratePrimeBelow(bits, modulo, upper) ==
    LET primes == {x \in 0 .. upper - 1 : x % modulo = 1 /\ IsPrime(x)}
    IN  IF primes = {} THEN 0 ELSE Largest(primes)

(* generate_prime: down to the first candidate, then in steps of modulo,   *)
(* while the number of bits lasts; 0 when there is none.                   *)
GeneratePrime(bits, modulo, upper) ==
    LET first == Largest({x \in 0 .. upper - 1 : x % modulo = 1 \/ Bits(x) # bits})
        last == Largest({x \in 0 .. first : /\ (first - x) % modulo = 0
                                            /\ Bits(x) # bits \/ IsPrime(x) \/ x < modulo})
    IN  IF bits \in MinBits .. MaxBits /\ Bits(last) = bits /\ IsPrime(last) THEN last ELSE 0

(* The primes of a size, from the top. *)
PrimesDown(size, modulo) ==
    LET p[k \in Nat] ==
            IF k = 0 THEN Pow2[size]
            ELSE LET upper == p[k - 1]
                 IN  IF upper = 0 THEN 0 ELSE GeneratePrime(size, modulo, upper)
    IN  p

(* The inner loop of generate_moduli: the largest prime not yet taken.     *)
NextModulus(size, degree, taken) ==
    LET p == PrimesDown(size, 2 * degree)
        k == Least({k \in 1 .. Cardinality(taken) + 1 : p[k] \notin taken})
    IN  p[k]

(* Primes of the sizes, one after the other, that are not used; 0 if none. *)
PrimesOf(sizes, degree, used) ==
    LET f[i \in 0 .. Len(sizes)] ==
            IF i = 0 THEN << >>
            ELSE Append(f[i - 1],
                    IF sizes[i] \notin MinBits .. MaxBits THEN 0
                    ELSE NextModulus(sizes[i], degree,
                                     (used \cup {f[i - 1][j] : j \in 1 .. i - 1}) \ {0}))
    IN  f[Len(sizes)]

(* generate_moduli; a zero among them is an error. *)
GenerateModuli(sizes, degree) == PrimesOf(sizes, degree, {})

-----------------------------------------------------------------------------
(* build *)

IsPowerOfTwo(d) == d >= 1 /\ d = Pow2[Bits(d) - 1]

DegreeOk(d) == d >= 8 /\ IsPowerOfTwo(d)

(* PlaintextModulus: a modulus of a word, or a larger number. *)
IsSmall(t) == t < B

PlaintextOk(t) == IsSmall(t) => NewModulusOk(t)

SizesOf(moduli) == [i \in DOMAIN moduli |-> Bits(moduli[i])]

SumOfSizes(sizes, n) == SumOf(sizes, n)

(* Of a number of any size. *)
BitsOf(x) == LET b[n \in 0 .. x] == IF n = 0 THEN 0 ELSE 1 + b[n \div 2] IN b[x]

(* plaintext_moduli_count *)
PlaintextCount(sizes, t) ==
    Least({Len(sizes)} \cup
        {n \in 1 .. Len(sizes) : SumOfSizes(sizes, n) >= BitsOf(t) + Headroom})

NttModulus(q, degree) == IsPrime(q) /\ q % (2 * degree) = 1

ContextOk(moduli, degree) ==
    RnsContextOk(moduli) /\ \A i \in DOMAIN moduli : NttModulus(moduli[i], degree)

FirstModuli(moduli, level) == SubSeq(moduli, 1, Len(moduli) - level)

(* delta: the rests are the inverses of -t, where they exist. *)
DeltaOk(moduli, t) == \A i \in DOMAIN moduli : t % moduli[i] # 0

Delta(moduli, t) ==
    Lift(moduli, [i \in DOMAIN moduli |->
        CHOOSE w \in 0 .. moduli[i] - 1 : (w * (moduli[i] - (t % moduli[i]))) % moduli[i] = 1])

(* CipherPlainContext of a level *)
CipherPlain(moduli, t) ==
    [delta |-> Delta(moduli, t), qModT |-> ProductOf(moduli) % t, threshold |-> (t + 1) \div 2]

(* n + 1 primes of the largest size, none of them a modulus.               *)
ExtendedBasis(moduli, degree) ==
    PrimesOf([i \in 1 .. Len(moduli) + 1 |-> MaxBits], degree, {moduli[i] : i \in DOMAIN moduli})

(* build panics when there are not as many.                                *)
BasisOk(moduli, degree) == \A i \in 1 .. Len(moduli) + 1 : ExtendedBasis(moduli, degree)[i] # 0

(* Mutant: rounded down.                                                   *)
ExtensionCountFloor(size) == (size + Headroom) \div MaxBits

ExtensionCount(size) == (size + Headroom + MaxBits - 1) \div MaxBits

(* MultiplicationParameters: the moduli of the context for products. *)
MultiplicationModuli(moduli, level, basis) ==
    FirstModuli(moduli, level)
        \o SubSeq(basis, 1, ExtensionCount(SumOfSizes(SizesOf(moduli), Len(moduli) - level)))

ModuliOf(b) == IF b.sizes = << >> THEN b.moduli ELSE GenerateModuli(b.sizes, b.degree)

(* The error that build returns, if any. *)
BuildError(b) ==
    IF ~DegreeOk(b.degree) THEN "degree"
    ELSE IF ~PlaintextOk(b.t) THEN "plaintext"
    ELSE IF b.moduli # << >> /\ b.sizes # << >> THEN "conflict"
    ELSE IF b.moduli = << >> /\ b.sizes = << >> THEN "missing"
    ELSE LET moduli == ModuliOf(b)
         IN  IF \E i \in DOMAIN moduli : moduli[i] = 0 THEN "primes"
             ELSE IF ~ContextOk(moduli, b.degree) THEN "moduli"
             ELSE IF ~DeltaOk(moduli, b.t) THEN "inverse"
             ELSE IF ~BasisOk(moduli, b.degree) THEN "panic"
             ELSE "none"

Built(b) ==
    LET moduli == ModuliOf(b)
        n == Len(moduli)
        basis == ExtendedBasis(moduli, b.degree)
    IN  [degree |-> b.degree, t |-> b.t, variance |-> b.variance, moduli |-> moduli,
         sizes |-> SizesOf(moduli), simd |-> IsSmall(b.t) /\ NttModulus(b.t, b.degree),
         plaintext |-> SubSeq(moduli, 1, PlaintextCount(SizesOf(moduli), b.t)),
         level |-> [k \in 0 .. n - 1 |-> CipherPlain(FirstModuli(moduli, k), b.t)],
         mul |-> [k \in 0 .. n - 1 |-> MultiplicationModuli(moduli, k, basis)]]

-----------------------------------------------------------------------------

NewBuilder ==
    [degree |-> 0, t |-> 0, variance |-> 10, moduli |-> << >>, sizes |-> << >>, refused |-> "none"]

ParametersInit ==
    builder = NewBuilder /\ par = NoParameters /\ reloaded = NoParameters

Set(b) ==
    par = NoParameters /\ builder' = [b EXCEPT !.refused = "none"] /\ UNCHANGED << par, reloaded >>

SetDegree(d) == Set([builder EXCEPT !.degree = d])
SetPlaintextModulus(t) == Set([builder EXCEPT !.t = t])
SetModuliSizes(s) == Set([builder EXCEPT !.sizes = s])
SetModuli(m) == Set([builder EXCEPT !.moduli = m])
SetVariance(v) == Set([builder EXCEPT !.variance = v])

(* The builder is left alone once it has built. *)
Build ==
    /\ par = NoParameters
    /\ LET e == BuildError(builder)
       IN  IF e = "none" THEN par' = Built(builder) /\ builder' = NewBuilder
           ELSE builder' = [builder EXCEPT !.refused = e] /\ par' = par
    /\ UNCHANGED reloaded

(* default_parameters_128, for one of its sets: the plaintext modulus is   *)
(* generated, and the set dropped when its moduli together have fewer bits.*)
DefaultParameters(set, bits) ==
    /\ par = NoParameters /\ builder = NewBuilder
    /\ LET t == GeneratePrime(bits, 2 * set.degree, Pow2[bits] - 1)
           b == [NewBuilder EXCEPT !.degree = set.degree, !.t = t, !.moduli = set.moduli]
       IN  /\ t # 0 /\ SumOfSizes(SizesOf(set.moduli), Len(set.moduli)) >= bits
           /\ BuildError(b) = "none" /\ par' = Built(b)
    /\ UNCHANGED << builder, reloaded >>

(* Mutant: the variance is not among the fields read.                      *)
ReloadBuilderDefault(p) == [NewBuilder EXCEPT !.degree = p.degree, !.t = p.t, !.moduli = p.moduli]

(* to_bytes and try_deserialize *)
ReloadBuilder(p) ==
    [NewBuilder EXCEPT !.degree = p.degree, !.t = p.t, !.moduli = p.moduli, !.variance = p.variance]

Reload ==
    /\ par # NoParameters /\ reloaded = NoParameters
    /\ LET e == BuildError(ReloadBuilder(par))
       IN  reloaded' = IF e = "none" THEN Built(ReloadBuilder(par)) ELSE [refused |-> e]
    /\ UNCHANGED << builder, par >>

ParametersNext ==
    \/ \E d \in Degrees : SetDegree(d)
    \/ \E t \in PlaintextModuli : SetPlaintextModulus(t)
    \/ \E s \in SizeLists : SetModuliSizes(s)
    \/ \E m \in ModuliLists : SetModuli(m)
    \/ \E v \in VarianceChoices : SetVariance(v)
    \/ Build
    \/ \E s \in DefaultSets, bits \in DefaultBits : DefaultParameters(s, bits)
    \/ Reload
-----------------------------------------------------------------------------

(* Moduli are distinct primes with transforms of the degree, and when they *)
(* were generated, they have the sizes asked for (their recomputed sizes   *)
(* are those); build refuses sizes only when they are out of range or      *)
(* there are fewer primes of a size than it occurs.                        *)
ModuliAsAsked ==
    /\ par # NoParameters =>
        /\ \A i \in DOMAIN par.moduli : NttModulus(par.moduli[i], par.degree)
        /\ \A i, j \in DOMAIN par.moduli : i # j => par.moduli[i] # par.moduli[j]
    /\ builder.sizes # << >> /\ DegreeOk(builder.degree) =>
        LET moduli == GenerateModuli(builder.sizes, builder.degree)
            Wanted(s) == Cardinality({i \in DOMAIN builder.sizes : builder.sizes[i] = s})
            Primes(s) == Cardinality({q \in Word : NttModulus(q, builder.degree) /\ Bits(q) = s})
        IN  IF \E i \in DOMAIN moduli : moduli[i] = 0
            THEN \E i \in DOMAIN moduli : \/ builder.sizes[i] \notin MinBits .. MaxBits
                                          \/ Wanted(builder.sizes[i]) > Primes(builder.sizes[i])
            ELSE SizesOf(moduli) = builder.sizes

(* At every level delta is minus the inverse of t, and the moduli for      *)
(* products are pairwise coprime and exceed the square of the ciphertext   *)
(* modulus twice, so that the sum of two products of centred numbers does  *)
(* not wrap around (parameters.rs: "we want to extend to a context that is *)
(* ~60 bits larger").                                                      *)
LevelsComplete ==
    par # NoParameters =>
        \A k \in DOMAIN par.level :
            LET q == FirstModuli(par.moduli, k)
            IN  /\ (par.level[k].delta * par.t + 1) % ProductOf(q) = 0
                /\ RnsContextOk(par.mul[k]) /\ SubSeq(par.mul[k], 1, Len(q)) = q
                /\ 2 * ProductOf(q) < ProductOf(SubSeq(par.mul[k], Len(q) + 1, Len(par.mul[k])))

(* Parameters that were written and read are the parameters.               *)
ReloadsSame == reloaded # NoParameters => reloaded = par
=============================================================================
