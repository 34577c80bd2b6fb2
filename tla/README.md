# TLA+ models of fhe.rs

These modules model the Rust library `fhe.rs` (crates `fhe`, `fhe-math`,
`fhe-traits`, `fhe-util` under `src/crates/`), an implementation of the BFV
homomorphic encryption scheme and of its multiparty extension. TLC checks the
models on small instances and TLAPS proves the main invariants for every
instance.

## The system

The library is sequential: no threads, no I/O, no persistence. Its difficulty
is elsewhere. Values carry redundant descriptions of themselves (a level, a
chain of contexts, a seed that stands for a polynomial), operations check one
description and compute with another, many checks exist in debug builds only,
and keys, parameters and ciphertexts built at different times and by different
parties meet in one call. The behaviours worth checking are therefore long
sequences of legal calls, with operands of different origins, and the numeric
boundaries of the arithmetic.

| Component | State | Operations | What makes it correct |
|---|---|---|---|
| Modulus chain, levels (`bfv/parameters.rs`, `bfv/context`, `rq/context.rs`) | immutable list of contexts, each one modulus shorter | `context_at_level`, `level_of_context`, `niterations_to` | level and context determine each other within one parameter set |
| Ciphertext (`bfv/ciphertext.rs`) | parameters, parts, seed, level | `new`, `zero`, `switch_down`, `switch_to_level`, bytes and back, `DerefMut` | level, contexts and seed agree with the parts |
| Ciphertext arithmetic (`bfv/ops`) | none | `+ - *` with ciphertexts and plaintexts, dot product, `Multiplicator` | results consistent; fused forms equal the plain ones |
| Secret and public key (`bfv/keys`) | coefficients; an encryption of zero | encrypt, decrypt | decryption undoes encryption at every level |
| Key switching, relinearization, Galois keys | two rows of polynomials, two levels | switch a polynomial to another key | result at the level of the ciphertext |
| Evaluation key | map from Galois exponents to keys, two levels | rotations, inner sum, expansion, builder, bytes | what is advertised can be computed |
| RGSW ciphertext | two key switching keys | external product | level and parameters agree |
| Plaintext, encodings | values, polynomial, level | encode, decode | decoding undoes encoding |
| Parameters builder | the fields set so far | setters, `build` | moduli distinct primes, precomputed constants right |
| Multiparty (`mbfv`) | shares | generate share, aggregate | the aggregate is what one party with the summed key would make |
| `fhe-math` | none | modular arithmetic, RNS, NTT, polynomials | exact arithmetic within word bounds |

Components meet through values: encryption makes ciphertexts from plaintexts
and keys; key operations combine a ciphertext with a key that may come from
another parameter handle; serialization drops the parameters, which the
receiver supplies. Parameters are shared by reference (`Arc`), and the code
compares them sometimes by identity (`Arc::ptr_eq`), sometimes by value, and
sometimes not at all. The models keep that difference.

## Modules

Ciphertexts and keys as bookkeeping:

| Module | What it models |
|---|---|
| `Contexts` | parameter handles, chains of moduli, levels, contexts |
| `Ciphertexts` | polynomials, ciphertexts, plaintexts; construction, encryption, `+ - *`, dot product, modulus switching |
| `KeyOperations` | the keys that can be built; relinearization, rotation, inner sum, `Multiplicator`, RGSW product; bytes and back |
| `CiphertextOps` | the state machine: registers of ciphertexts and one action per public operation, with the properties |
| `PlainRing` | the plaintext ring, substitution of powers of X, slots |
| `EvaluationKeys` | the builder, the key, its bytes, and calls of rotations, inner sum and expansion, one step per Galois key applied |
| `PromisedCalls` | abstract specification of those calls: one answer per request, no keys |

Protocols:

| Module | What it models |
|---|---|
| `Multiparty` | shares of the public key, the relinearization key, key switches and decryptions, and their aggregation |

Numbers:

| Module | What it models |
|---|---|
| `Words` | `zq::Modulus` on machine words: Barrett, Shoup, lazy and optimized reductions, powers, centring |
| `Residues` | one entry of a vector under the vector operations of `Modulus` |
| `Transform` | `NttOperator` chunk by chunk, substitution, products and powers of X on a row |
| `Slots` | encoding and decoding, rotations of slots (extends `Transform`) |
| `Streams` | the transcoders of `fhe-util` and the pool of the noise sampler, bit by bit |
| `RnsNumbers`, `Scaling` | `RnsContext`, `RnsScaler` in fixed point, and calls of `Scaler` |
| `Polynomials` | `Poly` over a chain of contexts: representations, arithmetic, lazy coefficients, switching down |
| `Accumulator` | `rq::dot_product` with its double words |
| `KeySwitching` | key switching keys with numbers: rows, digits, relinearization, rotation, RGSW product, bytes |
| `Arithmetic` | the machines above side by side |
| `Parameters` | `BfvParametersBuilder`: setters, generated moduli, precomputed numbers, bytes |
| `Scheme` | encryption, arithmetic, switching and decryption with numbers and noise, on parameters that `Parameters` builds |

`MCCiphertextOps`, `MCEvaluationKeys`, `MCMultiparty`, `MCArithmetic` and
`MCScheme` are the instances for TLC. The theorems are in:

| Module | What it proves |
|---|---|
| `NumberLemmas` | what the other proofs share: division, congruence, errors, induction, recursive functions, powers, sums over finite sets, Fermat's theorem |
| `WordLemmas` | every reduction, power and inverse of words; contexts of coprime moduli: Garner's coefficients, the Chinese remainder, projecting and lifting |
| `CiphertextOps_proof` | the invariants of ciphertexts and keys as bookkeeping |
| `EvaluationKeys_proof` | the invariants of evaluation keys and of their calls, and that the calls implement `PromisedCalls` |
| `Multiparty_proof` | what the aggregates of keys are, and that what all parties decrypt or switch keeps its message |
| `TransformSwitch_proof` | the number-theoretic transform and the operations on transformed rows; key switching |
| `Arithmetic_proof` | entries of vectors, dot products, encodings in slots and what operations on plaintexts do to slots, bit pools, polynomials at several moduli, and all of these side by side |
| `Scheme_proof` | parameters, decryption, the noise of every operation and its measure |

### State and actions: ciphertexts

`reg` holds the ciphertexts of a program. A ciphertext is the Rust struct
field by field: `par`, `c`, `seed`, `level`. A polynomial is reduced to its
context and to where its coefficients come from: the seed they were expanded
from, `Derived` when they were computed from polynomials of the same context,
`Mixed` when rows of different contexts went into them. `Mixed` is what a
release build computes where a debug build stops in
`debug_assert_eq!(self.ctx, p.ctx, "Incompatible contexts")`. Coefficients,
noise and the plaintext inside are left out of these modules.

An operation `Op` is a pair of operators: `OpOk`, the condition under which
the code returns normally (its assertions, early returns and `Err` results,
also those of the functions it calls), and `Op`, the ciphertext it returns.
The action of `CiphertextOps` is the whole call. A call that fails before
writing anything is not a step. `switch_down`, which can fail halfway, is
modelled with its partial writes (`LoweredHalfway`), and the invariants show
that this never happens.

Handles in `Params` are `Arc`s; `Value` says which are equal by `==`.

### State and actions: evaluation keys

`builder` is the struct `EvaluationKeyBuilder`, `key` the `EvaluationKey` made
from it (a function from exponents to Galois keys, each with its levels, digit
size and number of rows), `call` the local variables of a running call: the
ciphertexts computed so far and the loop counters. A ciphertext is here the
plaintext inside it, and a Galois key for exponent `e` turns `X` into `X^e`.
What the code looks up and unwraps without a test (the Galois key of a step,
the parts of its operand) is the guard `StepDefined` of the step: if the
lookup could fail, the call would be stuck and `StepIsDefined` violated.

Sending a key (`Transfer`) drops everything but the Galois keys and the two
levels, as the protobuf message does; the receiver recomputes the rest.

`PromisedCalls` answers a request at once with what the documentation
promises: rows of slots exchanged, columns rotated, the sum in every slot, the
coefficients spread over a vector of plaintexts. The mapping reads the
plaintext of the concrete call in slots or in coefficients and hides counters
and intermediate ciphertexts; the steps of a loop are stutters but the last.

### State and actions: multiparty

`sk[p]` is the share of the secret key that party `p` holds, `gen[p]` its
`RelinKeyGenerator`. `board` holds the shares published so far; an aggregator
takes any of them, one at a time, in any order: `Begin` and `Absorb` are the
iterations of `from_shares`, the `Finish...` actions its end. The library
checks neither that every party contributed once nor what a share was made
against, so a share may be absorbed twice, or never, or with shares of another
common random polynomial. What an object was made of is recorded in history
fields (`of`, `noise`, `same`), which decide nothing; the properties say under
which of these histories the object is what it should be.

`loop` is the public key that `try_encrypt` and `PublicKeySwitchShare::new`
clone and switch down until its level is the one asked for; `LoopStep` is one
iteration. When the key starts below that level the loop never ends
(`public_key.rs:55`, `public_key_switch.rs:48`): `switch_down` does nothing on
the last level. The model has these behaviours, and `LoopEnds` excludes only
them.

Polynomials are integers modulo `Q`, a ring of degree one: the protocols only
add, subtract and multiply, and errors are sampled coefficient by coefficient.
Shares of several levels in one aggregation are left out (an assertion of
debug builds), and the board holds shares of one kind. `PublicKeySwitchShare`
ignores a third part of its ciphertext; the property about it is for two.

### State and actions: numbers

`Arithmetic` puts eight machines side by side, each with a variable of its
own; a behaviour uses one of them. Nothing is shared between calls in the
code, so nothing is lost, and one run checks them all.

* `entry` (`Residues`) is one element of a vector, reduced or lazy, and the
  residue it should be. Every operation of `Modulus` that takes such an
  element is an action; the forms in constant and in variable time (`_vt`)
  compute the same and are one.
* `row` (`Transform`) is one row of a polynomial. A forward or backward
  transform is a step per chunk, so that `EntriesBounded` is checked of every
  intermediate row, where the debug assertions of the butterflies stand.
* `slots` is a plaintext under plaintext operations; ciphertext operations
  act on it in the same way. Its transforms are those of `row`, all `N - 1`
  chunks in one step (`ForwardWhole`, `BackwardWhole`).
* `stream` is a transcoding, a step per word taken or emitted, or a vector of
  samples. A bit is its origin, element and position, so one run stands for
  all values.
* `scaling` is a scaler and a number going through it: projected, scaled by
  the fixed-point sums of `RnsScaler::scale`, lifted.
* `poly` is a `Poly` in a ring of degree one, where transforms are the
  identity on a row and the representation is a type.
* `dot` is a dot product, a step per product added.
* `switching` is a key with its rows, or the two of an RGSW ciphertext, and
  the ciphertext it is applied to. A Galois key switches from the substituted
  secret key, which stands beside the secret key as a second number.

`Scheme` extends `Parameters`: `builder` is the builder, `par` what `build`
returned, with every number it computes in advance; then a secret key, a
public key and up to two ciphertexts. Each ciphertext carries the message it
should decrypt to and a bound on its noise, updated as the analysis of the
scheme says. A bound of at least the modulus says nothing and is capped.
Parameters go through their bytes only before keys exist.

### Caller mistakes

Some calls that the code accepts lead to inconsistent ciphertexts. The
constant `Mistakes` names them, one by one, and says which of them the program
of an instance makes:

| Mistake | Code |
|---|---|
| `emptyFactor` | `ct * Ciphertext::zero` (`ops/mod.rs`) makes a one-part product |
| `foreignGaloisKey` | a rotation with a key of other parameters; the assertion is commented out in `galois_key.rs` |
| `foreignPlaintext` | public-key encryption of a plaintext of other parameters (`public_key.rs`) |
| `mixedDotProduct` | dot product of ciphertexts of several levels (`dot_product.rs`) |
| `writeSeededPart` | writing, through `DerefMut`, the part that a recorded seed stands for (`ciphertext.rs`) |

With `Mistakes = {}` every property holds. The violation runs allow one
mistake each and show the property it breaks.

## Runs

| Run | Configuration | Result |
|---|---|---|
| `ciphertext_ops` | `MCCiphertextOps.cfg` | all properties hold |
| `one_part` | `MCOnePart.cfg` | `AtLeastTwoParts` violated by a product with the zero ciphertext |
| `foreign_key` | `MCForeignKey.cfg` | `ContextMatchesLevel` violated by a rotation |
| `foreign_plaintext` | `MCForeignPlaintext.cfg` | `NoMixedContexts` violated by public-key encryption |
| `mixed_dot_product` | `MCDotProduct.cfg` | `DotProductAcceptsOnlySums` violated |
| `seeded_write` | `MCSeededWrite.cfg` | `WireRoundTrip` violated by a write to a part |
| `evaluation_keys` | `MCEvaluationKeys.cfg` | all properties hold |
| `expands_nothing` | `MCExpandsNothing.cfg` | `ExpandsToSize` violated by `expands(ct, 0)` |
| `multiparty` | `MCMultiparty.cfg` | all properties hold |
| `arithmetic` | `MCArithmetic.cfg` | all properties hold |
| `scheme` | `MCScheme.cfg` | all properties hold |
| `decrypts_any_moduli` | `MCDecryptsAnyModuli.cfg` | `DecryptsAnyModuli` violated: moduli 97 and 433, plaintext modulus 113 |

The properties of ciphertexts:

* `TypeOK`: types, and the level of a ciphertext is one its parameters have.
* `ContextMatchesLevel`: every part is in the context its parameters have at
  the level in the `level` field.
* `SeedRegeneratesLast`: a recorded seed generates the second of two parts.
* `WireRoundTrip`: `from_bytes(to_bytes(ct)) = ct` under any handle on equal
  parameters.
* `NoMixedContexts`: the context comparisons that a release build skips would
  all have succeeded.
* `AtLeastTwoParts`: no ciphertext has exactly one part.
* `DotProductIsSum`: the fused dot product equals the sum of the products.
* `DotProductAcceptsOnlySums`: the same for all operands it accepts (violated).

The properties of evaluation keys:

* `TypeOK`: types; levels in order, exponents odd and below 2N.
* `BuildSucceeds`: no sequence of accepted `enable_...` calls makes `build` fail.
* `BuilderDelivers`: the key supports every feature that was enabled.
* `StepIsDefined`: a call that was accepted never misses a Galois key and never
  rotates a ciphertext that is still empty.
* `KeyRoundTrip`: `from_bytes(to_bytes(key)) = key` at every pair of levels.
* `ImplementsPromises`: the calls refine `PromisedCalls`.
* `EveryCallReturns`: an accepted call returns.
* `ExpandsToSize`: the result of `expands` has `size` ciphertexts (violated for
  size 0).

The properties of the multiparty protocols:

* `TypeOK`: types; every sum is reduced modulo the modulus of its level.
* `CollectiveKey`: shares under one common random polynomial make an
  encryption of zero under the sum of their secrets, with one error for each.
* `CollectiveRelinKey`: a relinearization key whose rounds were run by the
  same shares switches the square of the collective secret, the masks of the
  first round cancelled.
* `DecryptsTogether`, `SwitchedToOutputKeys`, `SwitchedToPublicKey`: the
  shares of a complete set of parties decrypt, or switch to another key, and
  keep the message, at every level the public key was switched down to.
* `LoopEnds`: the switching loop ends unless the key is already below.

The properties of the arithmetic:

* `EntryExact`, `CenteredExact`: residues are right and below `p`, or below
  `2p` when lazy; the centred one is in `[-(p+1)/2, p/2)`.
* `TransformExact`, `EntriesBounded`: rows hold the polynomial or its values
  at the odd powers of the root, in bit-reversed order; no intermediate entry
  exceeds `4p` forwards and `2p` backwards.
* `SlotsExact`: a plaintext decodes to what its operations make of the vector,
  whatever rotations, sums and products came between.
* `TranscodesExactly`, `TranscodingEnds`, `SamplesIndependent`: bits are kept
  in order, none lost or added, in the number of words reserved; the loop
  ends; no two samples share a random bit.
* `ScalesToNearest`: a scaled number is the fraction of the centred one,
  rounded, but for ties closer than the precision of the fixed point.
* `PolyExact`: rows are the residues of the exact result, also after switching
  down, lazy exactly when the flag says so, with matching Shoup quotients.
* `DotExact`: no accumulator of a dot product overflows.
* `SwitchExact`, `ExternalProductExact`: relinearization and rotation leave
  what a ciphertext decrypts to, and an RGSW product multiplies it, but for
  one error for each digit, at every pair of levels.

The properties of parameters and scheme:

* `ModuliAsAsked`: generated moduli are distinct primes of the sizes asked
  for, congruent to 1 modulo `2N`.
* `LevelsComplete`: every level has its numbers, and an extended basis large
  enough for products.
* `ReloadsSame`: parameters come back from their bytes as they were.
* `NoiseWithinBound`: noise is within the bound of the analysis.
* `DecryptsWithinBudget`: while `2t(noise + 1)` is below the modulus,
  decryption returns the message wanted, if `3t` is less than twice the moduli
  that decryption reads.
* `NoiseMeasured`: `measure_noise` gives the bits of the noise of such a
  ciphertext, and for one that is lost a number within the budget all the same.
* `DecryptsAnyModuli`: `DecryptsWithinBudget` without the condition on the
  moduli (violated).

### Bounds

Three parameter handles: two equal ones and a third whose whole chain is the
end of the chain of the others, which is the case in which contexts coincide
and levels do not. Three moduli, hence three levels: a ciphertext can be at
the top, in the middle and on the last level. Two registers, enough for every
binary operation with the operands distinct or equal and the result in place
or not. Two seeds, so that a wrong seed is noticed. `MaxParts = 4`: one more
than relinearization accepts; it bounds products and `Ciphertext::new` in
guards. The dot product takes up to two operands, one plaintext repeated.
Registers, seeds and the two equal handles are interchangeable, and the run
uses that symmetry. `CHECK_DEADLOCK FALSE`: a program may stop calling, and
with these actions it never has to.

For evaluation keys: degree 8, the least the parameters accept, so that the
inner sum has two column steps and a row step and expansion three levels;
plaintext modulus 17, which has the 16-th roots of unity that slots need; two
moduli, hence all three pairs of levels, among them the one where the key has
a one-modulus context and a digit decomposition. All 128 sets of features; all
rotations from 0 to N/2 and all sizes from 1 to N + 1, the refused ones
included. One plaintext, with all slots and all coefficients distinct: the
operations are linear and do not branch on values, so a misplaced or wrongly
signed coefficient of it shows. The builder is not configured further once the
key is built. Ciphertexts come at the level of the key (others are refused by
the key switch, which `CiphertextOps` models), and noise is left out.
Deadlock is checked in this run: a call that cannot take its next step would
show as one.

For the multiparty protocols: two parties, so that a share can be missing,
repeated or mixed with one of another origin; moduli 79 and 83, hence two
levels and key rows; plaintext modulus 2; secrets 1 and -2, so that any
repeated or missing share changes the sum; moduli that leave just enough room
for the noise (`WithinBudget`), by the largest secret, mask and error there are
(`SecretBound`, `MaskBound`, `NoiseBound`, and `RecipientBound` and
`RecipientNoise` for the keys of recipients); at most two shares on the board and
two absorbed (`MaxBoard`, `MaxAbsorbed`), two aggregates of the first round
(`MaxRounds`), so that a party can answer one of two. Errors add up to the
most noise. A leveled public key share is possible only in builds without
debug assertions, and the instance has one.

For the arithmetic: words of 7 bits, so that moduli have at most 5, and every
word, double word and residue is tried with each of twelve moduli (prime and
composite, near and far from a power of two, refused ones). The transform has
degree 8 and modulus 17, the least prime that supports it: three levels, all
roots, entries from the largest words; two operations between transforms
(`MaxOperations`), three on a plaintext (`MaxSlotSteps`). The transcoders have
the real widths, 64 and 8 bits, and word sizes that divide a byte, exceed
half a pool, or neither. Scalers go between bases of one to four moduli, with
quotients of the moduli and without, for every number. (Sums that need a
shorter fixed point take five moduli at this word size and do not occur.)
Dot products have 16, 17, 18, 20 and 66 products where 16 fit. Key switching
has moduli 31, 29 and 23: all pairs of levels, three digits of two bits at
the last, and every residue there.

For the scheme: words of 11 bits, moduli of 7 to 9, degree 8 and a refused one;
plaintext moduli 1, 3, 17 and 2053 (refused, small, and larger than a word) and
those of the default sets; three calls (`MaxCalls`), which reaches a product or
a sum after switching down. Products are taken of ciphertexts of one modulus
only (`MaxMultiplied`): with more, the model's numbers exceed 31 bits. Noise is
drawn at its extremes. `CHECK_DEADLOCK FALSE` in these runs: routines end,
protocols are complete, calls are bounded.

### Fairness

Fairness is assumed only where a loop of the library runs by itself: the steps
of an accepted call of the evaluation key (`WF_vars(Step)`), the switching loop
(`WF_vars(LoopStep)`), the loop of a transcoding. The library is sequential
and no step waits for anything. Callers, parties and aggregators are free to
stop. The other modules have no liveness property: their actions are whole
calls.

## Proofs

`CiphertextOps_proof` proves, from the assumptions on the constants
(`ParamsAssumption`, `SeedAssumption`, `OpsAssumption`) and from
`Mistakes = {}`, that `Spec` implies each of the invariants of the run
`ciphertext_ops`, for any set of parameters, any chains, any number of
registers and seeds, and any bound on parts.

None of the invariants is inductive alone. Rotation takes the level from the
key, and it is right only because the key accepted the contexts, and a context
determines a level only within a chain; the seed survives relinearization in
the code, and this is harmless only because a seed means two parts; switching
down cannot fail halfway only because level and context agree. The inductive
invariant `IInv` therefore states of every register all of it at once
(`WellFormed`): type, level within the chain, all parts in the context of the
level and none mixed, seed only with two parts of which it generates the last,
not one part. There is one lemma per operation (`AddWF`, `MulWF`, `RotatesWF`,
...), which says the operation returns a well-formed ciphertext on well-formed
ones, and one lemma per group of actions. The first lemmas are the facts on
chains: a level determines a context of the chain and conversely, steps down
add up, equal parameters have equal contexts.

`EvaluationKeys_proof` proves all five invariants of the run
`evaluation_keys`, for every degree, chain of moduli, digit size and set of
sizes. Its invariant `IInv` says that the key is always the one the builder
describes (`KeyInv`; sending it preserves this because its bytes determine
it), that a running call is one the key supports (`OneInv`), and of an
expansion that the first `2^l + i` outputs are computed, except those beyond
`size` (`ExpandInv`). The last is the point of the argument: iteration `i` of
level `l` reads output `i`, and since the number of levels is the *least* one
whose power of two reaches `size`, `2^l < size` in every iteration, so the
holes above `size` are never read. For `TypeOK` and `BuildSucceeds` the types
of builder and call are added (`TypeInv`): every exponent is odd because the
powers of 3 modulo `2N` are and because `N / 2^l` is even below the last level,
and an accepted expansion has at most `LogN` levels because the exponent of one
more would be even.

The second half of the module proves the refinement: `KeysKeepPromises` says that rotations,
inner sum and expansion compute what `PromisedCalls` promises, for every
degree, plaintext modulus, plaintext, argument and key. `PromiseInv` says what
a running call has computed so far, in the terms of the promise:

* A rotation. `X -> X^e` permutes the coefficients up to sign, because `e` is
  odd and has an inverse modulo `N` (`OddInverse`, `Permuted`); the value of the
  image at a power of `Zeta` is the value of the argument at its `e`-th power
  (`AtSubstitute`); and the powers at which the slots are read are those of 3
  and their negatives, so `3^i` moves columns and `-1` exchanges rows
  (`SlotsOfColumns`, `SlotsOfRow`).
* The inner sum. After `l` steps a slot holds the sum over a window of `2^l`
  slots of its row (`WindowSums`); windows double (`WindowDoubles`), the last is
  the row, and the row rotation adds the other one.
* The expansion. Output `m` of pass `l` holds the coefficients
  `m, m + 2^l, ...` times `2^l` (`Spread`). On the powers of `X^(2^l)` the
  exponent `N / 2^l + 1` of the pass is the identity on the even ones and a sign
  on the odd ones (`StepSubstitute`); the sum keeps the even ones (`StepLow`),
  and the difference times the monomial moves the odd ones down into output
  `m + 2^l` (`StepHigh`). `TimesMonomial` shows that nothing wraps around `X^N`
  with the wrong sign: `-X^(N - 2^l)` is a division by `X^(2^l)`, and what it
  would move below `X^0` is zero.

The hypothesis is `0 \notin Sizes`: an expansion into no ciphertexts is the one
request that is answered otherwise (the violation run `expands_nothing`). The
assumptions of both halves are those on the constants (`RingAssumption`,
`KeysAssumption`); `ZetaAssumption`, that `Zeta` is primitive, as
`NttOperator::new` chooses it; `NoCallAssumption`, that what stands for
no call and for no answer is neither; and `PowersAssumption`, which states
`2^(l+1) = 2 * 2^l` for the levels there are: the provers have no theory of
powers, and TLC evaluates it.

`Multiparty_proof` proves `CollectiveKey` and `CollectiveRelinKey` for any
parties, moduli, levels, shares and bounds. Two numbers are `Near` when they
differ by a bounded error and a multiple of the modulus, and sums, multiples
and reductions of near numbers are near. The invariant says that a share is
near what its secret makes of the common random polynomial (`BoardInv`), and
that an aggregation in progress is near what the sums of secrets and masks
make of it, with as many errors as shares absorbed (`AccInv`, `RoundsInv`). The
point is `RelinRow`: in the two rounds the mask `u` occurs once in the first
share and once, with the opposite sign, in the second, and both are
multiplied by the aggregate of the other round; the terms cancel only because
the sums of masks of both rounds are equal, which is the hypothesis of the
property. Assumptions: `MultipartyAssumption`, `NoiseRowAssumption`, and
`GarnerAssumption`, that there are Garner coefficients.

The second half of the module proves the other invariants of the run `multiparty`:
`TypeOK`, and, where the moduli leave room for the noise (`WithinBudget`, which
TLC evaluates for the instance), `DecryptsTogether`, `SwitchedToOutputKeys` and
`SwitchedToPublicKey`. Its invariant `DInv` follows the noise through the whole
protocol: the collective key is within `MaxAbsorbed` errors of an encryption of
zero (`PkDec`); the copy that the loop switches down stays within
`AfterSwitching` of one at each level it passes (`LoopDec`), because division by
a modulus divides the noise and adds the rounding of two parts, the second
multiplied by the key; a ciphertext is within `CiphertextNoise` of its message
(`CtDec`); a share is near what the secret of its party makes of the ciphertext
it was made against, and an aggregation near what their sum makes of it
(`BoardDec`, `AccDec`). What goes out then differs from the scaled message by
less than half a step of the plaintext modulus, and rounding returns the
message (`OutDec`). Shares of a ciphertext are on the board or in an aggregation
only while there is one that was encrypted under the complete key, and shares of
the public key only before (`Current`). Assumptions:
`BoundsAssumption`, that secrets, masks, keys of recipients and their noise are
within the bounds named, and `NoneAssumption`, that `None` is no ciphertext.

`WordLemmas` and the first part of `Arithmetic_proof` prove `EntryExact` and
`CenteredExact` for every size of words, every modulus and every sequence of
operations on an entry. Each operation has its lemma in `WordLemmas`:

* `reduce` and `reduce_u128` (`LazyReduceExact`, `ReduceU128Exact`), `mul_shoup`
  (`MulShoupExact`). Both multiply by a rounded reciprocal and round again;
  `TwiceRounded` shows that the quotient is then at most one too small.
  `ReciprocalWords` shows that the two words of Barrett's reciprocal add up to
  less than a word, and therefore that the sum of partial products does not
  overflow (`PartialProducts`).
* The reductions for moduli just below a power of two (`LazyReduceOptExact`,
  `LazyReduceOptU128Exact`). They replace the upper word of the reciprocal by
  that power, which it is for such moduli (`OptQuotientWord`), and leave out a
  product of the low words. The quotient is at most one too small only below
  `p^2` and only because of the condition `SupportsOpt`, which bounds how far
  the modulus is from the power of two (`OptModulus`); `OptProductFits` shows
  that the sum does not leave the double word. `ReductionsExact` collects the
  six.
* `pow` (`PowerExact`). Square and multiply from the top bit down: the
  accumulator is the power to the bits read (`SquaresExact`). The recursion
  of the model is on the number of bits, so the lemma says what the bits above
  any position make, by induction on a set of positions.
* `inv` (`InverseExact`), a power to `p - 2`, by Fermat's theorem. `Fermat` in
  `NumberLemmas` multiplies all residues, which times `a` are permuted;
  `Euclid`, that a prime divides no product of smaller numbers, is proved from
  what the test `IsPrime` of the model looks at, divisors up to the root.
* `center` and the reductions of signed numbers (`ReduceI64Exact`).

The invariant `EntryInv` says that the modulus is one that `new` makes, that a
reduced entry is below `p` and a lazy one below `2p`, and that both are the
residue wanted. Assumptions: `WordsAssumption` (words of at least 4 bits) and
`PrimesAssumption`, that moduli are numbers. Powers of two are a recursive
function (`Pow2`), so that the prover knows their equation (`PowersDouble`).

The first part of `TransformSwitch_proof` proves `TransformExact` and `EntriesBounded` for every degree,
prime modulus, root, polynomial and sequence of transforms, products,
substitutions and divisions by powers of X. The library computes the transform
level by level and in place, so the invariant (`RowInv`) has to say what a row
holds in the middle of it:

* Forwards, a chunk `b` of a level that works on pairs `l` apart holds the
  polynomial modulo `X^(2 l) - c`, where `c` is the power of the root that the
  chunk belongs to. `Fold` is this remainder written as a sum over the
  coefficients of one class of indices; `FoldSplitsBy` splits the class into the
  even and odd quotients, which is what one butterfly computes (`ForwardStep`).
  The first fold is the polynomial (`FoldWhole`), the last its value at an odd
  power of the root (`FoldOne`). `Forwards` says that chunks before the current
  one are a level further than those after it. Backwards the same folds are
  undone, each level leaving a factor of 2 (`BackwardStep`); the factors are
  what the final product by the inverse of the size removes (`SizeInvExact`).
* Which power of the root chunk `b` belongs to is the order of the tables
  `Omegas` and `ZetasInv`, the reversal of bits. The code reads both in
  sequence, one entry for each chunk. `BitRevDouble`, `BitRevHigh` and
  `BitRevLow` say how the reversal of `b`, `2 b` and `2 b + 1` are related;
  `ForwardTwist` and `BackwardTwist` that entry `k` is the power needed, or its
  inverse.
* `ButterflyExact`, `InvButterflyExact` and `Reduce3Exact` are the butterflies
  with their bounds, from `MulShoupExact`: entries below `4 p` stay below `4 p`
  forwards, those below `2 p` stay there backwards, and no sum leaves the word.
* Powers of the root have period `2 N` and change sign after `N` (`RootHalf`):
  the square of `r^N` is 1 and it is not 1, and `p` is prime.
* A substitution of an odd exponent permutes the odd powers of the root
  (`OddPermutes`), in coefficients it permutes them up to sign, and both
  describe one polynomial (`ComposedAt`, `SubstitutedNttExact`). A product of
  values is the value of the product modulo `X^N + 1` (`ProductAt`), by exchanging
  the sums (`SumSwap`). `ShiftedExact` is the division by a power of X, with the
  sign of what wraps around.

Assumptions: `TransformAssumption`, that the constants are in range and the
exponents odd, as `substitute` requires, and those of `Words`.

The second part of `Arithmetic_proof` proves `SlotsExact`: whatever sums, products, rotations of columns
and rows and inner sums are done to an encoded plaintext, in whatever order, it
decodes to the vector that they make of the one encoded, for every degree,
prime modulus, root and vectors. The invariant (`SlotsInv`) is that slot `i` of
the plaintext, its value at the exponent of the slot, is the value wanted
(`SlotsAre`); a plaintext not in slots has the coefficients wanted.

* A whole transform is the recursion of `ForwardChunked`, and its invariant is
  the one of `TransformSwitch_proof` in every row of the run (`ForwardWholeExact`,
  `BackwardWholeExact`).
* Encoding transforms backwards a vector that nobody has computed forwards. That
  it is the values of some polynomial (`Interpolates`) is by counting: the
  transform is injective, since the backward one undoes it, and an injective
  map of a finite set to itself reaches all of it (`InjectiveOnto`).
* Slots are read at powers of 3 and their opposites. `OddParts` says that
  `3^(2^l)` is `1 + 2^(l + 2) m` with `m` odd, so the order of 3 modulo `2N` is
  exactly `N / 2` (`ThreesOrder`, `ThreesRow`); and no power is the opposite of
  another, by their remainders modulo 8 (`ThreesNotOpposite`). So the exponents
  of the slots are all different (`SignedThreesDiffer`), and the index map that
  `build` makes is a permutation (`IndexMapPermutes`): decoding finds every slot
  where encoding put it.
* A substitution `X -> X^e` moves the value of a slot as `e` multiplies its
  exponent (`SubstitutedSlots`); a power of 3 moves columns (`ColumnsRotated`),
  and `2N - 1` exchanges the rows (`RowsRotated`).
* In the inner sum a slot holds the sum of a window of its row, which doubles
  (`SumDoubles`) until it is the row; then the other row is added (`SumEnds`).

Assumption: `SlotsAssumption`, a degree of at least 8 (`parameters.rs:433`),
`2N` a modulus (`construct_rot_to_gk_exponent` unwraps it) and vectors of
residues. An encoder is given any `u64`; what it makes of larger values is not
modelled.

Between the two, `Arithmetic_proof` proves `DotExact` from `ReduceU128Exact`. The
invariant (`DotInv`) is that a row holds at most `num` products, and fewer than
`MaxAcc`, or that all products together fit; a reduced row counts as one
product because `p - 1` is at most the square of it. `MaxAcc` is read from
leading zeros (`Room`, from `BitsOfModulus`). Assumption: `DotAssumption`.

The third part of `Arithmetic_proof` proves `TranscodesExactly` and
`SamplesIndependent`, for every width of words and every length (`StreamInv`).

* Transcoding: the bits of the words written, followed by those in the pool,
  are the bits of the words read, in their order (`Transcodes`), and the pool
  keeps less than a word to write once none can be taken. The words
  still to come are known from the bits still to come, so at the end there are as
  many as there should be and the last is filled with zeros.
* Sampling: every draw is a word whose bits have an origin, the draw and the
  place in it. The bits handed out so far and those in the pool are the bits of
  the draws in their order (`Drawn`, `DrawnFirst`), so no bit is handed out twice
  and none was not drawn.

Assumption: `StreamsAssumption`, that words have at least 64 bits, which a sample
of the largest variance needs, that widths are between 1 and a word
(`transcode_to_bytes` asserts it), and that lengths are numbers.

The fourth part proves `PolyExact`: a polynomial stays what it stands for at
every modulus of its context. The invariant (`PolyInv`) is that the rows are the
residues of the number wanted (`Holding`), below the modulus or, when lazy, below
four times it, and that Shoup's quotients are those of the rows. Projecting, adding and
multiplying act on the rows (`Residues1`, `SameRowsKeep`). Switching down takes
the last row off and divides: the row is centred by adding half of the last
modulus, which makes the division exact, and the quotient is the number divided
to the nearest (`SwitchDownTo` goes on to a lower context, by induction on the
levels). Assumption: `PolyAssumption`, that the chain is a context of primes and
that signed integers fit a word.

The second part of `TransformSwitch_proof` proves `SwitchExact` and
`ExternalProductExact`, for every chain of moduli, pair of levels, secret,
errors and ciphertext. The property is about what comes out; the invariant
(`SwitchInv`) is about the keys.

* A key is good (`GoodKey`) when every row is an error, less the other
  polynomial times the secret key, plus what the digit counts for times the
  secret switched from, scaled up to the moduli of the key. `NewKeyGood` says that
  keys are made so, from a secret that `switch` scaled up (`UpIs`), and `KeySent`
  that keys read back from bytes are.
* The digits of a coefficient, each times what it counts for, add up to it
  (`DigitsMakeUp`): residues by the Chinese remainder (`RestDigits`, from
  `WordLemmas`), digits of a power of two by induction on their number
  (`BitDigits`). Every digit is small, so the errors add up to at most `KeyNoise`
  (`DigitError`, `NoiseOfDigits`), and the switch adds the coefficient times the
  secret, scaled (`KeySwitched`).
* `switch_down_to` takes off one modulus after the other and rounds each time.
  The errors of rounding are divided by all moduli that follow, so together
  they stay below one (`LoweredBy`, `OneFurther`, by induction in `DownTo`).
  `BroughtIsClose` divides the noise and adds the roundings, one of them times
  the secret key.
* `RelinClose`, `RotateClose` and `ProductClose` add the remaining parts, and
  `CloseTo` that the distance measured is the smallest of its residue class
  (`CenteredSmallest`).

Assumption: `SwitchAssumption`, that the moduli make a context (they are coprime
and `Modulus::new` accepts them), that errors are at most `MaxError` and drawn for
every row, and that ciphertexts have residues as coefficients.

The theorems on `Residues`, `Transform`, `Slots`, `Streams`, `Polynomials`,
`Accumulator` and `KeySwitching` are about the specification of one routine each.
`AllAreExact` is about `Spec` of `Arithmetic`, which the run checks: a step of it is
a step of one routine and leaves the others alone (`EachByItself`).

`Scheme_proof` proves the six invariants of the run `scheme`, for every width of
words, sizes of moduli, arguments of the builder and sequence of calls.

* Parameters. `GeneratedAsAsked` is `ModuliAsAsked`. `generate_prime` walks down
  from the top of a size (`PrimesDescend`, `PrimesFall`), so a prime it passes
  over was taken, and it gives up only when all are (`NextModulusFree`,
  `SizesAsAsked`). `ReloadingIsExact` is `ReloadsSame`: the fields that
  `to_bytes` writes are those `build` reads, except that moduli stand for sizes
  (`ReloadIsBuilt`). The invariant (`ParametersInv`) is that what was built was
  accepted, and what was read back is what was built.
* `LevelsAreSound` is `LevelsComplete`. `delta` is minus the inverse of `t` in
  every modulus, put together by Garner's formula (`DeltaExact`, from
  `LiftExact` of `WordLemmas`); the basis for products is a context of primes not
  among the moduli (`ExtendedBasisIs`, `ProductModuli`), and its size is
  estimated from the bits of its factors (`ProductBelow`, `ProductAbove`). The
  code reserves 60 bits above the modulus of the level, and every modulus may
  be up to a bit smaller than its size says: with `n` moduli, `n + 3` bits of the
  60 are needed. Hence the hypothesis `FewModuli`, at most 57 moduli, which the
  theorem has as `[]FewModuli`.
* `DecryptsWhatIsWanted` is `DecryptsWithinBudget`. Every operation returns
  residues (`IsResult`; `AddedIs`, `SwitchedDownIs`, `MultipliedIs`, ...), so the
  types of keys and ciphertexts are an invariant (`SchemeInv`). Decryption then
  is about one ciphertext: the message is scaled to the phase within one unit
  (`FloorByInverse`), scaling back rounds to it when the noise is within the
  budget (`ScaledMessage`), and reading through the moduli loses nothing as long
  as `3t < 2M` (`ReadBack`).
* `MeasuresNoise` is `NoiseMeasured`. Whatever decryption returns is the nearest
  message but for rounding (`NearestDistance`), so the distance measured is at
  most half a step, and it is the noise when the message is the one wanted.
* `NoiseStaysWithinBound` is `NoiseWithinBound`, for at most 57 moduli (the
  product of two ciphertexts is computed modulo the basis for products, and
  must fit it: `HasRoom`). The statement itself is not inductive: the error of
  rounding `m Q / t` accumulates, and modulo `Q` a product of noises cannot be
  told from their multiples of `Q`. The invariant (`QuietInv`) is about `t`
  times the value `F = c_0 + c_1 s + c_2 s^2 + ...` over the integers:
  `t F = X Q + a` with `X` congruent to the message modulo `t` (`Carries`) and
  `-t (b + 1) < a <= t b` for the bound `b` (`Within`), as long as `2 b < Q`. Sums
  and multiples of such values are such values (`CarriesPlus`, `CarriesScaled`,
  `WithinPlus`, `WithinMultiple`); switching down divides by the last modulus and
  adds the rounding of every part times a power of the key (`QuietSwitched`);
  encrypting with a public key multiplies a quiet key (`QuietPublic`). In a
  product of `t F = X Q + a` and `t H = Y Q + c` the message is `X Y` and the rest
  is `X c + Y a + a c / Q` and a rounding (`ProductRest`), where `X` and `Y` are
  small because the parts are centred (`CenteredCarries`, `CarriedTimes`); this is
  what the model's bound of a product allows (`WithinProduct`). At the end
  `CarriesOut` returns from `Carries` to an error of at most `b` modulo `Q`, and
  the noise is the least of its residue class (`CenteredLeast`).

Assumptions: `ParametersAssumption`, that what the builder is given are words and
numbers, that a modulus leaves two bits of a word free (62 of 64,
`zq/mod.rs`), and that no more bits are reserved than a modulus has (60 of 62);
and those of `Words`. `build` unwraps the context of the basis for products; that
this cannot fail is not obvious, so the model refuses such parameters by a panic
(`BasisOk`), which no instance meets.

### How recursion and sums are reasoned about

The induction theorems of the library take an operator as a parameter and no
installed prover can use them. `NumberLemmas` does without. `SetInduction` says
that a set of numbers with 0 and all successors holds every number: with a set
in place of a predicate, induction is a statement about sets. From it follow
that a recursive function exists and satisfies its equation
(`RecursionExists`, `EndlessRecursion`), and that a sum over a finite set, which
the community modules define by a fold, satisfies the equations of a sum
(`SumEmpty`, `SumRemove`, and from them `SumPlus`, `SumUnion`, `SumOnly`,
`SumCongruent`, and `SumSwap` for double sums). Powers of 3 and of `Zeta`,
products of moduli, sums over slots and products of polynomials are reasoned
about through these.

### Only model-checked

The violations; liveness (`EveryCallReturns`, `LoopEnds`, `TranscodingEnds`),
which rests on fairness and is out of the prover's reach; and one invariant of
the run `arithmetic`, `ScalesToNearest`, whose fixed point has an error that only
the bounds of the instance keep below a half.

## Where the code and its documentation differ

Each violation run shows one case; `PROJECT.json` quotes the lines. Some smaller
ones have no run of their own:

* `Modulus::center` says `[-p/2, p/2)` (`zq/mod.rs:446`); for odd `p` the code
  also returns `-(p + 1)/2`.
* `set_variance` says that it returns an error (`parameters.rs:375`); it and
  `build` accept any variance, and the first secret key panics.
* The two switching loops do not end for a key below the level asked for.

## Not modelled

* The NTT of the `tfhe-ntt` crate (`ntt/tfhe.rs`): foreign code.
* Encodings of signed integers and vectors of plaintexts over several
  polynomials: the encodings of `Slots` applied to each.
* The `Multiplicator` with numbers: extension, product and scaling are those of
  `Scheme` and `Scaling`, with other bases; its levels and contexts are in
  `KeyOperations`.
* The distribution of samples, `variance` in `fhe-util`, zeroization and
  constant time: no property of states.
* Traits, protobuf glue, errors, benches and examples.
* The bytes of secret keys, a list of integers, and of public keys, those of a
  ciphertext (`CiphertextOps`).

## What could follow

1. Products of ciphertexts of several moduli in `Scheme`, which need integers
   of more than 32 bits or a residue representation.
2. `Multiparty` in a ring of degree two, with Galois shares once the library has
   them.
3. A theorem on `Scaling`, with bounds on the number and size of moduli under
   which its fixed point rounds to the nearest.
