-------------------------------- MODULE Slots -------------------------------
(***************************************************************************)
(* Encodings of vectors as plaintexts (PlaintextVec, Encoding, FheDecoder) *)
(* modulo the prime of the transform: as the coefficients of a polynomial, *)
(* or in its slots, two rows of N / 2 of them.  What the operations on     *)
(* ciphertexts do to the plaintext is done to it directly: its sum and its *)
(* product with another, and X -> X^e for the exponents of rotations.      *)
(***************************************************************************)
EXTENDS Transform

CONSTANTS
    Vectors,        \* the vectors encoded, of at most N residues
    Others,         \* the vectors added and multiplied by
    MaxSlotSteps,   \* bound: operations on one plaintext
    NoSlots

VARIABLE slots  \* [root, simd, value, left] and (history) want

(* Vectors are of residues; the exponents of rotations are powers modulo   *)
(* 2 N, which has to be a modulus (construct_rot_to_gk_exponent).          *)
ASSUME SlotsAssumption ==
    /\ LogN >= 3 /\ NewModulusOk(2 * N) /\ MaxSlotSteps \in Nat
    /\ Vectors \cup Others \subseteq Seq(0 .. P - 1)

RowSize == N \div 2

(* BfvParametersBuilder::build: matrix_reps_index_map *)
GeneratorPower ==
    LET pos[i \in 0 .. RowSize] == IF i = 0 THEN 1 ELSE (pos[i - 1] * 3) % (2 * N) IN pos

IndexMap ==
    [i \in Index |->
        IF i < RowSize THEN BitRev[(GeneratorPower[i] - 1) \div 2]
        ELSE BitRev[(2 * N - GeneratorPower[i - RowSize] - 1) \div 2]]

(* Whole transforms: a row after all chunks of a pass, N - 1 of them.      *)
RowOf(a, rep, root) ==
    [root |-> root, a |-> a, rep |-> rep, lazy |-> FALSE, pass |-> NoPass, left |-> 0, want |-> a]

ForwardWhole(a, root) ==
    LET run[k \in 0 .. N - 1] ==
            IF k = 0 THEN ForwardStarted(RowOf(a, "power", root), FALSE)
            ELSE ForwardChunked(run[k - 1])
    IN  run[N - 1].a

BackwardWhole(a, root) ==
    LET run[k \in 0 .. N - 1] ==
            IF k = 0 THEN BackwardStarted(RowOf(a, "ntt", root), FALSE)
            ELSE BackwardChunked(run[k - 1])
    IN  run[N - 1].a

At(v, i) == IF i < Len(v) THEN v[i + 1] ELSE 0

(* PlaintextVec::try_encode, for one plaintext. *)
EncodedValue(v, simd, root) ==
    IF ~simd THEN [i \in Index |-> At(v, i)]
    ELSE BackwardWhole([j \in Index |-> At(v, CHOOSE i \in Index : IndexMap[i] = j)], root)

(* FheDecoder::try_decode *)
DecodedValue(value, simd, root) ==
    IF ~simd THEN value
    ELSE LET w == ForwardWhole(value, root) IN [i \in Index |-> w[IndexMap[i]]]

(* Encodings in slots need a modulus with a transform of the degree.       *)
EncodingOk(v, simd) == Len(v) <= N /\ (simd => SupportsNtt)

-----------------------------------------------------------------------------

SlotsInit == slots = NoSlots

EncodeVector(v, simd, r) ==
    /\ slots = NoSlots /\ EncodingOk(v, simd)
    /\ slots' = [root |-> r, simd |-> simd, value |-> EncodedValue(v, simd, r),
                 left |-> MaxSlotSteps, want |-> [i \in Index |-> At(v, i)]]

Work(value, want) ==
    /\ slots # NoSlots /\ slots.left > 0
    /\ slots' = [slots EXCEPT !.value = value, !.want = want, !.left = slots.left - 1]

AddPlaintext(v) ==
    Work([i \in Index |-> Add(PModulus, slots.value[i], EncodedValue(v, slots.simd, slots.root)[i])],
         [i \in Index |-> (slots.want[i] + At(v, i)) % P])

MultiplyPlaintext(v) ==
    LET f == EncodedValue(v, slots.simd, slots.root)
        g == [i \in Index |-> At(v, i)]
    IN  Work(Product1(slots.value, f),
             IF slots.simd THEN [i \in Index |-> (slots.want[i] * g[i]) % P]
             ELSE Product1(slots.want, g))

(* Mutant: powers of five, as other libraries take.                        *)
ColumnExponentFive(i) == Power(NewModulus(2 * N), 5, i)

(* construct_rot_to_gk_exponent *)
ColumnExponent(i) == Power(NewModulus(2 * N), 3, i)

RowExponent == 2 * N - 1

(* rotates_columns_by: both rows to the left; the coefficients of a        *)
(* plaintext that is not in slots are those of the composed polynomial.    *)
RotateColumns(i) ==
    /\ slots # NoSlots
    /\ Work(SubstitutedPower(slots.value, ColumnExponent(i)),
            IF ~slots.simd THEN ComposedWith(slots.want, ColumnExponent(i))
            ELSE [j \in Index |-> slots.want[((j \div RowSize) * RowSize) + ((j + i) % RowSize)]])

(* rotates_rows: the rows change places. *)
RotateRows ==
    /\ slots # NoSlots
    /\ Work(SubstitutedPower(slots.value, RowExponent),
            IF ~slots.simd THEN ComposedWith(slots.want, RowExponent)
            ELSE [j \in Index |-> slots.want[(j + RowSize) % N]])

(* computes_inner_sum: rotations by the powers of two, then of the rows.   *)
SumOfRotations(value) ==
    LET rotated[n \in 0 .. LogN - 1] ==
            IF n = 0 THEN value
            ELSE LET r == SubstitutedPower(rotated[n - 1], ColumnExponent(Pow2[n - 1]))
                 IN  [i \in Index |-> Add(PModulus, rotated[n - 1][i], r[i])]
        all == rotated[LogN - 1]
        r == SubstitutedPower(all, RowExponent)
    IN  [i \in Index |-> Add(PModulus, all[i], r[i])]

InnerSum ==
    /\ slots # NoSlots /\ slots.simd
    /\ Work(SumOfRotations(slots.value),
            [i \in Index |-> SumFunction([j \in Index |-> slots.want[j]]) % P])

SlotsNext ==
    \/ \E v \in Vectors, simd \in BOOLEAN, r \in Roots : EncodeVector(v, simd, r)
    \/ slots # NoSlots /\ \E v \in Others : AddPlaintext(v) \/ MultiplyPlaintext(v)
    \/ \E i \in 1 .. RowSize - 1 : RotateColumns(i)
    \/ RotateRows
    \/ InnerSum

(* Plaintexts by themselves. *)
SlotsSpec == SlotsInit /\ [][SlotsNext]_slots
-----------------------------------------------------------------------------

(* A plaintext decodes to the vector that its operations make of the       *)
(* encoded one: slot by slot, the columns rotated to the left by as many   *)
(* as asked, the rows exchanged, every slot the sum of all: the order of   *)
(* the slots, the order of the transform and the exponents of the rotation *)
(* keys agree (the expectations of the tests of EvaluationKey).            *)
SlotsExact ==
    slots # NoSlots => DecodedValue(slots.value, slots.simd, slots.root) = slots.want
=============================================================================
