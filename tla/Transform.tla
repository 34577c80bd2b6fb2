------------------------------ MODULE Transform -----------------------------
(***************************************************************************)
(* One row of a polynomial modulo p under the number-theoretic transform   *)
(* of NttOperator (ntt/native.rs), chunk after chunk, and under the        *)
(* operations that permute or multiply its entries between transforms.     *)
(* The entries are words: they run up to 4 p forwards and 2 p backwards.   *)
(***************************************************************************)
EXTENDS Words, Sequences, Functions

CONSTANTS
    TransformPrime, \* the modulus
    LogN,           \* the degree is 2^LogN
    Coefficients,   \* the polynomials loaded, sequences of words
    Factors,        \* the polynomials multiplied by
    Exponents,      \* the exponents of substitutions
    Shifts,         \* the powers of X divided by
    MaxOperations,  \* bound: operations between the transforms of a row
    NoRow

VARIABLE row    \* [root, a, rep, lazy, pass, left] and (history) want

N == Pow2[LogN]

Index == 0 .. N - 1

P == TransformPrime

PModulus == NewModulus(P)

(* The bits of i in reverse order. *)
BitRev ==
    LET rev[k \in 0 .. LogN] ==
            [i \in Index |-> IF k = 0 THEN 0 ELSE (i % 2) * Pow2[k - 1] + rev[k - 1][i \div 2]]
    IN  rev[LogN]

ASSUME TransformAssumption ==
    /\ LogN \in 1 .. W /\ P \in Nat /\ NewModulusOk(P)
    /\ \A c \in Coefficients, j \in 1 .. N : c[j] \in Word
    /\ \A f \in Factors, j \in 1 .. N : f[j] \in Int
    /\ \A e \in Exponents : e \in 1 .. 2 * N - 1 /\ e % 2 = 1
    /\ Shifts \subseteq 0 .. 2 * N /\ MaxOperations \in Nat

SupportsNtt == P % (2 * N) = 1 /\ IsPrime(P)

(* The roots that primitive_root may return. *)
IsPrimitiveRoot(a) == Power(PModulus, a, 2 * N) = 1 /\ Power(PModulus, a, N) # 1

Roots == {r \in {Power(PModulus, x, (P - 1) \div (2 * N)) : x \in 0 .. P - 1} : IsPrimitiveRoot(r)}

(* NttOperator::new *)
Omegas == [r \in Roots |-> [i \in Index |-> Power(PModulus, r, BitRev[i])]]

ZetasInv ==
    [r \in Roots |-> [i \in Index |->
        Power(PModulus, InverseOf(PModulus, r), BitRev[i] + 1)]]

SizeInv == InverseOf(PModulus, N)

Scaled1(x, w) == LazyMulShoup(PModulus, x, w, Shoup(PModulus, w))

(* Mutant: the first entry is not brought below 2 p.                       *)
ButterflyLazy(x, y, w) ==
    LET t == Scaled1(y, w) IN << (x + t) % B, (x + 2 * P - t) % B >>

(* The butterflies return the new pair. *)
Butterfly(x, y, w) ==
    LET z == Reduce1(x, 2 * P)
        t == Scaled1(y, w)
    IN  << (z + t) % B, (z + 2 * P - t) % B >>

InvButterfly(x, y, z) ==
    << Reduce1((x + y) % B, 2 * P), Scaled1((2 * P + x - y) % B, z) >>

Reduce3(x) == Reduce1(Reduce1(x, 2 * P), P)

(* A pass over a row is at chunk k: level l, chunk i of it. *)
Pass(dir, vt, keepLazy, l, i, k) ==
    [dir |-> dir, vt |-> vt, keepLazy |-> keepLazy, l |-> l, i |-> i, k |-> k]

Chunk(a, l, i, f(_, _)) ==
    [j \in Index |->
        IF j \div (2 * l) # i THEN a[j]
        ELSE IF j % (2 * l) < l THEN f(a[j], a[j + l])[1] ELSE f(a[j - l], a[j])[2]]

ForwardChunkOf(a, root, pass) ==
    LET b == Chunk(a, pass.l, pass.i,
                   LAMBDA x, y : Butterfly(x, y, Omegas[root][pass.k]))
    IN  IF pass.l = 1 /\ ~pass.vt
        THEN [j \in Index |-> IF j \div 2 = pass.i THEN Reduce3(b[j]) ELSE b[j]]
        ELSE b

BackwardChunkOf(a, root, pass) ==
    Chunk(a, pass.l, pass.i, LAMBDA x, y : InvButterfly(x, y, ZetasInv[root][pass.k]))

(* Mutant: the sign of coefficients that wrap around forgotten.            *)
ShiftedUnsigned(a, power) ==
    LET shift == (2 * N - power) % (2 * N)
    IN  [j \in Index |-> a[(j + 2 * N - shift) % N]]

(* Poly::multiply_inverse_power_of_x *)
Shifted(a, power) ==
    LET shift == (2 * N - power) % (2 * N)
    IN  [j \in Index |->
            LET k == (j + 2 * N - shift) % N
            IN  IF ((shift + k) \div N) % 2 = 0 THEN a[k] ELSE Neg(PModulus, a[k])]

(* SubstitutionExponent::new and Poly::substitute on transformed rows.     *)
PowerBitRev(e) == [j \in Index |-> BitRev[((e - 1) \div 2 + j * e) % N]]

SubstitutedNtt(a, e) ==
    [j \in Index |-> a[PowerBitRev(e)[BitRev[j]]]]

(* Poly::substitute on coefficients. *)
SubstitutedPower(a, e) ==
    [j \in Index |->
        LET k == CHOOSE k \in Index : (k * e) % N = j
        IN  IF ((k * e) \div N) % 2 = 1 THEN Sub(PModulus, 0, a[k]) ELSE Add(PModulus, 0, a[k])]

-----------------------------------------------------------------------------
(* The reference: polynomials modulo X^N + 1 and p. *)

RootPower == [r \in Roots |-> [k \in 0 .. 2 * N - 1 |-> Power(PModulus, r, k)]]

Evaluate(want, r, i) ==
    SumFunction([j \in Index |-> want[j] * RootPower[r][((2 * BitRev[i] + 1) * j) % (2 * N)]]) % P

SignOf(k) == IF (k \div N) % 2 = 0 THEN 1 ELSE -1

(* want(X) * X^k, k of either sign, and want(X^e). *)
TimesMonomial(want, k) ==
    [j \in Index |->
        LET i == (j - k) % N IN (SignOf((i + k) % (2 * N)) * want[i]) % P]

ComposedWith(want, e) ==
    [j \in Index |->
        SumFunction([i \in Index |-> IF (i * e) % N = j THEN SignOf(i * e) * want[i] ELSE 0]) % P]

Product1(want, f) ==
    [j \in Index |->
        SumFunction([i \in Index |-> SignOf((j - i) % (2 * N)) * want[i] * f[(j - i) % N]]) % P]

-----------------------------------------------------------------------------

RowInit == row = NoRow

Idle == row # NoRow /\ row.pass.l = 0

NoPass == Pass("", FALSE, FALSE, 0, 0, 0)

(* A polynomial and an operator, with any root that primitive_root finds.  *)
LoadRow(c, r) ==
    /\ row = NoRow /\ SupportsNtt
    /\ row' = [root |-> r, a |-> [j \in Index |-> Reduce(PModulus, c[j + 1])],
               rep |-> "power", lazy |-> FALSE, pass |-> NoPass, left |-> MaxOperations,
               want |-> [j \in Index |-> c[j + 1] % P]]

(* The constant polynomials: their words are reduced lazily. *)
LoadLazyRow(c, r) ==
    /\ row = NoRow /\ SupportsNtt
    /\ row' = [root |-> r, a |-> [j \in Index |-> LazyReduceEntry(PModulus, c[j + 1])],
               rep |-> "power", lazy |-> TRUE, pass |-> Pass("forward", TRUE, TRUE, N \div 2, 0, 1),
               left |-> MaxOperations, want |-> [j \in Index |-> c[j + 1] % P]]

(* forward, forward_vt and forward_vt_lazy *)
ForwardStarted(v, vt) == [v EXCEPT !.pass = Pass("forward", vt, FALSE, N \div 2, 0, 1)]

StartForward(vt) ==
    Idle /\ row.rep = "power" /\ row' = ForwardStarted(row, vt)

(* A row after the next chunk, and after the last. *)
ForwardChunked(v) ==
    LET q == v.pass
        lastOfLevel == q.i = N \div (2 * q.l) - 1
        b == ForwardChunkOf(v.a, v.root, q)
        next == IF lastOfLevel THEN Pass("forward", q.vt, q.keepLazy, q.l \div 2, 0, q.k + 1)
                ELSE [q EXCEPT !.i = q.i + 1, !.k = q.k + 1]
    IN  IF next.l # 0 THEN [v EXCEPT !.a = b, !.pass = next]
        ELSE [v EXCEPT !.pass = NoPass, !.rep = "ntt", !.lazy = q.keepLazy,
                       !.a = IF q.vt /\ ~q.keepLazy THEN [j \in Index |-> Reduce3(b[j])] ELSE b]

ForwardChunk ==
    /\ row # NoRow /\ row.pass.dir = "forward" /\ row.pass.l > 0
    /\ row' = ForwardChunked(row)

(* backward and backward_vt, on reduced rows *)
BackwardStarted(v, vt) == [v EXCEPT !.pass = Pass("backward", vt, FALSE, 1, 0, 0)]

StartBackward(vt) ==
    Idle /\ row.rep = "ntt" /\ ~row.lazy /\ row' = BackwardStarted(row, vt)

BackwardChunked(v) ==
    LET q == v.pass
        lastOfLevel == q.i = N \div (2 * q.l) - 1
        b == BackwardChunkOf(v.a, v.root, q)
        next == IF lastOfLevel THEN Pass("backward", q.vt, FALSE, q.l * 2, 0, q.k + 1)
                ELSE [q EXCEPT !.i = q.i + 1, !.k = q.k + 1]
    IN  IF next.l < N THEN [v EXCEPT !.a = b, !.pass = next]
        ELSE [v EXCEPT !.pass = NoPass, !.rep = "power",
                       !.a = [j \in Index |->
                           MulShoup(PModulus, b[j], SizeInv, Shoup(PModulus, SizeInv))]]

BackwardChunk ==
    /\ row # NoRow /\ row.pass.dir = "backward" /\ row.pass.l > 0
    /\ row' = BackwardChunked(row)

Operate(a, want) ==
    /\ Idle /\ row.left > 0
    /\ row' = [row EXCEPT !.a = a, !.want = want, !.lazy = FALSE, !.left = row.left - 1]

Substitute(e) ==
    /\ Idle /\ ~row.lazy
    /\ Operate(IF row.rep = "ntt" THEN SubstitutedNtt(row.a, e) ELSE SubstitutedPower(row.a, e),
               ComposedWith(row.want, e))

DivideByPower(k) ==
    /\ Idle /\ row.rep = "power"
    /\ Operate(Shifted(row.a, k), TimesMonomial(row.want, -k))

(* The product of a row, lazy or not, by a row with Shoup quotients.       *)
MultiplyBy(f) ==
    /\ Idle /\ row.rep = "ntt"
    /\ LET g == [j \in Index |-> f[j + 1]]
           h == [j \in Index |-> Evaluate(g, row.root, j)]
       IN  Operate([j \in Index |-> MulShoup(PModulus, row.a[j], h[j], Shoup(PModulus, h[j]))],
                   Product1(row.want, g))

RowNext ==
    \/ \E r \in Roots, c \in Coefficients : LoadRow(c, r) \/ LoadLazyRow(c, r)
    \/ \E vt \in BOOLEAN : StartForward(vt) \/ StartBackward(vt)
    \/ ForwardChunk \/ BackwardChunk
    \/ \E e \in Exponents : Substitute(e)
    \/ \E k \in Shifts : DivideByPower(k)
    \/ \E f \in Factors : MultiplyBy(f)

(* A row by itself. *)
RowSpec == RowInit /\ [][RowNext]_row
-----------------------------------------------------------------------------

(* Between transforms a row holds the polynomial it should, as             *)
(* coefficients or as values at the odd powers of the root, whatever the   *)
(* operations between: the transform and the substitutions of NttOperator  *)
(* and Poly agree on the order of the values.                              *)
TransformExact ==
    row # NoRow /\ row.pass.l = 0 =>
        \A i \in Index :
            row.a[i] % P = IF row.rep = "power" THEN row.want[i]
                           ELSE Evaluate(row.want, row.root, i)

(* The entries never exceed what the next step takes: 4 p forwards, 2 p    *)
(* backwards (the debug assertions of the butterflies), and a row that is  *)
(* not lazy is reduced.                                                    *)
EntriesBounded ==
    row # NoRow =>
        \A i \in Index :
            row.a[i] < P * (IF row.pass.dir = "forward" THEN 4
                            ELSE IF row.pass.dir = "backward" THEN 2
                            ELSE IF row.lazy THEN 4 ELSE 1)
=============================================================================
