----------------------------- MODULE Polynomials ----------------------------
(***************************************************************************)
(* A polynomial (Poly) over a chain of contexts: its rows of residues, one *)
(* per modulus that is left, its representation, and the flags for lazy    *)
(* coefficients and variable time.  The ring has degree one, in which the  *)
(* transforms (module Transform) and the substitutions leave a row as it   *)
(* is, so the representation is only the type of the polynomial.           *)
(***************************************************************************)
EXTENDS RnsNumbers

CONSTANTS
    Chain,          \* the moduli of the first context
    Integers64,     \* signed words converted to polynomials
    Numbers,        \* big numbers that are operands
    NoPoly

(* Context::new makes the moduli into an RnsContext and needs a transform  *)
(* for each, so they are primes; signed words have as many bits as words.  *)
ASSUME PolyAssumption ==
    /\ Chain \in Seq(Nat) /\ RnsContextOk(Chain) /\ \A i \in DOMAIN Chain : IsPrime(Chain[i])
    /\ Integers64 \subseteq -(B \div 2) .. (B \div 2) - 1
    /\ Numbers \subseteq Nat

VARIABLE poly       \* [len, rep, lazy, vt, rows, shoup] and (history) want

Representations == {"PowerBasis", "Ntt", "NttShoup"}

(* Context::new and its chain: the context with the first len moduli.      *)
ChainOf == [len \in 1 .. Len(Chain) |-> SubSeq(Chain, 1, len)]

ModulusOf == [i \in DOMAIN Chain |-> NewModulus(Chain[i])]

ProductAt == [len \in DOMAIN Chain |-> ProductOf(ChainOf[len])]

(* inv_last_qi_mod_qj *)
InvLast ==
    [len \in DOMAIN Chain |-> [i \in 1 .. len - 1 |->
        InverseOf(ModulusOf[i], Reduce(ModulusOf[i], Chain[len]))]]

NItersOk(len, to) == to <= len

ContextAtLevelOk(level) == level < Len(Chain)

ContextAtLevel(level) == Len(Chain) - level

(* compute_coefficients_shoup *)
ShoupOf(rows) == [i \in DOMAIN rows |-> Shoup(ModulusOf[i], rows[i])]

Polynomial(rep, vt, rows, want) ==
    [len |-> Len(rows), rep |-> rep, lazy |-> FALSE, vt |-> vt, rows |-> rows,
     shoup |-> IF rep = "NttShoup" THEN ShoupOf(rows) ELSE << >>, want |-> want]

PolyInit == poly = NoPoly

HasPoly == poly # NoPoly

Exact == HasPoly /\ ~poly.lazy

(* Conversions: from residues and big numbers, whose rows are projections  *)
(* (an unreduced array is taken as it is: it is not one of the inputs),    *)
(* from words and from signed words.                                       *)
FromNumber(level, x, rep, vt) ==
    /\ poly = NoPoly
    /\ poly' = Polynomial(rep, vt, Project(ChainOf[ContextAtLevel(level)], x), x)

FromWord(a, rep, vt) ==
    /\ poly = NoPoly
    /\ poly' = Polynomial(rep, vt, [i \in DOMAIN Chain |-> Reduce(ModulusOf[i], a)],
                          a % ProductAt[Len(Chain)])

FromI64(a, rep, vt) ==
    /\ poly = NoPoly
    /\ poly' = Polynomial(rep, vt, [i \in DOMAIN Chain |-> ReduceI64(ModulusOf[i], a)],
                          a % ProductAt[Len(Chain)])

(* create_constant_ntt_polynomial_with_lazy_coefficients_and_variable_time:*)
(* the lazy transform leaves any entries below 4 p of the right residues.  *)
CreateConstant(a) ==
    /\ poly = NoPoly
    /\ \E over \in [DOMAIN Chain -> 0 .. 3] :
        poly' = [Polynomial("Ntt", TRUE, [i \in DOMAIN Chain |-> (a % Chain[i]) + over[i] * Chain[i]],
                            a % ProductAt[Len(Chain)]) EXCEPT !.lazy = TRUE]

Become1(rep, vt, rows, want) == poly' = Polynomial(rep, vt, rows, want % ProductAt[Len(rows)])

(* into_ntt, into_ntt_shoup and into_power_basis *)
Into(rep) == Exact /\ rep # poly.rep /\ Become1(rep, poly.vt, poly.rows, poly.want)

Rows2(f(_, _, _), b) == [i \in 1 .. poly.len |-> f(ModulusOf[i], poly.rows[i], b[i])]

Operand(b) == Project(ChainOf[poly.len], b)

AddAssign(b, vt) ==
    /\ Exact /\ poly.rep # "NttShoup"
    /\ Become1(poly.rep, poly.vt \/ vt, Rows2(Add, Operand(b)), poly.want + b)

SubAssign(b, vt) ==
    /\ Exact /\ poly.rep # "NttShoup"
    /\ Become1(poly.rep, poly.vt \/ vt, Rows2(Sub, Operand(b)), poly.want - b)

MulAssign(b, vt) ==
    /\ Exact /\ poly.rep = "Ntt"
    /\ Become1("Ntt", poly.vt \/ vt, Rows2(MulEntry, Operand(b)), poly.want * b)

(* By a polynomial with Shoup quotients; the only product of lazy ones.    *)
MulAssignShoup(b, vt) ==
    /\ HasPoly /\ poly.rep = "Ntt"
    /\ LET y == Operand(b)
           Product(m, a, bi) == MulShoup(m, a, bi, Shoup(m, bi))
       IN  Become1("Ntt", poly.vt \/ vt, Rows2(Product, y), poly.want * b)

(* scalar_mul_vec computes the Shoup quotient of the scalar. *)
MulAssignNumber(b) ==
    /\ Exact /\ poly.rep # "NttShoup"
    /\ LET Product(m, a, bi) == MulShoup(m, a, bi, Shoup(m, bi))
       IN  Become1(poly.rep, poly.vt, Rows2(Product, Operand(b)), poly.want * b)

Negate ==
    /\ Exact /\ poly.rep # "NttShoup"
    /\ Become1(poly.rep, poly.vt, [i \in 1 .. poly.len |-> Neg(ModulusOf[i], poly.rows[i])],
               -poly.want)

-----------------------------------------------------------------------------
(* Mutant: half of the last modulus is added but not taken off again.      *)
SwitchedRowsUncentred(rows) ==
    LET len == Len(rows)
        half == Chain[len] \div 2
        last == Add(ModulusOf[len], rows[len], half)
    IN  [i \in 1 .. len - 1 |->
            LET m == ModulusOf[i]
                tmp == LazyReduce(m, last)
                c == (rows[i] + 3 * m.p - tmp) % B
            IN  MulShoup(m, c, InvLast[len][i], Shoup(m, InvLast[len][i]))]

(* Poly::switch_down: the rows after dividing by the last modulus.         *)
SwitchedRows(rows) ==
    LET len == Len(rows)
        half == Chain[len] \div 2
        last == Add(ModulusOf[len], rows[len], half)
    IN  [i \in 1 .. len - 1 |->
            LET m == ModulusOf[i]
                tmp == LazyReduce(m, last) + (m.p - Reduce(m, half))
                c == (rows[i] + 3 * m.p - tmp) % B
            IN  MulShoup(m, c, InvLast[len][i], Shoup(m, InvLast[len][i]))]

Nearest(x, d) == (x + d \div 2) \div d

(* switch_down_to: down to a context of the chain. *)
SwitchDownTo(to) ==
    /\ Exact /\ poly.rep = "PowerBasis" /\ NItersOk(poly.len, to) /\ to < poly.len
    /\ LET down[n \in to .. poly.len] ==
               IF n = poly.len THEN [rows |-> poly.rows, want |-> poly.want]
               ELSE [rows |-> SwitchedRows(down[n + 1].rows),
                     want |-> Nearest(down[n + 1].want, Chain[n + 1]) % ProductAt[n]]
       IN  Become1("PowerBasis", poly.vt, down[to].rows, down[to].want)

(* Written, and read in the context with len moduli; variable time is      *)
(* allowed if the reader or the writer allowed it.                         *)
SerializedBits(len) == SumOf([i \in 1 .. len |-> W - LeadingZeros[Chain[i]]], len)

WriteAndRead(len, rep, vt) ==
    /\ Exact /\ rep = poly.rep /\ SerializedBits(len) = SerializedBits(poly.len)
    /\ Become1(rep, vt \/ poly.vt, poly.rows, poly.want)

PolyNext ==
    \/ poly = NoPoly /\ \E rep \in Representations, vt \in BOOLEAN :
        \/ \E level \in 0 .. Len(Chain) :
            ContextAtLevelOk(level) /\ \E x \in 0 .. ProductAt[ContextAtLevel(level)] - 1 :
            FromNumber(level, x, rep, vt)
        \/ \E a \in Word : FromWord(a, rep, vt)
        \/ \E a \in Integers64 : FromI64(a, rep, vt)
    \/ poly = NoPoly /\ \E a \in Word : CreateConstant(a)
    \/ \E rep \in Representations, vt \in BOOLEAN, len \in DOMAIN Chain :
        WriteAndRead(len, rep, vt)
    \/ \E rep \in Representations : Into(rep)
    \/ \E b \in Numbers, vt \in BOOLEAN :
        \/ AddAssign(b, vt) \/ SubAssign(b, vt)
        \/ MulAssign(b, vt) \/ MulAssignShoup(b, vt)
    \/ \E b \in Numbers : MulAssignNumber(b)
    \/ Negate
    \/ \E to \in DOMAIN Chain : SwitchDownTo(to)

PolySpec == PolyInit /\ [][PolyNext]_poly

-----------------------------------------------------------------------------

(* The rows are the residues of the number that exact arithmetic modulo    *)
(* the product gives, switched down to the nearest at every modulus; they  *)
(* are reduced unless the polynomial says that they are lazy, and the      *)
(* Shoup quotients are those of the rows they stand beside.                *)
PolyExact ==
    poly # NoPoly =>
        /\ \A i \in 1 .. poly.len :
            /\ poly.rows[i] % Chain[i] = poly.want % Chain[i]
            /\ poly.rows[i] < (IF poly.lazy THEN 4 ELSE 1) * Chain[i]
        /\ poly.rep = "NttShoup" => poly.shoup = ShoupOf(poly.rows)
=============================================================================
