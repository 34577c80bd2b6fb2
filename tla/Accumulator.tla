---------------------------- MODULE Accumulator -----------------------------
(***************************************************************************)
(* The dot product of two sequences of transformed polynomials             *)
(* (rq::dot_product): the products are summed in double words, which are   *)
(* reduced only when the next product might not fit.                       *)
(***************************************************************************)
EXTENDS Words, Sequences

CONSTANTS
    DotModuli,      \* the moduli of the context
    Counts,         \* how many polynomials the shorter sequence holds
    Factors2,       \* pairs of functions from a modulus to the residues multiplied
    NoDot

ASSUME DotAssumption ==
    /\ DotModuli \in Seq(Nat) /\ \A j \in DOMAIN DotModuli : NewModulusOk(DotModuli[j])
    /\ Counts \subseteq Nat
    /\ \A f \in Factors2, j \in DOMAIN DotModuli :
          f.x[j] \in 0 .. DotModuli[j] - 1 /\ f.y[j] \in 0 .. DotModuli[j] - 1

VARIABLE dot    \* [count, left, acc, num, out] and (history) want

DotModulus == [j \in DOMAIN DotModuli |-> NewModulus(DotModuli[j])]

(* As many products as surely fit a double word. *)
MaxAcc == [j \in DOMAIN DotModuli |-> Pow2[2 * DotModulus[j].lz]]

(* More products than the least of max_acc. *)
TooMany(count) == \E j \in DOMAIN DotModuli : count > MaxAcc[j]

DotInit == dot = NoDot

StartDot(count) ==
    /\ dot = NoDot /\ count > 0
    /\ dot' = [count |-> count, left |-> count, out |-> << >>,
               acc |-> [j \in DOMAIN DotModuli |-> 0], num |-> [j \in DOMAIN DotModuli |-> 1],
               want |-> [j \in DOMAIN DotModuli |-> 0]]

(* Mutant: the bound twice what a double word holds.                       *)
MustReduceAtMost(count, num, j) == count > Pow2[2 * DotModulus[j].lz + 1] /\ num = MaxAcc[j]

(* Whether the loop reduces the j-th row, num products after the last time.*)
MustReduce(count, num, j) == TooMany(count) /\ num = MaxAcc[j]

(* fma *)
Sum(x, y, j) == (dot.acc[j] + x[j] * y[j]) % (B * B)

Full(j) == MustReduce(dot.count, dot.num[j] + 1, j)

(* fma, and the reduction that follows it *)
MulAddStep(x, y) ==
    /\ dot # NoDot /\ dot.left > 0
    /\ dot' = [count |-> dot.count, left |-> dot.left - 1, out |-> dot.out,
               acc |-> [j \in DOMAIN DotModuli |->
                           IF Full(j) THEN ReduceU128(DotModulus[j], Sum(x, y, j)) ELSE Sum(x, y, j)],
               num |-> [j \in DOMAIN DotModuli |->
                           IF Full(j) THEN 1
                           ELSE IF TooMany(dot.count) THEN dot.num[j] + 1 ELSE dot.num[j]],
               want |-> [j \in DOMAIN DotModuli |-> (dot.want[j] + x[j] * y[j]) % DotModuli[j]]]

FinishDot ==
    /\ dot # NoDot /\ dot.left = 0 /\ dot.out = << >>
    /\ dot' = [count |-> dot.count, left |-> dot.left, acc |-> dot.acc, num |-> dot.num,
               out |-> [j \in DOMAIN DotModuli |-> ReduceU128(DotModulus[j], dot.acc[j])],
               want |-> dot.want]

DotNext ==
    \/ \E count \in Counts : StartDot(count)
    \/ \E f \in Factors2 : MulAddStep(f.x, f.y)
    \/ FinishDot

(* A dot product by itself. *)
DotSpec == DotInit /\ [][DotNext]_dot
-----------------------------------------------------------------------------

(* The coefficients are those of the exact sum, however many products are  *)
(* summed and of whatever size: no sum exceeded its double word.           *)
DotExact == dot # NoDot /\ dot.out # << >> => dot.out = dot.want
=============================================================================
