------------------------------ MODULE Residues ------------------------------
(***************************************************************************)
(* One entry of a row of residues under the vector operations of Modulus,  *)
(* each of which treats the entries alike.  An entry is reduced (below p)  *)
(* or lazy (below 2 p), and the operations say which they take and which   *)
(* they leave.                                                             *)
(***************************************************************************)
EXTENDS Words

CONSTANTS
    Primes,         \* values offered to Modulus::new
    NoEntry

ASSUME PrimesAssumption == Primes \subseteq Nat

VARIABLE entry      \* [m, x, lazy, c] and (history) want, its residue

Entry(m, x, lazy, want) ==
    [m |-> m, x |-> x, lazy |-> lazy, c |-> 0, want |-> want % m.p]

EntryInit == entry = NoEntry

Has == entry # NoEntry

Reduced == Has /\ ~entry.lazy

Become(x, lazy, want) == entry' = Entry(entry.m, x, lazy, want)

MakeModulus(p) ==
    /\ entry = NoEntry /\ NewModulusOk(p)
    /\ entry' = Entry(NewModulus(p), 0, FALSE, 0)

(* A fresh entry, into which any word is loaded. *)
Fresh == Reduced /\ entry.x = 0 /\ entry.c = 0

ReduceVec(a) == Fresh /\ Become(Reduce(entry.m, a), FALSE, a)

LazyReduceVec(a) == Fresh /\ Become(LazyReduceEntry(entry.m, a), TRUE, a)

ReduceOptEntry(a) == Fresh /\ entry.m.opt /\ Become(ReduceOpt(entry.m, a), FALSE, a)

ReduceVecI64(a) == Fresh /\ Become(ReduceI64(entry.m, a), FALSE, a)

ReduceDouble(a) == Fresh /\ Become(ReduceU128(entry.m, a), FALSE, a)

LazyReduceDouble(a) == Fresh /\ Become(LazyReduceU128(entry.m, a), TRUE, a)

ReduceOptDouble(a) ==
    /\ Fresh /\ entry.m.opt /\ a < entry.m.p * entry.m.p
    /\ Become(ReduceOptU128(entry.m, a), FALSE, a)

LazyReduceOptDouble(a) ==
    /\ Fresh /\ entry.m.opt /\ a < entry.m.p * entry.m.p
    /\ Become(LazyReduceOptU128(entry.m, a), TRUE, a)

(* reduce_vec over entries that are there. *)
ReduceAgain == Has /\ Become(Reduce(entry.m, entry.x), FALSE, entry.want)

AddVec(b) == Reduced /\ Become(Add(entry.m, entry.x, b), FALSE, entry.want + b)

SubVec(b) == Reduced /\ Become(Sub(entry.m, entry.x, b), FALSE, entry.want - b)

NegVec == Reduced /\ Become(Neg(entry.m, entry.x), FALSE, -entry.want)

MulVec(b) == Reduced /\ Become(MulEntry(entry.m, entry.x, b), FALSE, entry.want * b)

(* Lazy entries may be multiplied by a constant with its Shoup quotient.   *)
ScalarMulVec(b) ==
    Has /\ Become(MulShoup(entry.m, entry.x, b, Shoup(entry.m, b)), FALSE, entry.want * b)

LazyMul(b) ==
    Has /\ Become(LazyMulShoup(entry.m, entry.x, b, Shoup(entry.m, b)), TRUE, entry.want * b)

MulShoupWord(a, b) ==
    Fresh /\ Become(MulShoup(entry.m, a, b, Shoup(entry.m, b)), FALSE, a * b)

(* The reference for a power, by repeated multiplication. *)
PowerOf(a, n, p) ==
    LET f[k \in 0 .. n] == IF k = 0 THEN 1 % p ELSE (f[k - 1] * a) % p IN f[n]

RaiseTo(n) ==
    Reduced /\ Become(Power(entry.m, entry.x, n), FALSE, PowerOf(entry.want, n, entry.m.p))

Invert ==
    /\ Reduced /\ InverseOk(entry.m, entry.x)
    /\ Become(InverseOf(entry.m, entry.x), FALSE,
              CHOOSE y \in 0 .. entry.m.p - 1 : (y * entry.x) % entry.m.p = 1)

CenterVec == Reduced /\ entry' = [entry EXCEPT !.c = Center(entry.m, entry.x)]

EntryNext ==
    \/ \E p \in Primes : MakeModulus(p)
    \/ Fresh /\ \E a \in Word :
        ReduceVec(a) \/ LazyReduceVec(a) \/ ReduceOptEntry(a) \/ ReduceVecI64(a - B \div 2)
    \/ Fresh /\ \E a \in DoubleWord :
        \/ ReduceDouble(a) \/ LazyReduceDouble(a)
        \/ ReduceOptDouble(a) \/ LazyReduceOptDouble(a)
    \/ ReduceAgain \/ NegVec \/ Invert \/ CenterVec
    \/ Has /\ \E b \in 0 .. entry.m.p - 1 :
        AddVec(b) \/ SubVec(b) \/ MulVec(b) \/ ScalarMulVec(b) \/ LazyMul(b) \/ RaiseTo(b)
    \/ Fresh /\ \E a \in Word, b \in 0 .. entry.m.p - 1 : MulShoupWord(a, b)

(* An entry by itself. *)
EntrySpec == EntryInit /\ [][EntryNext]_entry
-----------------------------------------------------------------------------

(* Whatever operations made an entry, it is below p, or below 2 p when it  *)
(* is lazy, and congruent to what the operations should make (the          *)
(* postconditions of Modulus).                                             *)
EntryExact ==
    entry # NoEntry =>
        /\ entry.x \in 0 .. (IF entry.lazy THEN 2 ELSE 1) * entry.m.p - 1
        /\ entry.x % entry.m.p = entry.want

(* The centred entry is the same residue, in (-p/2 - 1, p/2) (Modulus::    *)
(* center: for an odd p the least value is -(p + 1)/2).                    *)
CenteredExact ==
    entry # NoEntry /\ entry.c # 0 =>
        /\ (entry.c - entry.want) % entry.m.p = 0
        /\ -(entry.m.p + 1) <= 2 * entry.c /\ 2 * entry.c < entry.m.p
=============================================================================
