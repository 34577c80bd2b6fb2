------------------------------ MODULE Contexts ------------------------------
(***************************************************************************)
(* BFV parameters and the chain of polynomial contexts they define.        *)
(*                                                                         *)
(* A context is the sequence of its RNS moduli; the degree, the same for   *)
(* all parameters considered together, is left out.  Two contexts are      *)
(* equal (Rust's ==) when their moduli are, whichever parameters they came *)
(* from: the last contexts of two different parameter sets may coincide.   *)
(*                                                                         *)
(* A member of Params is a handle, an Arc<BfvParameters>.  Arc::ptr_eq is  *)
(* equality of handles; == on parameters is equality of their Value.       *)
(***************************************************************************)
EXTENDS Naturals, Sequences

CONSTANTS
    Params,     \* handles on parameters
    Value,      \* Value[p]: the parameters behind the handle p
    Modulus,    \* the moduli that occur in some parameters
    Moduli      \* Moduli[p]: the ciphertext moduli of p, in order

(* A chain holds at least one modulus, and equal parameters have equal     *)
(* moduli (BfvParameters derives its equality from its fields).            *)
ASSUME ParamsAssumption ==
    /\ Moduli \in [Params -> Seq(Modulus)]
    /\ \A p \in Params : Moduli[p] # << >>
    /\ \A p, q \in Params : Value[p] = Value[q] => Moduli[p] = Moduli[q]

Context == Seq(Modulus) \ {<< >>}

(* BfvParameters::max_level *)
MaxLevel(p) == Len(Moduli[p]) - 1

Levels(p) == 0 .. MaxLevel(p)

Level == UNION {Levels(p) : p \in Params}

(* The context k steps further down the chain of next_context. *)
Drop(ctx, k) == SubSeq(ctx, 1, Len(ctx) - k)

(* BfvParameters::context_at_level, for a level the parameters have. *)
CtxAt(p, level) == Drop(Moduli[p], level)

(* How many steps a context has below it before NoMoreContext. *)
Room(ctx) == Len(ctx) - 1

(* Context::niterations_to succeeds. *)
Reaches(from, to) == \E k \in 0 .. Room(from) : Drop(from, k) = to

(* BfvParameters::level_of_context, where it succeeds. *)
LevelOfContext(p, ctx) == Len(Moduli[p]) - Len(ctx)

InChain(p, ctx) == Reaches(CtxAt(p, 0), ctx)

=============================================================================
