---------------------------- MODULE Ciphertexts -----------------------------
(***************************************************************************)
(* The BFV ciphertext type and the operations on it, as operators on       *)
(* values.  For an operation Op, OpOk is the condition under which the     *)
(* code returns (no assertion fails, no Err) and Op the value it returns.  *)
(*                                                                         *)
(* A polynomial is abstracted to what the bookkeeping of the library       *)
(* depends on: its context, and where its coefficients come from           *)
(*   a seed s : expanded by Poly::random_from_seed(ctx, s);                *)
(*   Derived  : computed from polynomials of that same context;            *)
(*   Mixed    : computed from rows of different contexts.  Poly operators  *)
(*              compare contexts in a debug_assert only, so a release      *)
(*              build zips the rows it finds and goes on.                  *)
(***************************************************************************)
EXTENDS Contexts

CONSTANTS Seeds, NoSeed, Derived, Mixed

ASSUME SeedAssumption ==
    /\ NoSeed \notin Seeds
    /\ Derived \notin Seeds
    /\ Mixed \notin Seeds
    /\ Derived # Mixed

Source == Seeds \cup {Derived, Mixed}

Poly == [ctx : Context, src : Source]

Ciphertext == [par : Params, c : Seq(Poly), seed : Seeds \cup {NoSeed}, level : Level]

(* A plaintext and its polynomial (Plaintext::to_poly, poly_ntt). *)
Plaintext == {pt \in [par : Params, level : Level] : pt.level <= MaxLevel(pt.par)}

(* A polynomial computed, in context ctx, from the polynomials in ins. *)
Computed(ctx, ins) ==
    [ctx |-> ctx,
     src |-> IF \E x \in ins : x.ctx # ctx \/ x.src = Mixed THEN Mixed ELSE Derived]

(* A polynomial brought to another context by scaling or key switching. *)
Moved(x, ctx) ==
    [ctx |-> ctx, src |-> IF x.src = Mixed THEN Mixed ELSE Derived]

PlainPoly(pt) == [ctx |-> CtxAt(pt.par, pt.level), src |-> Derived]

Parts(x) == {x.c[i] : i \in DOMAIN x.c}

-----------------------------------------------------------------------------
(* Construction and encryption. *)

Zero(p) == [par |-> p, c |-> << >>, seed |-> NoSeed, level |-> 0]

(* Mutant: Ciphertext::new without its check on the number of parts.       *)
FromPartsOkAnyLength(parts, p) ==
    /\ parts # << >>
    /\ InChain(p, parts[1].ctx)
    /\ \A i \in DOMAIN parts : parts[i].ctx = parts[1].ctx

FromPartsOk(parts, p) ==
    /\ Len(parts) >= 2
    /\ InChain(p, parts[1].ctx)
    /\ \A i \in DOMAIN parts : parts[i].ctx = parts[1].ctx

FromParts(parts, p) ==
    [par |-> p, c |-> parts, seed |-> NoSeed, level |-> LevelOfContext(p, parts[1].ctx)]

SkEncryptOk(p, pt) == p = pt.par

SkEncrypt(p, pt, s) ==
    LET ctx == CtxAt(pt.par, pt.level)
    IN  [par |-> p, seed |-> s, level |-> LevelOfContext(p, ctx),
         c |-> << Computed(ctx, {PlainPoly(pt)}), [ctx |-> ctx, src |-> s] >>]

(* The public key is switched down until its level is that of the          *)
(* plaintext: the loop ends only if the key's parameters have that level.  *)
PkEncryptOk(p, pt) == pt.level <= MaxLevel(p)

PkEncrypt(p, pt) ==
    LET ctx == CtxAt(p, pt.level)
    IN  [par |-> p, seed |-> NoSeed, level |-> pt.level,
         c |-> << Computed(ctx, {PlainPoly(pt)}), Computed(ctx, {}) >>]

-----------------------------------------------------------------------------
(* Additive operations. *)

(* Mutant: addition without the comparison of levels.                      *)
AddOkAnyLevel(x, y) ==
    /\ x.par = y.par
    /\ (x.c # << >> /\ y.c # << >>) => Len(x.c) = Len(y.c)

AddOk(x, y) ==
    /\ x.par = y.par
    /\ (x.c # << >> /\ y.c # << >>) => (x.level = y.level /\ Len(x.c) = Len(y.c))

(* x with new parts, and no seed any more. *)
WithParts(x, c) == [par |-> x.par, c |-> c, seed |-> NoSeed, level |-> x.level]

Pairwise(x, y) ==
    WithParts(x, [i \in DOMAIN x.c |-> Computed(x.c[i].ctx, {x.c[i], y.c[i]})])

Add(x, y) ==
    IF x.c = << >> THEN y ELSE IF y.c = << >> THEN x ELSE Pairwise(x, y)

(* Mutant: negation that forgets to drop the seed.                         *)
NegKeepsSeed(x) ==
    [x EXCEPT !.c = [i \in DOMAIN x.c |-> Moved(x.c[i], x.c[i].ctx)]]

Neg(x) ==
    WithParts(x, [i \in DOMAIN x.c |-> Moved(x.c[i], x.c[i].ctx)])

Sub(x, y) ==
    IF x.c = << >> THEN Neg(y) ELSE IF y.c = << >> THEN x ELSE Pairwise(x, y)

AddPlainOk(x, pt) ==
    /\ x.par = pt.par
    /\ x.c # << >>
    /\ x.level = pt.level

(* += and -= with a plaintext touch the first part only. *)
AddPlain(x, pt) ==
    WithParts(x, [x.c EXCEPT ![1] = Computed(@.ctx, {@, PlainPoly(pt)})])

(* plaintext - ciphertext *)
PlainSub(x, pt) == Neg(AddPlain(x, pt))

-----------------------------------------------------------------------------
(* Multiplicative operations. *)

MulPlainOk(x, pt) ==
    /\ x.par = pt.par
    /\ x.c # << >> => x.level = pt.level

MulPlain(x, pt) ==
    WithParts(x, [i \in DOMAIN x.c |-> Computed(x.c[i].ctx, {x.c[i], PlainPoly(pt)})])

(* rhs == self.  Two polynomials with the same abstraction may differ, so  *)
(* this says only that the comparison may succeed.                         *)
MayEqual(x, y) ==
    /\ Value[x.par] = Value[y.par]
    /\ x.seed = y.seed /\ x.level = y.level /\ x.c = y.c

MulOk(x, y) ==
    x.c # << >> =>
        /\ MayEqual(x, y) \/ (x.par = y.par /\ x.level = y.level)
        /\ \A q \in Parts(x) \cup Parts(y) : q.ctx = CtxAt(x.par, x.level)

(* Squaring when the operands are equal, the convolution of the parts      *)
(* otherwise: the same bookkeeping.  With an empty right-hand side the     *)
(* convolution has one part less than self, all zero.                      *)
Mul(x, y) ==
    IF x.c = << >> THEN x
    ELSE [par |-> x.par, seed |-> NoSeed, level |-> y.level,
          c |-> [i \in 1 .. (Len(x.c) + Len(y.c) - 1) |->
                    Computed(CtxAt(x.par, x.level), Parts(x) \cup Parts(y))]]

DotProductOk(xs, pts) ==
    LET used == 1 .. (IF Len(xs) < Len(pts) THEN Len(xs) ELSE Len(pts))
    IN  /\ used # {}
        /\ xs[1].c # << >>
        /\ \A i \in used : /\ Value[xs[i].par] = Value[xs[1].par]
                           /\ Value[pts[i].par] = Value[xs[1].par]
        /\ \A i \in DOMAIN xs : Len(xs[i].c) = Len(xs[1].c)

(* Mutant: a dot product that keeps the seed of its first operand.         *)
DotProductKeepsSeed(xs, pts) ==
    [par |-> xs[1].par, seed |-> xs[1].seed, level |-> xs[1].level,
     c |-> [j \in DOMAIN xs[1].c |-> Computed(xs[1].c[1].ctx, {})]]

(* The rows of every operand are zipped with the rows of the first         *)
(* ciphertext.  A plaintext of a higher level brings more rows than needed *)
(* and the first ones are right; a ciphertext of another level, or a       *)
(* plaintext of a lower one, is mixed in silently.                         *)
DotProduct(xs, pts) ==
    LET used == 1 .. (IF Len(xs) < Len(pts) THEN Len(xs) ELSE Len(pts))
        ctx == xs[1].c[1].ctx
        Rows(pt) == IF Reaches(CtxAt(pt.par, pt.level), ctx)
                    THEN {Computed(ctx, {})} ELSE {PlainPoly(pt)}
    IN  [par |-> xs[1].par, seed |-> NoSeed, level |-> xs[1].level,
         c |-> [j \in DOMAIN xs[1].c |->
                  Computed(ctx, {xs[i].c[j] : i \in used}
                                \cup UNION {Rows(pts[i]) : i \in used})]]

-----------------------------------------------------------------------------
(* Moving down the modulus chain. *)

(* Mutant: several switches that count as one in the level.                *)
LoweredCountsOne(x, k) ==
    IF k = 0 THEN x
    ELSE [par |-> x.par, seed |-> NoSeed, level |-> x.level + 1,
          c |-> [i \in DOMAIN x.c |-> Moved(x.c[i], Drop(x.c[i].ctx, k))]]

(* Every part k levels down; only for a ciphertext whose parts have room.  *)
Lowered(x, k) ==
    IF k = 0 THEN x
    ELSE [par |-> x.par, seed |-> NoSeed, level |-> x.level + k,
          c |-> [i \in DOMAIN x.c |-> Moved(x.c[i], Drop(x.c[i].ctx, k))]]

HasRoom(x, k) == \A q \in Parts(x) : k <= Room(q.ctx)

(* switch_down that fails at the first part without a next context: the    *)
(* seed is gone, the parts before it are switched, the level is not.       *)
LoweredHalfway(x) ==
    LET stuck == {i \in DOMAIN x.c : Room(x.c[i].ctx) = 0}
    IN  WithParts(x, [i \in DOMAIN x.c |->
                        IF \E j \in stuck : j <= i THEN x.c[i]
                        ELSE Moved(x.c[i], Drop(x.c[i].ctx, 1))])

(* Mutant: switch_down without its test for the last level.                *)
SwitchDownPastEnd(x) == IF HasRoom(x, 1) THEN Lowered(x, 1) ELSE LoweredHalfway(x)

(* Nothing happens on the last level. *)
SwitchDown(x) ==
    IF x.level >= MaxLevel(x.par) THEN x
    ELSE IF HasRoom(x, 1) THEN Lowered(x, 1) ELSE LoweredHalfway(x)

SwitchToLevelOk(x, target) == x.level <= target /\ target <= MaxLevel(x.par)

(* switch_down until the level is target, or until it fails. *)
SwitchToLevel(x, target) ==
    LET k == target - x.level
    IN  IF HasRoom(x, k) THEN Lowered(x, k)
        ELSE LET done == CHOOSE j \in 0 .. k : HasRoom(x, j) /\ ~HasRoom(x, j + 1)
             IN  LoweredHalfway(Lowered(x, done))

=============================================================================
