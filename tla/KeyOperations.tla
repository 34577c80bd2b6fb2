---------------------------- MODULE KeyOperations ---------------------------
(***************************************************************************)
(* The ciphertext operations that need a key (relinearization, rotation,   *)
(* the Multiplicator, the product with an RGSW ciphertext), and the        *)
(* conversion of a ciphertext to bytes and back.                           *)
(*                                                                         *)
(* Keys never change once built: they are values, and the sets below are   *)
(* the keys the constructors of the library accept to build.               *)
(***************************************************************************)
EXTENDS Ciphertexts

CONSTANT NoKey

(* A KeySwitchingKey switches polynomials of level ctLevel and is itself   *)
(* at level kskLevel.                                                      *)
SwitchingKey ==
    {k \in [par : Params, ctLevel : Level, kskLevel : Level] :
        k.ctLevel \in Levels(k.par) /\ k.kskLevel \in Levels(k.par)}

(* RelinearizationKey::new_leveled refuses a one-modulus key context and   *)
(* nothing else: a key below the ciphertexts it is for can be built.       *)
RelinKey == {k \in SwitchingKey : k.kskLevel < MaxLevel(k.par)}

(* A GaloisKey comes from an EvaluationKeyBuilder, which orders the levels.*)
GaloisKey == {k \in SwitchingKey : k.kskLevel <= k.ctLevel}

(* A Multiplicator, after enable_relinearization and enable_mod_switching. *)
(* The relinearization key must have the context of the multiplicator, it  *)
(* may come from other parameters.                                         *)
Multiplicator ==
    {m \in [par : Params, level : Level, rk : RelinKey \cup {NoKey}, modSwitch : BOOLEAN] :
        /\ m.level \in Levels(m.par)
        /\ m.modSwitch => m.level # MaxLevel(m.par)
        /\ m.rk # NoKey => m.rk.ctLevel = m.level}

(* The key switching keys of an RGSW ciphertext have its level twice.      *)
RGSW == {g \in [par : Params, level : Level] : g.level <= MaxLevel(g.par)}

KeyCtx(k) == CtxAt(k.par, k.kskLevel)

(* key_switch on polynomial q; when the key is not at the level of the     *)
(* ciphertext with parts c, both results are brought down to it.           *)
KeySwitchOk(k, q, c) ==
    /\ q.ctx = CtxAt(k.par, k.ctLevel)
    /\ KeyCtx(k) # c[1].ctx => \A i \in 1 .. 2 : Reaches(KeyCtx(k), c[i].ctx)

(* The context of the i-th result: whether they are brought down is        *)
(* decided on the first one.                                               *)
SwitchedCtx(k, c, i) == IF KeyCtx(k) = c[1].ctx THEN KeyCtx(k) ELSE c[i].ctx

RelinearizesOk(x, k) ==
    /\ Len(x.c) = 3
    /\ x.level = k.ctLevel
    /\ KeySwitchOk(k, x.c[3], x.c)

(* In place: parameters, level and seed are left as they were.             *)
Relinearizes(x, k) ==
    [x EXCEPT !.c = [i \in 1 .. 2 |->
        Computed(x.c[i].ctx, {x.c[i], Moved(x.c[3], SwitchedCtx(k, x.c, i))})]]

RotatesOk(x, k) ==
    /\ Len(x.c) = 2
    /\ KeySwitchOk(k, x.c[2], x.c)

(* The result takes its level from the key.                                *)
Rotates(x, k) ==
    [par |-> x.par, seed |-> NoSeed, level |-> k.ctLevel,
     c |-> << Computed(x.c[1].ctx, {x.c[1], Moved(x.c[2], x.c[1].ctx)}),
              Moved(x.c[2], SwitchedCtx(k, x.c, 2)) >>]

(* One step of computes_inner_sum: out += relinearize_into(out).           *)
InnerSumOk(x, k) == RotatesOk(x, k) /\ AddOk(x, Rotates(x, k))

InnerSum(x, k) == Add(x, Rotates(x, k))

-----------------------------------------------------------------------------
MultiplyOk(m, x, y) ==
    LET base == CtxAt(m.par, m.level)
        part == Computed(base, {})
    IN  /\ Value[x.par] = Value[m.par] /\ Value[y.par] = Value[m.par]
        /\ x.level = m.level /\ y.level = m.level
        /\ Len(x.c) = 2 /\ Len(y.c) = 2
        /\ \A q \in Parts(x) \cup Parts(y) : q.ctx = base
        /\ m.rk # NoKey => KeySwitchOk(m.rk, part, << part, part >>)

(* Tensor, relinearize, switch down; the result has the parameters of the  *)
(* multiplicator.                                                          *)
Multiply(m, x, y) ==
    LET base == CtxAt(m.par, m.level)
        part == Computed(base, Parts(x) \cup Parts(y))
        n    == IF m.rk = NoKey THEN 3 ELSE 2
        out  == [par |-> m.par, seed |-> NoSeed, level |-> m.level,
                 c |-> [i \in 1 .. n |-> part]]
    IN  IF m.modSwitch THEN SwitchDown(out) ELSE out

RgswMulOk(x, g) ==
    /\ Value[x.par] = Value[g.par]
    /\ x.level = g.level
    /\ Len(x.c) = 2
    /\ \A q \in Parts(x) : q.ctx = CtxAt(g.par, g.level)

RgswMul(x, g) ==
    [par |-> x.par, seed |-> NoSeed, level |-> x.level,
     c |-> [i \in 1 .. 2 |-> Computed(CtxAt(g.par, g.level), Parts(x))]]

-----------------------------------------------------------------------------
(* Serialization.  The bytes hold the level and every part, or the seed    *)
(* instead of the last part; they do not hold the parameters.              *)

Serialize(x) ==
    [polys |-> IF x.c # << >> /\ x.seed # NoSeed
               THEN SubSeq(x.c, 1, Len(x.c) - 1) ELSE x.c,
     seed  |-> IF x.c = << >> THEN NoSeed ELSE x.seed,
     level |-> x.level]

(* A part made in another context has another length in bytes.             *)
DeserializeOk(bytes, p) ==
    /\ bytes.polys # << >>
    /\ Len(bytes.polys) = 1 => bytes.seed # NoSeed
    /\ bytes.level <= MaxLevel(p)
    /\ \A i \in DOMAIN bytes.polys : bytes.polys[i].ctx = CtxAt(p, bytes.level)

(* Mutant: the seed is expanded in the context of level 0.                 *)
DeserializeAtTop(bytes, p) ==
    [par |-> p, seed |-> bytes.seed, level |-> bytes.level,
     c |-> IF bytes.seed = NoSeed THEN bytes.polys
           ELSE Append(bytes.polys, [ctx |-> CtxAt(p, 0), src |-> bytes.seed])]

Deserialize(bytes, p) ==
    [par |-> p, seed |-> bytes.seed, level |-> bytes.level,
     c |-> IF bytes.seed = NoSeed THEN bytes.polys
           ELSE Append(bytes.polys,
                       [ctx |-> CtxAt(p, bytes.level), src |-> bytes.seed])]

=============================================================================
