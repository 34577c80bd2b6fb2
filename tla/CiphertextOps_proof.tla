------------------------- MODULE CiphertextOps_proof ------------------------
(***************************************************************************)
(* The bookkeeping of ciphertexts is right for every set of parameters,    *)
(* every chain of moduli and any number of registers, as long as the       *)
(* program makes none of the undetected mistakes.                          *)
(***************************************************************************)
EXTENDS CiphertextOps, SequenceTheorems, TLAPS

-----------------------------------------------------------------------------
(* The chain of contexts of some parameters. *)

LEMMA ModuliSeq ==
    ASSUME NEW p \in Params
    PROVE  /\ Moduli[p] \in Seq(Modulus) /\ Len(Moduli[p]) \in Nat /\ Len(Moduli[p]) >= 1
           /\ MaxLevel(p) \in Nat
           /\ Levels(p) \subseteq Nat /\ Levels(p) \subseteq Level
<1>1. Moduli[p] \in Seq(Modulus) /\ Moduli[p] # << >>
  BY ParamsAssumption
<1>2. Len(Moduli[p]) \in Nat /\ Len(Moduli[p]) # 0
  BY <1>1, EmptySeq, LenProperties
<1>3. Len(Moduli[p]) >= 1 /\ MaxLevel(p) \in Nat
  BY <1>2 DEF MaxLevel
<1> QED
  BY <1>1, <1>2, <1>3 DEF Levels, Level

(* Dropping k moduli of a context that has more than k. *)
LEMMA DropContext ==
    ASSUME NEW ctx \in Seq(Modulus), NEW k \in Nat, k < Len(ctx)
    PROVE  /\ Drop(ctx, k) \in Context
           /\ Len(Drop(ctx, k)) = Len(ctx) - k
           /\ \A i \in 1 .. (Len(ctx) - k) : Drop(ctx, k)[i] = ctx[i]
<1>1. Len(ctx) \in Nat /\ \A i \in 1 .. Len(ctx) : ctx[i] \in Modulus
  BY LenProperties, ElementOfSeq
<1>2. \A i \in 1 .. (Len(ctx) - k) : ctx[i] \in Modulus
  BY <1>1
<1>3. /\ Drop(ctx, k) \in Seq(Modulus)
      /\ Len(Drop(ctx, k)) = Len(ctx) - k
      /\ \A i \in 1 .. (Len(ctx) - k) : Drop(ctx, k)[i] = ctx[i]
  BY <1>1, <1>2, SubSeqProperties DEF Drop
<1>4. Drop(ctx, k) # << >>
  BY <1>1, <1>3, EmptySeq
<1> QED
  BY <1>3, <1>4 DEF Context

LEMMA CtxAtLevel ==
    ASSUME NEW p \in Params, NEW l \in Levels(p)
    PROVE  /\ CtxAt(p, l) \in Context
           /\ Len(CtxAt(p, l)) = Len(Moduli[p]) - l
           /\ Room(CtxAt(p, l)) = MaxLevel(p) - l
           /\ LevelOfContext(p, CtxAt(p, l)) = l
           /\ \A i \in 1 .. (Len(Moduli[p]) - l) : CtxAt(p, l)[i] = Moduli[p][i]
<1>1. l \in Nat /\ l < Len(Moduli[p]) /\ Len(Moduli[p]) \in Nat
  BY ModuliSeq DEF Levels, MaxLevel
<1>2. /\ CtxAt(p, l) \in Context
      /\ Len(CtxAt(p, l)) = Len(Moduli[p]) - l
      /\ \A i \in 1 .. (Len(Moduli[p]) - l) : CtxAt(p, l)[i] = Moduli[p][i]
  <2>1. Moduli[p] \in Seq(Modulus)
    BY ModuliSeq
  <2> QED
    BY <1>1, <2>1, DropContext DEF CtxAt
<1>3. Room(CtxAt(p, l)) = MaxLevel(p) - l /\ LevelOfContext(p, CtxAt(p, l)) = l
  BY <1>1, <1>2 DEF Room, MaxLevel, LevelOfContext
<1> QED
  BY <1>2, <1>3

(* The context of level l, k levels further down, is that of level l + k. *)
LEMMA DropCtxAt ==
    ASSUME NEW p \in Params, NEW l \in Levels(p), NEW k \in Nat, l + k <= MaxLevel(p)
    PROVE  Drop(CtxAt(p, l), k) = CtxAt(p, l + k) /\ l + k \in Levels(p)
<1>1. l \in Nat /\ l + k \in Levels(p) /\ Len(Moduli[p]) \in Nat /\ l + k < Len(Moduli[p])
  BY ModuliSeq DEF Levels, MaxLevel
<1>2. CtxAt(p, l) \in Seq(Modulus) /\ Len(CtxAt(p, l)) = Len(Moduli[p]) - l
  BY CtxAtLevel DEF Context
<1>3. /\ Drop(CtxAt(p, l), k) \in Seq(Modulus)
      /\ Len(Drop(CtxAt(p, l), k)) = Len(Moduli[p]) - (l + k)
      /\ \A i \in 1 .. (Len(Moduli[p]) - (l + k)) : Drop(CtxAt(p, l), k)[i] = Moduli[p][i]
  <2>1. k < Len(CtxAt(p, l)) /\ Len(CtxAt(p, l)) - k = Len(Moduli[p]) - (l + k)
    BY <1>1, <1>2
  <2>2. \A i \in 1 .. (Len(Moduli[p]) - l) : CtxAt(p, l)[i] = Moduli[p][i]
    BY CtxAtLevel
  <2>3. /\ Drop(CtxAt(p, l), k) \in Seq(Modulus)
        /\ Len(Drop(CtxAt(p, l), k)) = Len(CtxAt(p, l)) - k
        /\ \A i \in 1 .. (Len(CtxAt(p, l)) - k) : Drop(CtxAt(p, l), k)[i] = CtxAt(p, l)[i]
    BY <1>2, <2>1, DropContext DEF Context
  <2>4. \A i \in 1 .. (Len(Moduli[p]) - (l + k)) : i \in 1 .. (Len(Moduli[p]) - l)
    BY <1>1
  <2> QED
    BY <2>1, <2>2, <2>3, <2>4
<1>4. /\ CtxAt(p, l + k) \in Seq(Modulus)
      /\ Len(CtxAt(p, l + k)) = Len(Moduli[p]) - (l + k)
      /\ \A i \in 1 .. (Len(Moduli[p]) - (l + k)) : CtxAt(p, l + k)[i] = Moduli[p][i]
  BY <1>1, CtxAtLevel DEF Context
<1> QED
  BY <1>1, <1>3, <1>4, SeqEqual

LEMMA EqualParams ==
    ASSUME NEW p \in Params, NEW q \in Params, Value[p] = Value[q]
    PROVE  /\ MaxLevel(p) = MaxLevel(q) /\ Levels(p) = Levels(q)
           /\ \A l : CtxAt(p, l) = CtxAt(q, l)
  BY ParamsAssumption DEF MaxLevel, Levels, CtxAt

(* A context found in a chain is the one at the level it is found at. *)
LEMMA InChainLevel ==
    ASSUME NEW p \in Params, NEW ctx, InChain(p, ctx)
    PROVE  LevelOfContext(p, ctx) \in Levels(p) /\ ctx = CtxAt(p, LevelOfContext(p, ctx))
<1>1. 0 \in Levels(p)
  BY ModuliSeq DEF Levels
<1>2. PICK k \in 0 .. Room(CtxAt(p, 0)) : Drop(CtxAt(p, 0), k) = ctx
  BY DEF InChain, Reaches
<1>3. k \in Nat /\ 0 + k <= MaxLevel(p)
  BY <1>1, <1>2, CtxAtLevel, ModuliSeq
<1>4. ctx = CtxAt(p, k) /\ k \in Levels(p)
  BY <1>1, <1>2, <1>3, DropCtxAt
<1> QED
  BY <1>4, CtxAtLevel

-----------------------------------------------------------------------------
(* Polynomials and sequences of them. *)

Clean(q, ctx) == q \in Poly /\ q.ctx = ctx /\ q.src # Mixed

(* The inductive invariant, of one ciphertext. *)
WellFormed(x) ==
    /\ x \in Ciphertext /\ x.level \in Levels(x.par)
    /\ \A i \in 1 .. Len(x.c) : Clean(x.c[i], CtxAt(x.par, x.level))
    /\ x.seed # NoSeed => Len(x.c) = 2 /\ x.c[2].src = x.seed
    /\ Len(x.c) # 1

LEMMA FunctionIsSeq ==
    ASSUME NEW S, NEW n \in Nat, NEW f \in [1 .. n -> S]
    PROVE  f \in Seq(S) /\ Len(f) = n /\ DOMAIN f = 1 .. n
  OBVIOUS

LEMMA ComputedClean ==
    ASSUME NEW ctx \in Context, NEW ins, \A q \in ins : q.ctx = ctx /\ q.src # Mixed
    PROVE  Clean(Computed(ctx, ins), ctx)
  BY SeedAssumption DEF Clean, Computed, Poly, Source

LEMMA MovedClean ==
    ASSUME NEW ctx \in Context, NEW q, q.src # Mixed
    PROVE  Clean(Moved(q, ctx), ctx)
  BY SeedAssumption DEF Clean, Moved, Poly, Source

(* What every operation that computes new parts returns. *)
LEMMA Built ==
    ASSUME NEW p \in Params, NEW l \in Levels(p), NEW n \in Nat, n # 1,
           NEW c, c = [i \in 1 .. n |-> c[i]],
           \A i \in 1 .. n : Clean(c[i], CtxAt(p, l))
    PROVE  WellFormed([par |-> p, c |-> c, seed |-> NoSeed, level |-> l])
<1>1. c \in [1 .. n -> Poly]
  BY DEF Clean
<1>2. c \in Seq(Poly) /\ Len(c) = n
  BY <1>1, FunctionIsSeq
<1>3. l \in Level
  BY ModuliSeq
<1> QED
  BY <1>2, <1>3 DEF WellFormed, Ciphertext

(* The facts about a well-formed ciphertext that the lemmas below use. *)
LEMMA Facts ==
    ASSUME NEW x, WellFormed(x)
    PROVE  /\ x.par \in Params /\ x.level \in Levels(x.par) /\ x.level \in Nat
           /\ MaxLevel(x.par) \in Nat /\ x.level <= MaxLevel(x.par)
           /\ CtxAt(x.par, x.level) \in Context
           /\ x.c \in Seq(Poly) /\ Len(x.c) \in Nat /\ DOMAIN x.c = 1 .. Len(x.c)
           /\ x.c = [i \in 1 .. Len(x.c) |-> x.c[i]]
           /\ x = [par |-> x.par, c |-> x.c, seed |-> x.seed, level |-> x.level]
           /\ (x.c = << >>) <=> (Len(x.c) = 0)
           /\ \A i \in 1 .. Len(x.c) : Clean(x.c[i], CtxAt(x.par, x.level))
           /\ x.seed \in Seeds \cup {NoSeed}
<1>1. /\ x \in Ciphertext /\ x.level \in Levels(x.par)
      /\ \A i \in 1 .. Len(x.c) : Clean(x.c[i], CtxAt(x.par, x.level))
  BY DEF WellFormed
<1>2. /\ x.par \in Params /\ x.c \in Seq(Poly) /\ x.seed \in Seeds \cup {NoSeed}
      /\ x = [par |-> x.par, c |-> x.c, seed |-> x.seed, level |-> x.level]
  BY <1>1 DEF Ciphertext
<1>3. x.level \in Nat /\ CtxAt(x.par, x.level) \in Context
  BY <1>1, <1>2, ModuliSeq, CtxAtLevel
<1>4. /\ Len(x.c) \in Nat /\ DOMAIN x.c = 1 .. Len(x.c)
      /\ x.c = [i \in 1 .. Len(x.c) |-> x.c[i]]
      /\ (x.c = << >>) <=> (Len(x.c) = 0)
  BY <1>2, LenProperties, EmptySeq
<1>5. MaxLevel(x.par) \in Nat /\ x.level <= MaxLevel(x.par)
  BY <1>1, <1>2, ModuliSeq DEF Levels
<1> QED
  BY <1>1, <1>2, <1>3, <1>4, <1>5

-----------------------------------------------------------------------------
(* Every operation returns a well-formed ciphertext on well-formed ones.   *)

LEMMA ZeroWF == ASSUME NEW p \in Params PROVE WellFormed(Zero(p))
<1>1. 0 \in Levels(p) /\ 0 \in Level
  BY ModuliSeq DEF Levels
<1>2. << >> \in Seq(Poly) /\ Len(<< >>) = 0
  OBVIOUS
<1> QED
  BY <1>1, <1>2 DEF WellFormed, Zero, Ciphertext

LEMMA FromPartsWF ==
    ASSUME NEW p \in Params, NEW parts \in Seq(Poly), FromPartsOk(parts, p),
           \A i \in 1 .. Len(parts) : parts[i].src # Mixed
    PROVE  WellFormed(FromParts(parts, p))
<1> DEFINE l == LevelOfContext(p, parts[1].ctx)
<1>1. /\ Len(parts) \in Nat /\ Len(parts) # 1 /\ DOMAIN parts = 1 .. Len(parts)
      /\ parts = [i \in 1 .. Len(parts) |-> parts[i]]
      /\ \A i \in 1 .. Len(parts) : parts[i] \in Poly
  BY LenProperties, ElementOfSeq DEF FromPartsOk
<1>2. l \in Levels(p) /\ parts[1].ctx = CtxAt(p, l)
  BY InChainLevel DEF FromPartsOk
<1>3. \A i \in 1 .. Len(parts) : Clean(parts[i], CtxAt(p, l))
  BY <1>1, <1>2 DEF FromPartsOk, Clean
<1> HIDE DEF l
<1>4. WellFormed([par |-> p, c |-> parts, seed |-> NoSeed, level |-> l])
  BY <1>1, <1>2, <1>3, Built
<1> QED
  BY <1>4 DEF FromParts, l

LEMMA SkEncryptWF ==
    ASSUME NEW p \in Params, NEW pt \in Plaintext, NEW s \in Seeds, SkEncryptOk(p, pt)
    PROVE  WellFormed(SkEncrypt(p, pt, s))
<1> DEFINE ctx == CtxAt(p, pt.level)
           b   == Computed(ctx, {PlainPoly(pt)})
           a   == [ctx |-> ctx, src |-> s]
<1>1. pt.par = p /\ pt.level \in Levels(p) /\ pt.level \in Level
  BY ModuliSeq DEF SkEncryptOk, Plaintext, Levels, Level
<1>2. ctx \in Context /\ LevelOfContext(p, ctx) = pt.level
  BY <1>1, CtxAtLevel
<1>3. Clean(b, ctx)
  <2>1. \A q \in {PlainPoly(pt)} : q.ctx = ctx /\ q.src # Mixed
    BY <1>1, SeedAssumption DEF PlainPoly
  <2> QED
    BY <1>2, <2>1, ComputedClean
<1>4. Clean(a, ctx)
  BY <1>2, SeedAssumption DEF Clean, Poly, Source
<1> HIDE DEF a, b, ctx
<1>5. << b, a >> \in Seq(Poly) /\ Len(<< b, a >>) = 2
  BY <1>3, <1>4 DEF Clean
<1>6. SkEncrypt(p, pt, s) = [par |-> p, c |-> << b, a >>, seed |-> s, level |-> pt.level]
  BY <1>1, <1>2 DEF SkEncrypt, a, b, ctx
<1>7. a.src = s
  BY DEF a
<1>8. \A i \in 1 .. 2 : Clean(<< b, a >>[i], CtxAt(p, pt.level))
  BY <1>3, <1>4 DEF ctx
<1> QED
  BY <1>1, <1>5, <1>6, <1>7, <1>8 DEF WellFormed, Ciphertext

LEMMA PkEncryptWF ==
    ASSUME NEW p \in Params, NEW pt \in Plaintext, PkEncryptOk(p, pt), Value[p] = Value[pt.par]
    PROVE  WellFormed(PkEncrypt(p, pt))
<1> DEFINE ctx == CtxAt(p, pt.level)
           c0  == Computed(ctx, {PlainPoly(pt)})
           c1  == Computed(ctx, {})
<1>1. pt.par \in Params /\ pt.level \in Levels(p)
  BY ModuliSeq DEF PkEncryptOk, Plaintext, Levels, Level
<1>2. ctx \in Context
  BY <1>1, CtxAtLevel
<1>3. Clean(c0, ctx) /\ Clean(c1, ctx)
  <2>1. \A q \in {PlainPoly(pt)} : q.ctx = ctx /\ q.src # Mixed
    BY <1>1, EqualParams, SeedAssumption DEF PlainPoly
  <2> QED
    BY <1>2, <2>1, ComputedClean
<1> HIDE DEF c0, c1
<1> DEFINE c == << c0, c1 >>
<1>4. c = [i \in 1 .. 2 |-> c[i]] /\ \A i \in 1 .. 2 : Clean(c[i], CtxAt(p, pt.level))
  BY <1>3
<1> HIDE DEF c, ctx
<1>5. WellFormed([par |-> p, c |-> c, seed |-> NoSeed, level |-> pt.level])
  <2>1. 2 \in Nat /\ 2 # 1
    OBVIOUS
  <2> QED
    BY <1>1, <1>4, <2>1, Built
<1> QED
  BY <1>5 DEF PkEncrypt, c, c0, c1, ctx

(* New clean parts in place of the old ones, the seed forgotten. *)
LEMMA Replaced ==
    ASSUME NEW x, WellFormed(x), NEW c, c = [i \in 1 .. Len(x.c) |-> c[i]],
           \A i \in 1 .. Len(x.c) : Clean(c[i], CtxAt(x.par, x.level))
    PROVE  WellFormed(WithParts(x, c))
<1>1. Len(x.c) # 1
  BY DEF WellFormed
<1> QED
  BY <1>1, Facts, Built DEF WithParts

LEMMA PairwiseWF ==
    ASSUME NEW x, NEW y, WellFormed(x), WellFormed(y), AddOk(x, y),
           x.c # << >>, y.c # << >>
    PROVE  WellFormed(Pairwise(x, y))
<1> DEFINE c == [i \in 1 .. Len(x.c) |-> Computed(x.c[i].ctx, {x.c[i], y.c[i]})]
           ctx == CtxAt(x.par, x.level)
<1>1. x.par = y.par /\ x.level = y.level /\ Len(x.c) = Len(y.c)
  BY DEF AddOk
<1>2. ctx \in Context /\ DOMAIN x.c = 1 .. Len(x.c)
  BY Facts
<1>3. ASSUME NEW i \in 1 .. Len(x.c) PROVE Clean(c[i], ctx)
  <2>1. Clean(x.c[i], ctx) /\ Clean(y.c[i], ctx)
    BY <1>1, Facts
  <2>2. x.c[i].ctx = ctx /\ \A q \in {x.c[i], y.c[i]} : q.ctx = ctx /\ q.src # Mixed
    BY <2>1 DEF Clean
  <2>3. Clean(Computed(ctx, {x.c[i], y.c[i]}), ctx)
    BY <1>2, <2>2, ComputedClean
  <2> QED
    BY <2>2, <2>3
<1>4. c = [i \in 1 .. Len(x.c) |-> c[i]] /\ Pairwise(x, y) = WithParts(x, c)
  BY <1>2 DEF Pairwise
<1> HIDE DEF c
<1> QED
  BY <1>3, <1>4, Replaced

LEMMA AddWF ==
    ASSUME NEW x, NEW y, WellFormed(x), WellFormed(y), AddOk(x, y)
    PROVE  WellFormed(Add(x, y))
  BY PairwiseWF DEF Add

LEMMA NegWF ==
    ASSUME NEW x, WellFormed(x)
    PROVE  WellFormed(Neg(x))
<1> DEFINE c == [i \in 1 .. Len(x.c) |-> Moved(x.c[i], x.c[i].ctx)]
<1>1. ASSUME NEW i \in 1 .. Len(x.c) PROVE Clean(c[i], CtxAt(x.par, x.level))
  <2>1. x.c[i].ctx = CtxAt(x.par, x.level) /\ x.c[i].src # Mixed
    BY Facts DEF Clean
  <2>2. Clean(Moved(x.c[i], CtxAt(x.par, x.level)), CtxAt(x.par, x.level))
    BY <2>1, Facts, MovedClean
  <2> QED
    BY <2>1, <2>2
<1>2. c = [i \in 1 .. Len(x.c) |-> c[i]] /\ Neg(x) = WithParts(x, c)
  BY Facts DEF Neg
<1> HIDE DEF c
<1> QED
  BY <1>1, <1>2, Replaced

LEMMA SubWF ==
    ASSUME NEW x, NEW y, WellFormed(x), WellFormed(y), AddOk(x, y)
    PROVE  WellFormed(Sub(x, y))
  BY PairwiseWF, NegWF DEF Sub

(* A part of x and the polynomial of a plaintext of the same level.        *)
LEMMA WithPlainClean ==
    ASSUME NEW x, WellFormed(x), NEW pt, x.par = pt.par, x.level = pt.level,
           NEW i \in 1 .. Len(x.c)
    PROVE  Clean(Computed(x.c[i].ctx, {x.c[i], PlainPoly(pt)}), CtxAt(x.par, x.level))
<1>1. Clean(x.c[i], CtxAt(x.par, x.level)) /\ CtxAt(x.par, x.level) \in Context
  BY Facts
<1>2. /\ x.c[i].ctx = CtxAt(x.par, x.level)
      /\ \A q \in {x.c[i], PlainPoly(pt)} : q.ctx = CtxAt(x.par, x.level) /\ q.src # Mixed
  BY <1>1, SeedAssumption DEF Clean, PlainPoly
<1> QED
  BY <1>1, <1>2, ComputedClean

LEMMA AddPlainWF ==
    ASSUME NEW x, WellFormed(x), NEW pt, AddPlainOk(x, pt)
    PROVE  WellFormed(AddPlain(x, pt))
<1> DEFINE c == [x.c EXCEPT ![1] = Computed(@.ctx, {@, PlainPoly(pt)})]
<1>1. ASSUME NEW i \in 1 .. Len(x.c) PROVE Clean(c[i], CtxAt(x.par, x.level))
  <2>1. CASE i = 1
    BY <2>1, Facts, WithPlainClean DEF AddPlainOk
  <2>2. CASE i # 1
    BY <2>2, Facts
  <2> QED
    BY <2>1, <2>2
<1>2. c = [i \in 1 .. Len(x.c) |-> c[i]]
  BY Facts
<1>3. AddPlain(x, pt) = WithParts(x, c)
  BY Facts DEF AddPlain
<1> HIDE DEF c
<1> QED
  BY <1>1, <1>2, <1>3, Replaced

LEMMA PlainSubWF ==
    ASSUME NEW x, WellFormed(x), NEW pt, AddPlainOk(x, pt)
    PROVE  WellFormed(PlainSub(x, pt))
  BY AddPlainWF, NegWF DEF PlainSub

LEMMA MulPlainWF ==
    ASSUME NEW x, WellFormed(x), NEW pt, MulPlainOk(x, pt)
    PROVE  WellFormed(MulPlain(x, pt))
<1> DEFINE c == [i \in 1 .. Len(x.c) |-> Computed(x.c[i].ctx, {x.c[i], PlainPoly(pt)})]
<1>1. ASSUME NEW i \in 1 .. Len(x.c) PROVE Clean(c[i], CtxAt(x.par, x.level))
  <2>1. x.par = pt.par /\ x.level = pt.level
    BY Facts DEF MulPlainOk
  <2> QED
    BY <2>1, WithPlainClean
<1>2. c = [i \in 1 .. Len(x.c) |-> c[i]] /\ MulPlain(x, pt) = WithParts(x, c)
  BY Facts DEF MulPlain
<1> HIDE DEF c
<1> QED
  BY <1>1, <1>2, Replaced

LEMMA MulWF ==
    ASSUME NEW x, NEW y, WellFormed(x), WellFormed(y), MulOk(x, y), y.c # << >>
    PROVE  WellFormed(Mul(x, y))
<1>1. CASE x.c = << >>
  BY <1>1 DEF Mul
<1>2. CASE x.c # << >>
  <2>0. Len(x.c) + Len(y.c) - 1 \in Nat /\ Len(x.c) + Len(y.c) - 1 # 1
    <3>1. Len(x.c) \in Nat /\ Len(y.c) \in Nat /\ Len(x.c) # 0 /\ Len(y.c) # 0
      BY <1>2, Facts
    <3>2. Len(x.c) # 1 /\ Len(y.c) # 1
      BY DEF WellFormed
    <3>3. \A a, b \in Nat : a # 0 /\ b # 0 /\ a # 1 /\ b # 1 => a + b - 1 \in Nat /\ a + b - 1 # 1
      OBVIOUS
    <3> QED
      BY <3>1, <3>2, <3>3
  <2> DEFINE n   == Len(x.c) + Len(y.c) - 1
             ctx == CtxAt(x.par, x.level)
             q   == Computed(ctx, Parts(x) \cup Parts(y))
             c   == [i \in 1 .. n |-> q]
  <2>1. x.level = y.level
    BY <1>2 DEF MulOk, MayEqual
  <2>2. n \in Nat /\ n # 1
    BY <2>0
  <2>3. Clean(q, ctx)
    <3>1. \A z \in Parts(x) \cup Parts(y) : z.ctx = ctx
      BY <1>2 DEF MulOk
    <3>2. \A z \in Parts(x) \cup Parts(y) : z.src # Mixed
      <4>1. \A i \in DOMAIN x.c : x.c[i].src # Mixed
        BY Facts DEF Clean
      <4>2. \A i \in DOMAIN y.c : y.c[i].src # Mixed
        BY Facts DEF Clean
      <4> QED
        BY <4>1, <4>2 DEF Parts
    <3> QED
      BY <3>1, <3>2, Facts, ComputedClean, ZenonT(60)
  <2> HIDE DEF q, ctx, n
  <2>4. c = [i \in 1 .. n |-> c[i]] /\ \A i \in 1 .. n : Clean(c[i], ctx)
    BY <2>3
  <2>5. Mul(x, y) = [par |-> x.par, c |-> c, seed |-> NoSeed, level |-> x.level]
    BY <1>2, <2>1 DEF Mul, c, q, ctx, n
  <2> HIDE DEF c
  <2>6. WellFormed([par |-> x.par, c |-> c, seed |-> NoSeed, level |-> x.level])
    BY <2>2, <2>4, Facts, Built DEF ctx
  <2> QED
    BY <2>5, <2>6
<1> QED
  BY <1>1, <1>2

LEMMA PlainReaches ==
    ASSUME NEW p \in Params, NEW q \in Params, Value[p] = Value[q],
           NEW l \in Levels(p), NEW m \in Levels(q), m <= l
    PROVE  Reaches(CtxAt(q, m), CtxAt(p, l))
<1>1. l \in Nat /\ m \in Nat /\ MaxLevel(q) \in Nat /\ l <= MaxLevel(q)
  BY ModuliSeq, EqualParams DEF Levels
<1>2. l - m \in Nat /\ m + (l - m) = l
  BY <1>1
<1>3. Drop(CtxAt(q, m), l - m) = CtxAt(q, l)
  BY <1>1, <1>2, DropCtxAt
<1>4. l - m \in 0 .. Room(CtxAt(q, m))
  BY <1>1, <1>2, CtxAtLevel
<1> QED
  BY <1>3, <1>4, EqualParams DEF Reaches

LEMMA DotProductWF ==
    ASSUME NEW xs, NEW pts, Len(xs) \in Nat, Len(pts) \in Nat,
           \A i \in 1 .. Len(xs) : WellFormed(xs[i]) /\ xs[i].level = xs[1].level,
           \A i \in 1 .. Len(pts) : pts[i] \in Plaintext /\ pts[i].level <= xs[1].level,
           DotProductOk(xs, pts)
    PROVE  WellFormed(DotProduct(xs, pts))
<1> DEFINE used == 1 .. (IF Len(xs) < Len(pts) THEN Len(xs) ELSE Len(pts))
           x    == xs[1]
           ctx  == CtxAt(x.par, x.level)
           Rows(pt) == IF Reaches(CtxAt(pt.par, pt.level), x.c[1].ctx)
                       THEN {Computed(x.c[1].ctx, {})} ELSE {PlainPoly(pt)}
           ins(j) == {xs[i].c[j] : i \in used} \cup UNION {Rows(pts[i]) : i \in used}
           c    == [j \in 1 .. Len(x.c) |-> Computed(x.c[1].ctx, ins(j))]
<1>1. used \subseteq 1 .. Len(xs) /\ used \subseteq 1 .. Len(pts) /\ 1 \in 1 .. Len(xs) /\ x.c # << >>
  BY DEF DotProductOk
<1>2. WellFormed(x)
  BY <1>1
<1>3. ctx \in Context /\ x.c[1].ctx = ctx
  <2>1. 1 \in 1 .. Len(x.c)
    BY <1>1, <1>2, Facts
  <2> QED
    BY <1>2, <2>1, Facts DEF Clean
<1>4. ASSUME NEW i \in used PROVE Rows(pts[i]) = {Computed(ctx, {})}
  <2>1. pts[i].par \in Params /\ pts[i].level \in Levels(pts[i].par)
    BY <1>1, <1>4, ModuliSeq DEF Plaintext, Levels, Level
  <2>2. Value[x.par] = Value[pts[i].par] /\ pts[i].level <= x.level
    BY <1>1, <1>4 DEF DotProductOk
  <2>3. Reaches(CtxAt(pts[i].par, pts[i].level), ctx)
    BY <1>2, <2>1, <2>2, Facts, PlainReaches
  <2> QED
    BY <1>3, <2>3
<1>5. Computed(ctx, {}).ctx = ctx /\ Computed(ctx, {}).src # Mixed
  BY SeedAssumption DEF Computed
<1>6. ASSUME NEW j \in 1 .. Len(x.c), NEW i \in used
      PROVE  xs[i].c[j].ctx = ctx /\ xs[i].c[j].src # Mixed
  <2>1. WellFormed(xs[i]) /\ xs[i].level = x.level
    BY <1>1, <1>6
  <2>2. Value[xs[i].par] = Value[x.par] /\ Len(xs[i].c) = Len(x.c)
    BY <1>1, <1>2, <1>6, <2>1, Facts DEF DotProductOk
  <2>3. xs[i].par \in Params /\ x.par \in Params
    BY <1>2, <2>1, Facts
  <2>4. CtxAt(xs[i].par, x.level) = ctx
    BY <2>2, <2>3, EqualParams
  <2>5. Clean(xs[i].c[j], CtxAt(xs[i].par, xs[i].level))
    BY <1>6, <2>1, <2>2, Facts
  <2> QED
    BY <2>1, <2>4, <2>5 DEF Clean
<1>7. ASSUME NEW j \in 1 .. Len(x.c) PROVE Clean(c[j], ctx)
  <2>1. \A q \in {xs[i].c[j] : i \in used} : q.ctx = ctx /\ q.src # Mixed
    BY <1>6, <1>7
  <2>3. \A q \in UNION {Rows(pts[i]) : i \in used} : q.ctx = ctx /\ q.src # Mixed
    <3>1. ASSUME NEW i \in used, NEW q \in Rows(pts[i]) PROVE q = Computed(ctx, {})
      BY <1>4, <3>1
    <3> HIDE DEF Rows, used
    <3> QED
      BY <1>5, <3>1
  <2>2. Clean(Computed(ctx, ins(j)), ctx)
    BY <1>3, <2>1, <2>3, ComputedClean
  <2> QED
    BY <1>3, <1>7, <2>2
<1>8. DotProduct(xs, pts) = WithParts(x, c)
  BY <1>2, Facts DEF DotProduct, WithParts
<1>9. c = [j \in 1 .. Len(x.c) |-> c[j]]
  OBVIOUS
<1> HIDE DEF c, x
<1> QED
  BY <1>2, <1>7, <1>8, <1>9, Replaced

-----------------------------------------------------------------------------
(* Moving down the chain. *)

(* While the level is above the last one, every part has a next context.   *)
LEMMA WellFormedHasRoom ==
    ASSUME NEW x, WellFormed(x), NEW k \in Nat, x.level + k <= MaxLevel(x.par)
    PROVE  HasRoom(x, k)
<1>1. Room(CtxAt(x.par, x.level)) = MaxLevel(x.par) - x.level
  <2>1. x.par \in Params /\ x.level \in Levels(x.par)
    BY Facts
  <2> QED
    BY <2>1, CtxAtLevel
<1>2. \A i \in DOMAIN x.c : x.c[i].ctx = CtxAt(x.par, x.level)
  BY Facts DEF Clean
<1>3. x.level \in Nat /\ k <= MaxLevel(x.par) - x.level
  <2>1. \A a, m \in Nat : a + k <= m => k <= m - a
    OBVIOUS
  <2> QED
    BY <2>1, Facts
<1> QED
  BY <1>1, <1>2, <1>3 DEF HasRoom, Parts

LEMMA LoweredWF ==
    ASSUME NEW x, WellFormed(x), NEW k \in Nat, x.level + k <= MaxLevel(x.par)
    PROVE  WellFormed(Lowered(x, k))
<1> DEFINE c == [i \in 1 .. Len(x.c) |-> Moved(x.c[i], Drop(x.c[i].ctx, k))]
           l == x.level + k
<1>1. CASE k = 0
  BY <1>1 DEF Lowered
<1>2. CASE k # 0
  <2>1. l \in Levels(x.par) /\ Drop(CtxAt(x.par, x.level), k) = CtxAt(x.par, l)
    <3>1. x.par \in Params /\ x.level \in Levels(x.par)
      BY Facts
    <3> QED
      BY <3>1, DropCtxAt
  <2>2. CtxAt(x.par, l) \in Context
    BY <2>1, Facts, CtxAtLevel
  <2>3. ASSUME NEW i \in 1 .. Len(x.c) PROVE Clean(c[i], CtxAt(x.par, l))
    <3>1. x.c[i].ctx = CtxAt(x.par, x.level) /\ x.c[i].src # Mixed
      BY Facts DEF Clean
    <3>2. Clean(Moved(x.c[i], CtxAt(x.par, l)), CtxAt(x.par, l))
      BY <2>2, <3>1, MovedClean
    <3> QED
      BY <2>1, <3>1, <3>2
  <2>4. Lowered(x, k) = [par |-> x.par, c |-> c, seed |-> NoSeed, level |-> l]
    BY <1>2, Facts DEF Lowered
  <2>5. c = [i \in 1 .. Len(x.c) |-> c[i]] /\ Len(x.c) # 1
    BY DEF WellFormed
  <2> HIDE DEF c, l
  <2>6. WellFormed([par |-> x.par, c |-> c, seed |-> NoSeed, level |-> l])
    BY <2>1, <2>3, <2>5, Facts, Built
  <2> QED
    BY <2>4, <2>6
<1> QED
  BY <1>1, <1>2

LEMMA SwitchDownWF ==
    ASSUME NEW x, WellFormed(x)
    PROVE  WellFormed(SwitchDown(x))
<1>1. CASE x.level >= MaxLevel(x.par)
  BY <1>1 DEF SwitchDown
<1>2. CASE ~(x.level >= MaxLevel(x.par))
  <2>1. x.level + 1 <= MaxLevel(x.par)
    <3>1. \A a, m \in Nat : ~(a >= m) => a + 1 <= m
      OBVIOUS
    <3> QED
      BY <1>2, <3>1, Facts
  <2>2. SwitchDown(x) = Lowered(x, 1)
    BY <1>2, <2>1, WellFormedHasRoom DEF SwitchDown
  <2> QED
    BY <2>1, <2>2, LoweredWF
<1> QED
  BY <1>1, <1>2

LEMMA SwitchToLevelWF ==
    ASSUME NEW x, WellFormed(x), NEW target \in Level, SwitchToLevelOk(x, target)
    PROVE  WellFormed(SwitchToLevel(x, target))
<1>1. x.level \in Nat /\ target \in Nat /\ x.level <= target /\ target <= MaxLevel(x.par)
  BY Facts, ModuliSeq DEF SwitchToLevelOk, Level
<1>2. target - x.level \in Nat /\ x.level + (target - x.level) <= MaxLevel(x.par)
  BY <1>1
<1>3. SwitchToLevel(x, target) = Lowered(x, target - x.level)
  BY <1>2, WellFormedHasRoom DEF SwitchToLevel
<1> QED
  BY <1>2, <1>3, LoweredWF

-----------------------------------------------------------------------------
(* Operations with keys. *)

(* A key switch of parts of x gives results in the context of x. *)
LEMMA SwitchedCtxAt ==
    ASSUME NEW x, WellFormed(x), Len(x.c) >= 2, NEW k, NEW i \in 1 .. 2
    PROVE  SwitchedCtx(k, x.c, i) = CtxAt(x.par, x.level)
<1>1. 1 \in 1 .. Len(x.c) /\ i \in 1 .. Len(x.c)
  BY Facts
<1>2. x.c[1].ctx = CtxAt(x.par, x.level) /\ x.c[i].ctx = CtxAt(x.par, x.level)
  BY <1>1, Facts DEF Clean
<1> QED
  BY <1>2 DEF SwitchedCtx

LEMMA RelinearizesWF ==
    ASSUME NEW x, WellFormed(x), NEW k \in RelinKey, RelinearizesOk(x, k)
    PROVE  WellFormed(Relinearizes(x, k))
<1> DEFINE ctx == CtxAt(x.par, x.level)
           part(i) == Computed(x.c[i].ctx, {x.c[i], Moved(x.c[3], SwitchedCtx(k, x.c, i))})
           c == [i \in 1 .. 2 |-> part(i)]
<1>1. Len(x.c) = 3 /\ x.seed = NoSeed
  BY DEF RelinearizesOk, WellFormed
<1>2. ASSUME NEW i \in 1 .. 2 PROVE Clean(part(i), ctx)
  <2>0. i \in 1 .. Len(x.c) /\ 3 \in 1 .. Len(x.c)
    BY <1>1
  <2>1. Clean(x.c[i], ctx) /\ Clean(x.c[3], ctx) /\ ctx \in Context
    BY <2>0, Facts
  <2>2. SwitchedCtx(k, x.c, i) = ctx
    <3>1. Len(x.c) >= 2
      BY <1>1
    <3> HIDE DEF part, c
    <3> QED
      BY <3>1, SwitchedCtxAt
  <2>3. Clean(Moved(x.c[3], ctx), ctx)
    BY <2>1, MovedClean DEF Clean
  <2>4. \A q \in {x.c[i], Moved(x.c[3], ctx)} : q.ctx = ctx /\ q.src # Mixed
    BY <2>1, <2>3 DEF Clean
  <2>5. Clean(Computed(ctx, {x.c[i], Moved(x.c[3], ctx)}), ctx)
    BY <2>1, <2>4, ComputedClean
  <2> QED
    BY <2>1, <2>2, <2>5 DEF Clean
<1>3. Relinearizes(x, k) = [par |-> x.par, c |-> c, seed |-> NoSeed, level |-> x.level]
  <2>1. x \in [par : Params, c : Seq(Poly), seed : Seeds \cup {NoSeed}, level : Level]
    BY DEF WellFormed, Ciphertext
  <2> HIDE DEF c
  <2>2. [x EXCEPT !.c = c] = [par |-> x.par, c |-> c, seed |-> x.seed, level |-> x.level]
    BY <2>1
  <2> QED
    BY <1>1, <2>2 DEF Relinearizes, c
<1> HIDE DEF part, ctx
<1>4. c = [i \in 1 .. 2 |-> c[i]] /\ \A i \in 1 .. 2 : Clean(c[i], CtxAt(x.par, x.level))
  BY <1>2 DEF ctx
<1> HIDE DEF c
<1>5. 2 \in Nat /\ 2 # 1
  OBVIOUS
<1>6. WellFormed([par |-> x.par, c |-> c, seed |-> NoSeed, level |-> x.level])
  BY <1>4, <1>5, Facts, Built
<1> QED
  BY <1>3, <1>6

(* A key of the same parameters that accepts the ciphertext is at its      *)
(* level, and so is the result.                                            *)
LEMMA RotatesWF ==
    ASSUME NEW x, WellFormed(x), NEW k \in GaloisKey, RotatesOk(x, k),
           Value[k.par] = Value[x.par]
    PROVE  WellFormed(Rotates(x, k)) /\ Rotates(x, k).level = x.level
<1> DEFINE ctx == CtxAt(x.par, x.level)
           c0 == Computed(x.c[1].ctx, {x.c[1], Moved(x.c[2], x.c[1].ctx)})
           c1 == Moved(x.c[2], SwitchedCtx(k, x.c, 2))
           c  == << c0, c1 >>
<1>1. /\ Clean(x.c[1], ctx) /\ Clean(x.c[2], ctx) /\ ctx \in Context
      /\ SwitchedCtx(k, x.c, 2) = ctx
  <2>1. Len(x.c) = 2
    BY DEF RotatesOk
  <2>2. 1 \in 1 .. Len(x.c) /\ 2 \in 1 .. Len(x.c) /\ Len(x.c) >= 2 /\ 2 \in 1 .. 2
    BY <2>1
  <2> QED
    BY <2>2, Facts, SwitchedCtxAt
<1>2. k.ctLevel = x.level
  <2>1. k.par \in Params /\ x.par \in Params /\ k.ctLevel \in Levels(k.par)
    BY Facts DEF GaloisKey, SwitchingKey
  <2>2. k.ctLevel \in Levels(x.par) /\ CtxAt(x.par, k.ctLevel) = CtxAt(k.par, k.ctLevel)
    BY <2>1, EqualParams
  <2>3. CtxAt(x.par, k.ctLevel) = ctx
    BY <1>1, <2>2 DEF RotatesOk, KeySwitchOk, Clean
  <2>4. /\ LevelOfContext(x.par, CtxAt(x.par, k.ctLevel)) = k.ctLevel
        /\ LevelOfContext(x.par, ctx) = x.level
    BY <2>1, <2>2, Facts, CtxAtLevel, ZenonT(60)
  <2> QED
    BY <2>3, <2>4
<1>3. Clean(c1, ctx)
  BY <1>1, MovedClean DEF Clean
<1>4. Clean(c0, ctx)
  <2>1. Clean(Moved(x.c[2], ctx), ctx)
    BY <1>1, MovedClean DEF Clean
  <2>2. \A q \in {x.c[1], Moved(x.c[2], ctx)} : q.ctx = ctx /\ q.src # Mixed
    BY <1>1, <2>1 DEF Clean
  <2>3. Clean(Computed(ctx, {x.c[1], Moved(x.c[2], ctx)}), ctx)
    BY <1>1, <2>2, ComputedClean
  <2> QED
    BY <1>1, <2>3 DEF Clean
<1>5. Rotates(x, k) = [par |-> x.par, c |-> c, seed |-> NoSeed, level |-> x.level]
  BY <1>2 DEF Rotates
<1> HIDE DEF c0, c1, ctx
<1>6. c = [i \in 1 .. 2 |-> c[i]] /\ \A i \in 1 .. 2 : Clean(c[i], CtxAt(x.par, x.level))
  BY <1>3, <1>4 DEF ctx
<1> HIDE DEF c
<1>7. 2 \in Nat /\ 2 # 1
  OBVIOUS
<1>8. WellFormed([par |-> x.par, c |-> c, seed |-> NoSeed, level |-> x.level])
  BY <1>6, <1>7, Facts, Built
<1> QED
  BY <1>5, <1>8

LEMMA InnerSumWF ==
    ASSUME NEW x, WellFormed(x), NEW k \in GaloisKey, InnerSumOk(x, k),
           Value[k.par] = Value[x.par]
    PROVE  WellFormed(InnerSum(x, k))
  BY RotatesWF, AddWF DEF InnerSumOk, InnerSum

LEMMA MultiplyWF ==
    ASSUME NEW m \in Multiplicator, NEW x, NEW y, WellFormed(x), WellFormed(y),
           MultiplyOk(m, x, y)
    PROVE  WellFormed(Multiply(m, x, y))
<1> DEFINE base == CtxAt(m.par, m.level)
           part == Computed(base, Parts(x) \cup Parts(y))
           n    == IF m.rk = NoKey THEN 3 ELSE 2
           c    == [i \in 1 .. n |-> part]
           out  == [par |-> m.par, seed |-> NoSeed, level |-> m.level, c |-> c]
<1>1. m.par \in Params /\ m.level \in Levels(m.par)
  BY DEF Multiplicator
<1>2. base \in Context
  BY <1>1, CtxAtLevel
<1>3. Clean(part, base)
  <2>1. \A z \in Parts(x) \cup Parts(y) : z.ctx = base
    BY DEF MultiplyOk
  <2>2. \A z \in Parts(x) \cup Parts(y) : z.src # Mixed
    <3>1. \A i \in DOMAIN x.c : x.c[i].src # Mixed
      BY Facts DEF Clean
    <3>2. \A i \in DOMAIN y.c : y.c[i].src # Mixed
      BY Facts DEF Clean
    <3> QED
      BY <3>1, <3>2 DEF Parts
  <2> QED
    BY <1>2, <2>1, <2>2, ComputedClean
<1>4. n \in Nat /\ n # 1
  OBVIOUS
<1>5. Multiply(m, x, y) = IF m.modSwitch THEN SwitchDown(out) ELSE out
  BY DEF Multiply
<1> HIDE DEF part, base, n
<1>6. c = [i \in 1 .. n |-> c[i]] /\ \A i \in 1 .. n : Clean(c[i], CtxAt(m.par, m.level))
  BY <1>3 DEF base
<1> HIDE DEF c
<1>7. WellFormed(out)
  BY <1>1, <1>4, <1>6, Built
<1> HIDE DEF out
<1> QED
  BY <1>5, <1>7, SwitchDownWF

LEMMA RgswMulWF ==
    ASSUME NEW x, WellFormed(x), NEW g \in RGSW, RgswMulOk(x, g)
    PROVE  WellFormed(RgswMul(x, g))
<1> DEFINE ctx  == CtxAt(g.par, g.level)
           part == Computed(ctx, Parts(x))
           c    == [i \in 1 .. 2 |-> part]
<1>1. ctx = CtxAt(x.par, x.level) /\ ctx \in Context
  <2>1. g.par \in Params /\ x.par \in Params /\ Value[x.par] = Value[g.par] /\ g.level = x.level
    BY Facts DEF RgswMulOk, RGSW
  <2>2. ctx = CtxAt(x.par, x.level)
    BY <2>1, EqualParams
  <2> QED
    BY <2>2, Facts
<1>2. Clean(part, ctx)
  <2>1. \A z \in Parts(x) : z.ctx = ctx /\ z.src # Mixed
    <3>1. \A i \in DOMAIN x.c : x.c[i].src # Mixed /\ x.c[i].ctx = CtxAt(x.par, x.level)
      BY Facts DEF Clean
    <3> QED
      BY <1>1, <3>1 DEF Parts
  <2> QED
    BY <1>1, <2>1, ComputedClean
<1>3. RgswMul(x, g) = [par |-> x.par, c |-> c, seed |-> NoSeed, level |-> x.level]
  BY DEF RgswMul
<1> HIDE DEF part, ctx
<1>4. c = [i \in 1 .. 2 |-> c[i]] /\ \A i \in 1 .. 2 : Clean(c[i], CtxAt(x.par, x.level))
  BY <1>1, <1>2
<1> HIDE DEF c
<1>5. 2 \in Nat /\ 2 # 1
  OBVIOUS
<1>6. WellFormed([par |-> x.par, c |-> c, seed |-> NoSeed, level |-> x.level])
  BY <1>4, <1>5, Facts, Built
<1> QED
  BY <1>3, <1>6

-----------------------------------------------------------------------------
(* Serialization. *)

LEMMA RoundTrip ==
    ASSUME NEW x, WellFormed(x), x.c # << >>, NEW p \in Params, Value[p] = Value[x.par]
    PROVE  /\ DeserializeOk(Serialize(x), p)
           /\ Deserialize(Serialize(x), p) = [x EXCEPT !.par = p]
<1> DEFINE b == Serialize(x)
           ctx == CtxAt(x.par, x.level)
<1>1. /\ x.level <= MaxLevel(p) /\ CtxAt(p, x.level) = ctx
      /\ Len(x.c) >= 2 /\ \A i \in 1 .. Len(x.c) : x.c[i].ctx = ctx /\ x.c[i] \in Poly
  <2>1. Len(x.c) # 1 /\ Len(x.c) # 0 /\ Len(x.c) \in Nat
    BY Facts DEF WellFormed
  <2>2. Len(x.c) >= 2
    <3>1. \A n \in Nat : n # 0 /\ n # 1 => n >= 2
      OBVIOUS
    <3> QED
      BY <2>1, <3>1
  <2>3. x.par \in Params /\ x.level <= MaxLevel(x.par)
    BY Facts
  <2>4. x.level <= MaxLevel(p) /\ CtxAt(p, x.level) = ctx
    BY <2>3, EqualParams
  <2>5. \A i \in 1 .. Len(x.c) : x.c[i].ctx = ctx /\ x.c[i] \in Poly
    BY Facts DEF Clean
  <2> QED
    BY <2>2, <2>4, <2>5
<1>2. [x EXCEPT !.par = p] = [par |-> p, c |-> x.c, seed |-> x.seed, level |-> x.level]
  <2>1. x \in [par : Params, c : Seq(Poly), seed : Seeds \cup {NoSeed}, level : Level]
    BY DEF WellFormed, Ciphertext
  <2> QED
    BY <2>1
<1>3. b.level = x.level /\ b.seed = x.seed
  BY DEF Serialize
<1>4. CASE x.seed = NoSeed
  <2>1. b.polys = x.c
    BY <1>4 DEF Serialize
  <2>2. DOMAIN x.c = 1 .. Len(x.c)
    BY Facts
  <2>3. DeserializeOk(b, p)
    BY <1>1, <1>3, <2>1, <2>2 DEF DeserializeOk
  <2>4. Deserialize(b, p) = [par |-> p, c |-> x.c, seed |-> x.seed, level |-> x.level]
    BY <1>3, <1>4, <2>1 DEF Deserialize
  <2> QED
    BY <1>2, <2>3, <2>4
<1>5. CASE x.seed # NoSeed
  <2> DEFINE last == [ctx |-> ctx, src |-> x.seed]
  <2>1. Len(x.c) = 2 /\ x.c[2].src = x.seed /\ x.c \in Seq(Poly)
    <3>1. Len(x.c) = 2 /\ x.c[2].src = x.seed
      BY <1>5 DEF WellFormed
    <3> QED
      BY <3>1, Facts
  <2>2. b.polys = << x.c[1] >>
    <3>1. b.polys = SubSeq(x.c, 1, Len(x.c) - 1)
      BY <1>5 DEF Serialize
    <3>2. Len(x.c) - 1 = 1
      BY <2>1
    <3>3. SubSeq(x.c, 1, 1) = << x.c[1] >>
      <4>1. x.c[1] \in Poly
        BY <1>1, <2>1
      <4>2. /\ SubSeq(x.c, 1, 1) \in Seq(Poly) /\ Len(SubSeq(x.c, 1, 1)) = 1
            /\ SubSeq(x.c, 1, 1)[1] = x.c[1]
        BY <4>1, SubSeqProperties
      <4>3. << x.c[1] >> \in Seq(Poly) /\ Len(<< x.c[1] >>) = 1 /\ << x.c[1] >>[1] = x.c[1]
        BY <4>1
      <4>4. \A i \in 1 .. 1 : SubSeq(x.c, 1, 1)[i] = << x.c[1] >>[i]
        BY <4>2, <4>3
      <4> QED
        BY <4>2, <4>3, <4>4, SeqEqual
    <3> QED
      BY <3>1, <3>2, <3>3
  <2>3. x.c[2] = last
    BY <1>1, <2>1 DEF Poly
  <2>4. Append(<< x.c[1] >>, last) = x.c
    BY <2>1, <2>3
  <2>5. b.polys # << >> /\ Len(b.polys) = 1 /\ DOMAIN b.polys = {1} /\ b.polys[1].ctx = ctx
    BY <1>1, <2>1, <2>2
  <2>6. DeserializeOk(b, p)
    BY <1>1, <1>3, <1>5, <2>5 DEF DeserializeOk
  <2>7. Deserialize(b, p) = [par |-> p, c |-> x.c, seed |-> x.seed, level |-> x.level]
    BY <1>1, <1>3, <1>5, <2>2, <2>4 DEF Deserialize
  <2> QED
    BY <1>2, <2>6, <2>7
<1> QED
  BY <1>4, <1>5

LEMMA TransferWF ==
    ASSUME NEW x, WellFormed(x), NEW p \in Params, Value[p] = Value[x.par],
           DeserializeOk(Serialize(x), p)
    PROVE  WellFormed(Deserialize(Serialize(x), p))
<1>1. x.c # << >>
  BY DEF DeserializeOk, Serialize
<1>2. Deserialize(Serialize(x), p) = [x EXCEPT !.par = p]
  BY <1>1, RoundTrip
<1>3. [x EXCEPT !.par = p] = [par |-> p, c |-> x.c, seed |-> x.seed, level |-> x.level]
  <2>1. x \in [par : Params, c : Seq(Poly), seed : Seeds \cup {NoSeed}, level : Level]
    BY DEF WellFormed, Ciphertext
  <2> QED
    BY <2>1
<1>4. /\ x.c \in Seq(Poly) /\ x.seed \in Seeds \cup {NoSeed} /\ x.level \in Level
      /\ x.level \in Levels(p) /\ CtxAt(p, x.level) = CtxAt(x.par, x.level)
  BY Facts, EqualParams DEF WellFormed, Ciphertext
<1> QED
  BY <1>2, <1>3, <1>4 DEF WellFormed, Ciphertext

-----------------------------------------------------------------------------
(* Writing one part that no seed stands for. *)

LEMMA WritePartWF ==
    ASSUME NEW x, WellFormed(x), NEW i \in DOMAIN x.c, x.seed = NoSeed \/ i # Len(x.c)
    PROVE  WellFormed([x EXCEPT !.c[i] = Moved(@, @.ctx)])
<1> DEFINE ctx == CtxAt(x.par, x.level)
           c == [x.c EXCEPT ![i] = Moved(x.c[i], x.c[i].ctx)]
<1>1. x \in [par : Params, c : Seq(Poly), seed : Seeds \cup {NoSeed}, level : Level]
  BY DEF WellFormed, Ciphertext
<1>2. DOMAIN x.c = 1 .. Len(x.c) /\ Len(x.c) \in Nat /\ \A j \in 1 .. Len(x.c) : Clean(x.c[j], ctx)
  BY Facts
<1>3. Clean(Moved(x.c[i], x.c[i].ctx), ctx)
  <2>1. x.c[i].ctx = ctx /\ x.c[i].src # Mixed
    BY <1>2 DEF Clean
  <2>2. Clean(Moved(x.c[i], ctx), ctx)
    BY <2>1, Facts, MovedClean
  <2> QED
    BY <2>1, <2>2
<1>4. \A j \in 1 .. Len(x.c) : Clean(c[j], ctx) /\ (j # i => c[j] = x.c[j])
  BY <1>1, <1>2, <1>3
<1>5. c \in Seq(Poly) /\ Len(c) = Len(x.c)
  <2>1. c \in [1 .. Len(x.c) -> Poly]
    BY <1>2, <1>4 DEF Clean
  <2> HIDE DEF c
  <2> QED
    BY <1>2, <2>1, FunctionIsSeq
<1>6. [x EXCEPT !.c[i] = Moved(@, @.ctx)]
        = [par |-> x.par, c |-> c, seed |-> x.seed, level |-> x.level]
  BY <1>1
<1>7. x.seed # NoSeed => Len(c) = 2 /\ c[2].src = x.seed
  <2>1. SUFFICES ASSUME x.seed # NoSeed PROVE Len(c) = 2 /\ c[2].src = x.seed
    OBVIOUS
  <2>2. Len(x.c) = 2 /\ x.c[2].src = x.seed /\ 2 # i /\ 2 \in 1 .. Len(x.c)
    BY <2>1 DEF WellFormed
  <2> HIDE DEF c
  <2> QED
    BY <1>4, <1>5, <2>2
<1> HIDE DEF c
<1> QED
  BY <1>1, <1>4, <1>5, <1>6, <1>7 DEF WellFormed, Ciphertext

-----------------------------------------------------------------------------
(* The inductive invariant. *)

IInv == reg \in [Regs -> Ciphertext] /\ \A r \in Regs : WellFormed(reg[r])

LEMMA PutWF ==
    ASSUME IInv, NEW d \in Regs, NEW v, WellFormed(v), Put(d, v)
    PROVE  IInv'
<1>1. v \in Ciphertext
  BY DEF WellFormed
<1>2. reg' \in [Regs -> Ciphertext]
  BY <1>1 DEF IInv, Put
<1>3. \A r \in Regs : reg'[r] = IF r = d THEN v ELSE reg[r]
  BY DEF IInv, Put
<1>4. \A r \in Regs : WellFormed(reg'[r])
  BY <1>3 DEF IInv
<1> QED
  BY <1>2, <1>4 DEF IInv

LEMMA InitIInv == Init => IInv
<1> SUFFICES ASSUME NEW p \in Params, reg = [r \in Regs |-> Zero(p)] PROVE IInv
  BY DEF Init
<1>1. WellFormed(Zero(p)) /\ Zero(p) \in Ciphertext
  BY ZeroWF DEF WellFormed
<1> QED
  BY <1>1 DEF IInv

LEMMA CreateIInv ==
    ASSUME Mistakes = {}, IInv, NEW d \in Regs, Create(d)
    PROVE  IInv'
<1>1. CASE NewZero(d)
  BY <1>1, ZeroWF, PutWF DEF NewZero
<1>2. CASE EncryptSk(d)
  BY <1>2, SkEncryptWF, PutWF DEF EncryptSk
<1>3. CASE EncryptPk(d)
  BY <1>3, PkEncryptWF, PutWF DEF EncryptPk, Unless
<1>4. CASE NewFromParts(d)
  <2>1. PICK p \in Params, n \in 1 .. MaxParts, a \in Regs, b \in Regs :
          /\ reg[a].c # << >> /\ reg[b].c # << >>
          /\ LET from  == [i \in 1 .. n |-> IF i = 1 THEN reg[a].c[1] ELSE reg[b].c[1]]
                 parts == [i \in 1 .. n |-> Moved(from[i], from[i].ctx)]
             IN  FromPartsOk(parts, p) /\ Put(d, FromParts(parts, p))
    BY <1>4 DEF NewFromParts
  <2> DEFINE from  == [i \in 1 .. n |-> IF i = 1 THEN reg[a].c[1] ELSE reg[b].c[1]]
             parts == [i \in 1 .. n |-> Moved(from[i], from[i].ctx)]
  <2>2. ASSUME NEW r \in Regs, reg[r].c # << >>
        PROVE  reg[r].c[1].ctx \in Context /\ reg[r].c[1].src # Mixed
    <3>1. WellFormed(reg[r])
      BY DEF IInv
    <3>2. 1 \in 1 .. Len(reg[r].c)
      BY <2>2, <3>1, Facts
    <3> QED
      BY <3>1, <3>2, Facts DEF Clean
  <2>3. ASSUME NEW i \in 1 .. n PROVE parts[i] \in Poly /\ parts[i].src # Mixed
    <3>1. from[i].ctx \in Context /\ from[i].src # Mixed
      BY <2>1, <2>2
    <3> HIDE DEF from
    <3> QED
      BY <3>1, MovedClean DEF Clean
  <2>4. n \in Nat /\ parts \in [1 .. n -> Poly]
    BY <2>3, OpsAssumption, SMTT(60)
  <2>5. FromPartsOk(parts, p) /\ Put(d, FromParts(parts, p))
    BY <2>1
  <2> HIDE DEF parts
  <2>6. parts \in Seq(Poly) /\ Len(parts) = n
    BY <2>4, FunctionIsSeq
  <2> QED
    BY <2>3, <2>5, <2>6, FromPartsWF, PutWF, SMTT(60)
<1>5. CASE Transfer(d)
  <2>1. PICK a \in Regs, p \in Params :
          /\ Value[p] = Value[reg[a].par]
          /\ DeserializeOk(Serialize(reg[a]), p)
          /\ Put(d, Deserialize(Serialize(reg[a]), p))
    BY <1>5 DEF Transfer
  <2>2. WellFormed(reg[a])
    BY DEF IInv
  <2> QED
    BY <2>1, <2>2, TransferWF, PutWF
<1> QED
  BY <1>1, <1>2, <1>3, <1>4, <1>5 DEF Create

LEMMA ComputeIInv ==
    ASSUME Mistakes = {}, IInv, NEW d \in Regs, Compute(d)
    PROVE  IInv'
<1>0. \A r \in Regs : WellFormed(reg[r])
  BY DEF IInv
<1>1. CASE WritePart(d)
  BY <1>0, <1>1, WritePartWF, PutWF DEF WritePart, Unless
<1>2. CASE AddCt(d)
  BY <1>0, <1>2, AddWF, PutWF DEF AddCt
<1>3. CASE SubCt(d)
  BY <1>0, <1>3, SubWF, PutWF DEF SubCt
<1>4. CASE NegCt(d)
  BY <1>0, <1>4, NegWF, PutWF DEF NegCt
<1>5. CASE AddPt(d)
  BY <1>0, <1>5, AddPlainWF, PutWF DEF AddPt
<1>6. CASE SubFromPt(d)
  BY <1>0, <1>6, PlainSubWF, PutWF DEF SubFromPt
<1>7. CASE MulPt(d)
  BY <1>0, <1>7, MulPlainWF, PutWF DEF MulPt
<1>8. CASE MulCt(d)
  BY <1>0, <1>8, MulWF, PutWF DEF MulCt, Unless
<1>9. CASE DotProductPt(d)
  <2>0. PICK n \in 1 .. 2, m \in 1 .. 2 :
          \E cts \in [1 .. n -> Regs], pt \in Plaintext :
            LET xs  == [i \in 1 .. n |-> reg[cts[i]]]
                pts == [i \in 1 .. m |-> pt]
            IN  /\ DotProductOk(xs, pts)
                /\ Unless(/\ \A i \in 1 .. n : xs[i].level = xs[1].level
                          /\ pt.level <= xs[1].level, "mixedDotProduct")
                /\ Put(d, DotProduct(xs, pts))
    BY <1>9 DEF DotProductPt
  <2>1. PICK cts \in [1 .. n -> Regs], pt \in Plaintext :
          LET xs  == [i \in 1 .. n |-> reg[cts[i]]]
              pts == [i \in 1 .. m |-> pt]
          IN  /\ DotProductOk(xs, pts)
              /\ Unless(/\ \A i \in 1 .. n : xs[i].level = xs[1].level
                        /\ pt.level <= xs[1].level, "mixedDotProduct")
              /\ Put(d, DotProduct(xs, pts))
    BY <2>0
  <2> DEFINE xs  == [i \in 1 .. n |-> reg[cts[i]]]
             pts == [i \in 1 .. m |-> pt]
  <2>2. Len(xs) = n /\ Len(pts) = m /\ n \in Nat /\ m \in Nat
    OBVIOUS
  <2>3. \A i \in 1 .. n : WellFormed(xs[i]) /\ xs[i].level = xs[1].level
    BY <1>0, <2>1 DEF Unless
  <2>4. \A i \in 1 .. m : pts[i] \in Plaintext /\ pts[i].level <= xs[1].level
    BY <2>1 DEF Unless
  <2>5. DotProductOk(xs, pts) /\ Put(d, DotProduct(xs, pts))
    BY <2>1
  <2> HIDE DEF xs, pts
  <2> QED
    BY <2>2, <2>3, <2>4, <2>5, DotProductWF, PutWF
<1> QED
  BY <1>1, <1>2, <1>3, <1>4, <1>5, <1>6, <1>7, <1>8, <1>9 DEF Compute

LEMMA WithKeyIInv ==
    ASSUME Mistakes = {}, IInv, NEW d \in Regs, WithKey(d)
    PROVE  IInv'
<1>0. \A r \in Regs : WellFormed(reg[r])
  BY DEF IInv
<1>1. CASE RelinearizeCt(d)
  BY <1>0, <1>1, RelinearizesWF, PutWF DEF RelinearizeCt
<1>2. CASE RotateCt(d)
  BY <1>0, <1>2, RotatesWF, PutWF DEF RotateCt, OwnGaloisKey, Unless
<1>3. CASE InnerSumCt(d)
  BY <1>0, <1>3, InnerSumWF, PutWF DEF InnerSumCt, OwnGaloisKey, Unless
<1>4. CASE MultiplyCt(d)
  BY <1>0, <1>4, MultiplyWF, PutWF DEF MultiplyCt
<1>5. CASE RgswMulCt(d)
  BY <1>0, <1>5, RgswMulWF, PutWF DEF RgswMulCt
<1> QED
  BY <1>1, <1>2, <1>3, <1>4, <1>5 DEF WithKey

LEMMA NextIInv ==
    ASSUME Mistakes = {}, IInv, [Next]_vars
    PROVE  IInv'
<1>0. \A r \in Regs : WellFormed(reg[r])
  BY DEF IInv
<1>1. CASE UNCHANGED vars
  BY <1>1 DEF vars, IInv
<1>2. ASSUME NEW d \in Regs, Lower(d) PROVE IInv'
  BY <1>0, <1>2, SwitchDownWF, PutWF DEF Lower
<1>3. ASSUME NEW d \in Regs, LowerTo(d) PROVE IInv'
  BY <1>0, <1>3, SwitchToLevelWF, PutWF DEF LowerTo
<1> QED
  BY <1>1, <1>2, <1>3, CreateIInv, ComputeIInv, WithKeyIInv DEF Next

(* IInv implies every invariant the model checker runs on the instance. *)
LEMMA IInvImplies ==
    ASSUME IInv
    PROVE  /\ TypeOK /\ ContextMatchesLevel /\ SeedRegeneratesLast
           /\ WireRoundTrip /\ NoMixedContexts /\ AtLeastTwoParts
<1>0. \A r \in Regs : WellFormed(reg[r])
  BY DEF IInv
<1>1. TypeOK
  BY <1>0, Facts DEF TypeOK, IInv
<1>2. ContextMatchesLevel
  BY <1>0, Facts DEF ContextMatchesLevel, Clean
<1>3. SeedRegeneratesLast
  BY <1>0 DEF SeedRegeneratesLast, WellFormed
<1>4. WireRoundTrip
  BY <1>0, RoundTrip DEF WireRoundTrip
<1>5. NoMixedContexts
  BY <1>0, Facts DEF NoMixedContexts, Clean
<1>6. AtLeastTwoParts
  BY <1>0 DEF AtLeastTwoParts, WellFormed
<1> QED
  BY <1>1, <1>2, <1>3, <1>4, <1>5, <1>6

LEMMA AlwaysIInv == ASSUME Mistakes = {} PROVE Spec => []IInv
<1>1. Init => IInv
  BY InitIInv
<1>2. IInv /\ [Next]_vars => IInv'
  BY NextIInv
<1> QED
  BY <1>1, <1>2, PTL DEF Spec

-----------------------------------------------------------------------------
(* On operands of one level, under one handle, the dot product is the sum  *)
(* of the products: both compute every part in the context of the operands.*)
LEMMA DotProductSum ==
    ASSUME NEW x, WellFormed(x), NEW y, WellFormed(y),
           NEW pt \in Plaintext, NEW qt \in Plaintext,
           DotProductOk(<< x, y >>, << pt, qt >>),
           SameLevel(<< x, y >>, << pt, qt >>), SameHandle(<< x, y >>, << pt, qt >>)
    PROVE  /\ SumOk(<< x, y >>, << pt, qt >>)
           /\ DotProduct(<< x, y >>, << pt, qt >>) = Sum2(<< x, y >>, << pt, qt >>)
<1> DEFINE xs  == << x, y >>
           pts == << pt, qt >>
           n   == Len(x.c)
           ctx == CtxAt(x.par, x.level)
           u   == MulPlain(x, pt)
           v   == MulPlain(y, qt)
           d   == [ctx |-> ctx, src |-> Derived]
<1>1. /\ y.par = x.par /\ pt.par = x.par /\ qt.par = x.par
      /\ y.level = x.level /\ pt.level = x.level /\ qt.level = x.level
  BY DEF SameLevel, SameHandle
<1>2. x.c # << >> /\ Len(y.c) = n
  BY DEF DotProductOk
<1>3. /\ n \in Nat /\ n # 0 /\ y.c # << >> /\ DOMAIN x.c = 1 .. n /\ DOMAIN y.c = 1 .. n
      /\ ctx \in Context /\ x.level \in Nat
      /\ \A i \in 1 .. n : Clean(x.c[i], ctx) /\ Clean(y.c[i], ctx)
  BY <1>1, <1>2, Facts
<1>4. u = WithParts(x, [i \in 1 .. n |-> d])
  <2>1. ASSUME NEW i \in 1 .. n PROVE Computed(x.c[i].ctx, {x.c[i], PlainPoly(pt)}) = d
    BY <1>1, <1>3, SeedAssumption DEF Computed, PlainPoly, Clean
  <2> QED
    BY <1>3, <2>1 DEF MulPlain
<1>5. v = WithParts(y, [i \in 1 .. n |-> d])
  <2>1. ASSUME NEW i \in 1 .. n PROVE Computed(y.c[i].ctx, {y.c[i], PlainPoly(qt)}) = d
    BY <1>1, <1>3, SeedAssumption DEF Computed, PlainPoly, Clean
  <2> QED
    BY <1>3, <2>1 DEF MulPlain
<1>6. /\ u.par = x.par /\ v.par = x.par /\ u.level = x.level /\ v.level = x.level
      /\ u.c = [i \in 1 .. n |-> d] /\ v.c = [i \in 1 .. n |-> d]
  BY <1>1, <1>4, <1>5 DEF WithParts
<1>7. Len(u.c) = n /\ Len(v.c) = n /\ DOMAIN u.c = 1 .. n /\ u.c # << >> /\ v.c # << >>
  <2>1. ASSUME NEW f, f = [i \in 1 .. n |-> d] PROVE Len(f) = n /\ DOMAIN f = 1 .. n /\ f # << >>
    <3>1. f \in [1 .. n -> {d}]
      BY <2>1
    <3> QED
      BY <1>3, <3>1, FunctionIsSeq, EmptySeq
  <2> QED
    BY <1>6, <2>1
<1> HIDE DEF u, v
<1>8. SumOk(xs, pts)
  <2>1. MulPlainOk(x, pt) /\ MulPlainOk(y, qt)
    BY <1>1 DEF MulPlainOk
  <2>2. AddOk(u, v)
    BY <1>6, <1>7 DEF AddOk
  <2> QED
    BY <2>1, <2>2 DEF SumOk, u, v
<1>9. Sum2(xs, pts) = [par |-> x.par, c |-> [i \in 1 .. n |-> d], seed |-> NoSeed,
                       level |-> x.level]
  <2>1. Add(u, v) = Pairwise(u, v)
    BY <1>7 DEF Add
  <2>2. ASSUME NEW i \in 1 .. n PROVE Computed(u.c[i].ctx, {u.c[i], v.c[i]}) = d
    <3>1. u.c[i] = d /\ v.c[i] = d
      BY <1>6
    <3> QED
      BY <3>1, SeedAssumption DEF Computed
  <2>3. Pairwise(u, v) = WithParts(u, [i \in 1 .. n |-> d])
    BY <1>7, <2>2 DEF Pairwise
  <2> QED
    BY <1>6, <2>1, <2>3 DEF Sum2, WithParts, u, v
<1>10. DotProduct(xs, pts) = [par |-> x.par, c |-> [i \in 1 .. n |-> d], seed |-> NoSeed,
                              level |-> x.level]
  <2> DEFINE Rows(p) == IF Reaches(CtxAt(p.par, p.level), ctx)
                        THEN {Computed(ctx, {})} ELSE {PlainPoly(p)}
             ins(j) == {xs[i].c[j] : i \in 1 .. 2} \cup UNION {Rows(pts[i]) : i \in 1 .. 2}
  <2>1. x.c[1].ctx = ctx
    BY <1>3 DEF Clean
  <2>2. \A i \in 1 .. 2 : \A q \in Rows(pts[i]) : q.ctx = ctx /\ q.src # Mixed
    BY <1>1, SeedAssumption DEF PlainPoly, Computed
  <2>3. ASSUME NEW j \in 1 .. n PROVE \A q \in ins(j) : q.ctx = ctx /\ q.src # Mixed
    <3>1. \A i \in 1 .. 2 : xs[i].c[j].ctx = ctx /\ xs[i].c[j].src # Mixed
      BY <1>3 DEF Clean
    <3> HIDE DEF Rows, xs, pts
    <3> QED
      BY <2>2, <3>1
  <2>4. ASSUME NEW j \in 1 .. n PROVE Computed(ctx, ins(j)) = d
    <3> HIDE DEF ins
    <3> QED
      BY <2>3, <2>4 DEF Computed
  <2>5. DotProduct(xs, pts) = [par |-> x.par, seed |-> NoSeed, level |-> x.level,
                               c |-> [j \in 1 .. n |-> Computed(ctx, ins(j))]]
    <3>1. xs[1] = x /\ Len(xs) = 2 /\ Len(pts) = 2 /\ DOMAIN x.c = 1 .. n
      BY <1>3
    <3>2. (1 .. (IF Len(xs) < Len(pts) THEN Len(xs) ELSE Len(pts))) = 1 .. 2
      BY <3>1
    <3> HIDE DEF xs, pts, ctx, n
    <3> QED
      BY <2>1, <3>1, <3>2 DEF DotProduct
  <2> HIDE DEF ins
  <2> QED
    BY <2>4, <2>5
<1> QED
  BY <1>8, <1>9, <1>10

-----------------------------------------------------------------------------
(* The theorems, of a program that makes none of the undetected mistakes.  *)

(* Every register holds a ciphertext at a level its parameters have,       *)
(* whatever sequence of operations built it.                               *)
THEOREM TypeCorrect == ASSUME Mistakes = {} PROVE Spec => []TypeOK
  BY AlwaysIInv, IInvImplies, PTL

(* The level field and the contexts of the parts always agree.             *)
THEOREM LevelsAgree == ASSUME Mistakes = {} PROVE Spec => []ContextMatchesLevel
  BY AlwaysIInv, IInvImplies, PTL

(* A recorded seed always generates the last part.                         *)
THEOREM SeedsAgree == ASSUME Mistakes = {} PROVE Spec => []SeedRegeneratesLast
  BY AlwaysIInv, IInvImplies, PTL

(* from_bytes always accepts what to_bytes wrote, and undoes it.           *)
THEOREM RoundTrips == ASSUME Mistakes = {} PROVE Spec => []WireRoundTrip
  BY AlwaysIInv, IInvImplies, PTL

(* No operation ever computes on polynomials of different contexts.        *)
THEOREM NeverMixed == ASSUME Mistakes = {} PROVE Spec => []NoMixedContexts
  BY AlwaysIInv, IInvImplies, PTL

(* No ciphertext ever has one part.                                        *)
THEOREM NeverOnePart == ASSUME Mistakes = {} PROVE Spec => []AtLeastTwoParts
  BY AlwaysIInv, IInvImplies, PTL

(* The dot product of two reachable ciphertexts of one level is the sum of *)
(* the products.                                                           *)
THEOREM DotProductCorrect == ASSUME Mistakes = {} PROVE Spec => []DotProductIsSum
<1>1. IInv => DotProductIsSum
  BY DotProductSum DEF IInv, DotProductIsSum
<1> QED
  BY <1>1, AlwaysIInv, PTL

=============================================================================
